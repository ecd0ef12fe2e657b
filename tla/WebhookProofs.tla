--------------------------- MODULE WebhookProofs ---------------------------
(***************************************************************************)
(* No cursor passes a row that was not fired, and no row is fired more     *)
(* often than something was lost, for every set of receivers, rows, batch  *)
(* sizes and numbers of permits, however often the process stops and its   *)
(* statements fail.                                                        *)
(*                                                                         *)
(* NothingPassedOver is not inductive: whether the cursor may move depends *)
(* on the batch in progress. Ticking says that every row that is due up to *)
(* the end of the batch is waiting, in flight or done; Bounds, that no     *)
(* cursor is ahead of the log, so that rows committed later are beyond     *)
(* every cursor and beyond the batch.                                      *)
(***************************************************************************)
EXTENDS Webhook, FiniteSetTheorems, WellFoundedInduction, TLAPS

Bounds ==
  /\ \A i \in log : i <= high
  /\ legacy <= high
  /\ \A h \in Hook : cursor[h] <= high /\ cursorDb[h] <= high
  /\ tick.last <= high

Ticking ==
  /\ round \subseteq conf
  /\ tick.st # "idle" =>
       /\ up /\ tick.hook \in conf
       /\ \A i \in Ids : Due(tick.hook, i) /\ i <= tick.last
                         => i \in tick.queued \cup tick.sent \cup ended[tick.hook]
  /\ tick.st = "writing" => tick.queued = {} /\ tick.sent = {}

Inv == TypeOK /\ Bounds /\ Ticking /\ NothingPassedOver

(***************************************************************************)
(* Least and greatest elements                                             *)
(***************************************************************************)

\* A set of naturals that is not empty has a least element.
LEMMA LeastExists ==
  ASSUME NEW S, S \subseteq Nat, S # {}
  PROVE  \E m \in S : \A x \in S : m <= x
<1>1. \E R : IsWellFoundedOn(R, Nat) /\ \A x, y \in Nat : x < y => <<x, y>> \in R
  <2>1. \A x, y \in Nat : x < y => <<x, y>> \in OpToRel(<, Nat)
    BY DEF OpToRel
  <2> QED
    BY <2>1, NatLessThanWellFounded, Zenon
<1>2. PICK R : IsWellFoundedOn(R, Nat) /\ \A x, y \in Nat : x < y => <<x, y>> \in R
  BY <1>1
<1>3. \E m \in S : \A x \in S : ~(<<x, m>> \in R)
  <2>1. \A Q, U, T : IsWellFoundedOn(Q, U) /\ T \subseteq U /\ T # {}
                       => \E x \in T : \A y \in T : ~(<<y, x>> \in Q)
    BY WFMin, Zenon
  <2> HIDE DEF IsWellFoundedOn
  <2>2. IsWellFoundedOn(R, Nat)
    BY <1>2
  <2> QED
    BY <2>1, <2>2
<1>4. \E m \in S : \A x \in S : ~(x < m)
  BY <1>2, <1>3, Zenon
<1> QED
  BY <1>4

\* ... and a greatest, if it is bounded.
LEMMA GreatestExists ==
  ASSUME NEW S, S \subseteq Nat, S # {}, NEW b \in Nat, \A x \in S : x <= b
  PROVE  \E m \in S : \A x \in S : x <= m
<1> DEFINE T == {d \in Nat : \E x \in S : d = b - x}
<1>1. T \subseteq Nat /\ T # {}
  <2>1. PICK x \in S : TRUE
    OBVIOUS
  <2>2. b - x \in T
    OBVIOUS
  <2> QED
    BY <2>2
<1>2. PICK d \in T : \A e \in T : d <= e
  <2> HIDE DEF T
  <2> QED
    BY <1>1, LeastExists
<1>3. PICK m \in S : d = b - m
  OBVIOUS
<1>4. \A x \in S : b - m <= b - x
  BY <1>2, <1>3
<1> QED
  BY <1>4

\* Max and Min of the library, where there is a greatest and a least.
LEMMA MaxIs ==
  ASSUME NEW S, S \subseteq Nat, S # {}, NEW b \in Nat, \A x \in S : x <= b
  PROVE  Max(S) \in S /\ \A x \in S : x <= Max(S)
<1>1. PICK m \in S : \A x \in S : x <= m
  BY GreatestExists
<1>2. \E x \in S : \A y \in S : x >= y
  BY <1>1
<1>3. Max(S) \in S /\ \A y \in S : Max(S) >= y
  BY <1>2 DEF Max
<1> QED
  BY <1>3

LEMMA MaxPair ==
  ASSUME NEW a \in Nat, NEW b \in Nat
  PROVE  Max({a, b}) \in {a, b} /\ a <= Max({a, b}) /\ b <= Max({a, b})
<1>1. \E x \in {a, b} : \A y \in {a, b} : x >= y
  OBVIOUS
<1>2. Max({a, b}) \in {a, b} /\ \A y \in {a, b} : Max({a, b}) >= y
  BY <1>1 DEF Max
<1> QED
  BY <1>2

LEMMA MinPair ==
  ASSUME NEW a \in Nat, NEW b \in Nat
  PROVE  Min({a, b}) \in {a, b}
<1>1. \E x \in {a, b} : \A y \in {a, b} : x =< y
  OBVIOUS
<1> QED
  BY <1>1 DEF Min

(***************************************************************************)
(* What the statements find                                                *)
(***************************************************************************)

\* SELECT MAX(id): an id of the log, or 0.
LEMMA LastId ==
  ASSUME TypeOK, Bounds
  PROVE  Max({0} \cup log) \in Nat /\ Max({0} \cup log) <= high
<1> DEFINE S == {0} \cup log
<1>1. S \subseteq Nat /\ S # {} /\ high \in Nat /\ \A x \in S : x <= high
  BY WebhookAssumption DEF TypeOK, Bounds
<1>2. Max(S) \in S
  <2> HIDE DEF S
  <2> QED
    BY <1>1, MaxIs
<1> QED
  BY <1>1, <1>2

\* A cursor from the database is not ahead of the log.
LEMMA InitialCursorBound ==
  ASSUME NEW h, NEW n \in Nat,
         NEW p \in Nat \cup {NoCursor}, p <= n,
         NEW o \in Nat \cup {NoCursor}, o <= n,
         NEW m \in Nat, m <= n
  PROVE  InitialCursor(h, p, o, m) \in Nat /\ InitialCursor(h, p, o, m) <= n
BY DEF InitialCursor, NoCursor

LEMMA RestoredNat ==
  ASSUME TypeOK, NEW h \in Hook
  PROVE  Restored(h) \in Nat
<1>1. backoffDb[h] \in Nat /\ now \in Nat /\ MAX_BACKOFF_SECS \in Nat
  BY WebhookAssumption DEF TypeOK
<1>2. CASE backoffDb[h] > now
  <2>1. backoffDb[h] - now \in Nat
    BY <1>1, <1>2
  <2>2. Max({backoffDb[h] - now, 1}) \in Nat
    BY <2>1, MaxPair
  <2>3. Min({Max({backoffDb[h] - now, 1}), MAX_BACKOFF_SECS}) \in Nat
    BY <2>2, <1>1, MinPair
  <2> QED
    BY <1>1, <1>2, <2>3 DEF Restored
<1>3. CASE ~(backoffDb[h] > now)
  BY <1>3 DEF Restored
<1> QED
  BY <1>2, <1>3

\* A batch ends with one of its rows and has every row up to there.
LEMMA BatchRead ==
  ASSUME TypeOK, Bounds, NEW h \in Hook, Later(h) # {}
  PROVE  /\ RowsRead(h) \subseteq Later(h)
         /\ Max(RowsRead(h)) \in RowsRead(h)
         /\ \A i \in Later(h) : i <= Max(RowsRead(h)) => i \in RowsRead(h)
<1> DEFINE L == Later(h)
           Upto(i) == {j \in L : j <= i}
<1>1. L \subseteq log /\ L \subseteq Nat /\ IsFiniteSet(L) /\ L # {} /\ high \in Nat
  <2>1. L \subseteq log /\ L \subseteq Ids /\ L # {} /\ high \in Nat
    BY DEF TypeOK, Later
  <2>2. IsFiniteSet(L)
    BY <2>1, WebhookAssumption, FS_Subset
  <2> QED
    BY <2>1, <2>2, WebhookAssumption
<1>2. RowsRead(h) = {i \in L : Cardinality(Upto(i)) <= Batch}
  BY DEF RowsRead
<1>3. \A i \in L : IsFiniteSet(Upto(i)) /\ Cardinality(Upto(i)) \in Nat
  <2>1. \A i \in L : Upto(i) \in SUBSET L
    OBVIOUS
  <2> HIDE DEF L, Upto
  <2>2. \A i \in L : IsFiniteSet(Upto(i))
    BY <2>1, <1>1, FS_Subset
  <2> QED
    BY <2>2, FS_CardinalityType
<1>4. RowsRead(h) # {}
  <2>1. PICK m \in L : \A x \in L : m <= x
    <3> HIDE DEF L
    <3> QED
      BY <1>1, LeastExists
  <2>2. Upto(m) = {m}
    BY <2>1, <1>1
  <2>3. Cardinality(Upto(m)) = 1
    BY <2>2, FS_Singleton, Zenon
  <2>4. 1 <= Batch
    BY WebhookAssumption
  <2> QED
    BY <1>2, <2>3, <2>4
<1>5. Max(RowsRead(h)) \in RowsRead(h)
  <2>1. RowsRead(h) \subseteq Nat /\ \A x \in RowsRead(h) : x <= high
    BY <1>1, <1>2 DEF Bounds
  <2> QED
    BY <2>1, <1>1, <1>4, MaxIs
<1>6. \A i, k \in L : i <= k /\ k \in RowsRead(h) => i \in RowsRead(h)
  <2> SUFFICES ASSUME NEW i \in L, NEW k \in L, i <= k, k \in RowsRead(h)
              PROVE  i \in RowsRead(h)
    OBVIOUS
  <2>1. Upto(i) \in SUBSET Upto(k)
    BY <1>1
  <2>2. Cardinality(Upto(i)) <= Cardinality(Upto(k))
    <3>1. IsFiniteSet(Upto(k))
      BY <1>3
    <3> HIDE DEF L, Upto
    <3> QED
      BY <2>1, <3>1, FS_Subset
  <2>3. Cardinality(Upto(k)) <= Batch /\ Batch \in Nat
    BY <1>2, WebhookAssumption
  <2> HIDE DEF L, Upto
  <2> QED
    BY <1>2, <1>3, <2>2, <2>3
<1> QED
  BY <1>2, <1>5, <1>6

(***************************************************************************)
(* The invariant                                                           *)
(***************************************************************************)

LEMMA InvInit == Init => Inv
<1> SUFFICES ASSUME Init PROVE Inv
  OBVIOUS
<1>1. OldRows \in Nat /\ 1..OldRows \subseteq Ids
  BY WebhookAssumption
<1>2. tick.st = "idle" /\ tick.hook \in Hook /\ tick.last = 0
  BY WebhookAssumption DEF Init, NoTick
<1>3. TypeOK
  <2>1. tick \in [st : {"idle", "firing", "writing"}, hook : Hook, last : Nat,
                 queued : SUBSET Ids, sent : SUBSET Ids, asked : SUBSET Asked]
    BY WebhookAssumption DEF Init, NoTick
  <2>2. log \subseteq Ids /\ high \in Nat /\ wants \in [Hook -> SUBSET Ids]
        /\ legacy \in Nat \cup {NoCursor}
    BY <1>1 DEF Init, NoCursor
  <2>3. start \in [Hook -> Nat] /\ fired \in [Hook -> [Ids -> Nat]]
    BY <1>1 DEF Init
  <2> QED
    BY <2>1, <2>2, <2>3 DEF Init, TypeOK
<1>4. Bounds
  BY <1>1, <1>2 DEF Init, Bounds, NoCursor
<1>5. Ticking
  BY <1>2 DEF Init, Ticking
<1>6. NothingPassedOver
  BY WebhookAssumption DEF Init, NothingPassedOver, NoCursor
<1> QED
  BY <1>3, <1>4, <1>5, <1>6 DEF Inv

\* Rows are committed beyond every cursor and beyond the batch in progress.
LEMMA RecordAuditStep ==
  ASSUME Inv, NEW S \in SUBSET Ids, NEW m \in [Hook -> SUBSET S], RecordAudit(S, m)
  PROVE  Inv'
<1> USE DEF Inv, RecordAudit, AppendRows, dbVars, memVars, histVars
<1>1. high' \in Nat /\ high < high' /\ \A i \in S : high < i /\ i <= high' /\ i \in Nat
  BY WebhookAssumption DEF TypeOK
<1>2. TypeOK'
  BY <1>1 DEF TypeOK
<1>3. Bounds'
  <2>1. \A i \in log : i <= high /\ i \in Nat
    BY WebhookAssumption DEF TypeOK, Bounds
  <2> QED
    BY <1>1, <2>1 DEF TypeOK, Bounds, NoCursor
<1>4. \A h \in Hook, i \in Ids : i <= high /\ Due(h, i)' => Due(h, i)
  BY <1>1, WebhookAssumption DEF TypeOK, Due
<1>5. Ticking'
  <2> SUFFICES ASSUME tick.st # "idle", NEW i \in Ids, Due(tick.hook, i)', i <= tick.last
              PROVE  i \in tick.queued \cup tick.sent \cup ended[tick.hook]
    BY Zenon DEF Ticking, Due
  <2>1. tick.hook \in Hook /\ i <= high
    BY WebhookAssumption DEF TypeOK, Bounds
  <2> QED
    BY <1>4, <2>1 DEF Ticking
<1>6. NothingPassedOver'
  <2> SUFFICES ASSUME NEW h \in Hook, NEW i \in Ids, Due(h, i)',
                      (up /\ h \in conf /\ i <= cursor[h]) \/ i <= cursorDb[h]
              PROVE  i \in ended[h]
    BY DEF NothingPassedOver
  <2>1. i <= high
    BY WebhookAssumption DEF TypeOK, Bounds, NoCursor
  <2> QED
    BY <1>4, <2>1 DEF NothingPassedOver
<1> QED
  BY <1>2, <1>3, <1>5, <1>6

\* Each receiver's cursor is where its row was, or where its deliveries begin.
LEMMA initializeStep ==
  ASSUME Inv, NEW c \in SUBSET Hook, NEW failed, initialize(c, failed)
  PROVE  Inv'
<1> DEFINE max_id == IF failed = "max_id" THEN 0 ELSE Max({0} \cup log)
           old == IF failed = "legacy" THEN NoCursor ELSE legacy
           persisted(h) == IF failed = h THEN NoCursor ELSE cursorDb[h]
<1> USE DEF Inv
<1>1. max_id \in Nat /\ max_id <= high /\ high \in Nat
  BY LastId DEF TypeOK
<1>2. old \in Nat \cup {NoCursor} /\ old <= high
  BY <1>1 DEF TypeOK, Bounds, NoCursor
<1>3. \A h \in Hook : persisted(h) \in Nat \cup {NoCursor} /\ persisted(h) <= high
  BY <1>1 DEF TypeOK, Bounds, NoCursor
<1>4. /\ ~up /\ up' = TRUE /\ conf' = c /\ round' = c
      /\ cursor' = [h \in Hook |-> IF h \in c
                     THEN InitialCursor(h, persisted(h), old, max_id) ELSE 0]
      /\ cursorDb' = [h \in Hook |-> IF h \notin c /\ failed # "orphans"
                       THEN NoCursor ELSE cursorDb[h]]
      /\ backoff' = [h \in Hook |-> IF failed = "backoffs" THEN 0 ELSE Restored(h)]
      /\ start' = [h \in Hook |->
                    IF h \notin c \/ persisted(h) # NoCursor THEN start[h]
                    ELSE IF cursorDb[h] = NoCursor THEN cursor'[h]
                    ELSE Max({start[h], cursor'[h]})]
      /\ losses' = [h \in Hook |-> IF h \notin c \/ failed = h
                     THEN losses[h] + 1 ELSE losses[h]]
      /\ dbFaults' = dbFaults + (IF failed = "none" THEN 0 ELSE 1)
      /\ UNCHANGED <<log, high, wants, legacy, backoffDb, now, tick, stops, fired, ended>>
  BY Zenon DEF initialize, Fault, logVars
<1>5. \A h \in Hook : cursor'[h] \in Nat /\ cursor'[h] <= high
  <2> SUFFICES ASSUME NEW h \in Hook PROVE cursor'[h] \in Nat /\ cursor'[h] <= high
    OBVIOUS
  <2>1. InitialCursor(h, persisted(h), old, max_id) \in Nat
        /\ InitialCursor(h, persisted(h), old, max_id) <= high
    <3> HIDE DEF persisted, old, max_id
    <3> QED
      BY <1>1, <1>2, <1>3, InitialCursorBound
  <2> HIDE DEF persisted, old, max_id
  <2> QED
    BY <1>1, <1>4, <2>1
<1>6. \A h \in Hook : start'[h] \in Nat /\ start[h] \in Nat
                      /\ (h \in c /\ persisted(h) = NoCursor => cursor'[h] <= start'[h])
                      /\ (cursorDb[h] # NoCursor \/ h \notin c => start[h] <= start'[h])
  <2> SUFFICES ASSUME NEW h \in Hook
              PROVE /\ start'[h] \in Nat /\ start[h] \in Nat
                    /\ h \in c /\ persisted(h) = NoCursor => cursor'[h] <= start'[h]
                    /\ cursorDb[h] # NoCursor \/ h \notin c => start[h] <= start'[h]
    OBVIOUS
  <2>1. start[h] \in Nat /\ cursor'[h] \in Nat
    BY <1>5 DEF TypeOK
  <2>2. Max({start[h], cursor'[h]}) \in Nat /\ start[h] <= Max({start[h], cursor'[h]})
        /\ cursor'[h] <= Max({start[h], cursor'[h]})
    BY <2>1, MaxPair
  <2>3. start'[h] = IF h \notin c \/ persisted(h) # NoCursor THEN start[h]
                    ELSE IF cursorDb[h] = NoCursor THEN cursor'[h]
                    ELSE Max({start[h], cursor'[h]})
    BY <1>4
  <2>4. persisted(h) # NoCursor => cursorDb[h] # NoCursor
    OBVIOUS
  <2> HIDE DEF persisted
  <2> QED
    BY <2>1, <2>2, <2>3, <2>4
<1>7. TypeOK'
  <2>1. start' \in [Hook -> Nat]
    BY <1>4, <1>6
  <2>2. cursor' \in [Hook -> Nat]
    BY <1>4, <1>5
  <2>3. backoff' \in [Hook -> Nat]
    BY <1>4, RestoredNat
  <2>4. cursorDb' \in [Hook -> Nat \cup {NoCursor}] /\ losses' \in [Hook -> Nat]
        /\ dbFaults' \in Nat
    BY <1>4 DEF TypeOK
  <2> QED
    BY <1>4, <2>1, <2>2, <2>3, <2>4 DEF TypeOK
<1>8. Bounds'
  <2>1. \A h \in Hook : cursorDb'[h] <= high
    BY <1>1, <1>4 DEF TypeOK, Bounds, NoCursor
  <2> QED
    BY <1>4, <1>5, <2>1 DEF Bounds
<1>9. tick.st = "idle"
  BY <1>4 DEF Ticking, TypeOK
<1>10. Ticking'
  BY <1>4, <1>9 DEF Ticking
<1>11. NothingPassedOver'
  <2> SUFFICES ASSUME NEW h \in Hook, NEW i \in Ids, Due(h, i)',
                      (h \in c /\ i <= cursor'[h]) \/ i <= cursorDb'[h]
              PROVE  i \in ended[h]
    BY <1>4 DEF NothingPassedOver
  <2>1. i \in log /\ i \in wants[h] /\ start'[h] < i /\ i \in Nat \ {0}
    BY <1>4, WebhookAssumption DEF Due
  <2>2. CASE i <= cursorDb'[h]
    <3>1. cursorDb'[h] = cursorDb[h] /\ cursorDb[h] # NoCursor
      BY <1>4, <2>1, <2>2 DEF NoCursor
    <3>2. Due(h, i)
      BY <1>6, <2>1, <3>1 DEF Due
    <3> QED
      BY <2>2, <3>1, <3>2 DEF NothingPassedOver
  <2>3. CASE h \in c /\ i <= cursor'[h]
    <3>1. persisted(h) # NoCursor
      BY <1>5, <1>6, <2>1, <2>3
    <3>2. cursor'[h] = cursorDb[h] /\ cursorDb[h] # NoCursor
      BY <1>4, <2>3, <3>1 DEF InitialCursor
    <3>3. Due(h, i)
      BY <1>6, <2>1, <3>2 DEF Due
    <3> QED
      BY <2>3, <3>2, <3>3 DEF NothingPassedOver
  <2> QED
    BY <2>2, <2>3
<1> QED
  BY <1>7, <1>8, <1>10, <1>11

\* A batch is read: what is due up to its last row was done or is in it.
LEMMA ReadRowsStep ==
  ASSUME Inv, NEW h \in Hook, ReadRows(h)
  PROVE  Inv'
<1> USE DEF Inv, ReadRows, histVars
<1>1. /\ RowsRead(h) \subseteq Later(h)
      /\ Max(RowsRead(h)) \in RowsRead(h)
      /\ \A i \in Later(h) : i <= Max(RowsRead(h)) => i \in RowsRead(h)
  BY BatchRead
<1>2. Later(h) \subseteq log /\ Later(h) \subseteq Ids /\ Later(h) \subseteq Nat
  BY WebhookAssumption DEF Later, TypeOK
<1>3. h \in conf /\ up /\ Served(h) \subseteq conf
  BY DEF Ticking, Served
<1>4. TypeOK'
  <2>1. tick' \in [st : {"idle", "firing", "writing"}, hook : Hook, last : Nat,
                  queued : SUBSET Ids, sent : SUBSET Ids, asked : SUBSET Asked]
    BY <1>1, <1>2
  <2>2. round' \subseteq Hook
    BY <1>3 DEF TypeOK
  <2> QED
    BY <2>1, <2>2 DEF TypeOK, logVars, dbVars
<1>5. Bounds'
  <2>1. tick'.last <= high
    BY <1>1, <1>2 DEF Bounds
  <2> QED
    BY <2>1 DEF Bounds, logVars, dbVars
<1>6. Ticking'
  <2>1. \A i \in Ids : Due(h, i) /\ i <= Max(RowsRead(h))
                       => i \in (RowsRead(h) \cap wants[h]) \cup ended[h]
    <3> SUFFICES ASSUME NEW i \in Ids, Due(h, i), i <= Max(RowsRead(h)), i \notin ended[h]
                PROVE  i \in RowsRead(h) \cap wants[h]
      OBVIOUS
    <3>1. i > cursor[h]
      BY <1>3, WebhookAssumption DEF NothingPassedOver, TypeOK
    <3> QED
      BY <1>1, <3>1 DEF Due, Later
  <2>2. Ids' = Ids /\ \A i : Due(h, i)' = Due(h, i)
    BY DEF Due, logVars
  <2> QED
    BY <1>3, <2>1, <2>2 DEF Ticking
<1>7. NothingPassedOver'
  BY DEF NothingPassedOver, Due, logVars, dbVars
<1> QED
  BY <1>4, <1>5, <1>6, <1>7

\* Rows leave the log, the clock runs, or a receiver is not served this time.
LEMMA QuietStep ==
  ASSUME Inv,
         \/ \E kept \in SUBSET log : Prune(kept)
         \/ Second
         \/ \E h \in Hook, failed \in BOOLEAN : SkipTick(h, failed)
         \/ UNCHANGED vars
  PROVE  Inv'
<1> DEFINE Same == UNCHANGED <<high, wants, dbVars, up, conf, cursor, backoff, tick, stops,
                               histVars>>
<1>1. Same /\ log' \subseteq log
  BY DEF Inv, Prune, DropRows, Second, SkipTick, vars, logVars, memVars
<1>2. now' \in Nat /\ dbFaults' \in Nat /\ round' \subseteq conf
  BY DEF Inv, TypeOK, Ticking, Prune, Second, SkipTick, Served, Fault, vars, memVars
<1>3. TypeOK'
  BY <1>1, <1>2 DEF Inv, TypeOK, dbVars, histVars
<1>4. Bounds'
  BY <1>1 DEF Inv, Bounds, dbVars
<1>5. \A h, i : Due(h, i)' => Due(h, i)
  BY <1>1 DEF Due, histVars
<1>6. Ticking'
  <2>1. UNCHANGED <<tick, up, conf, ended>>
    BY <1>1 DEF histVars
  <2> HIDE DEF Same
  <2> QED
    BY <1>2, <1>5, <2>1 DEF Inv, Ticking
<1>7. NothingPassedOver'
  <2>1. UNCHANGED <<up, conf, cursor, cursorDb, ended>>
    BY <1>1 DEF histVars, dbVars
  <2> HIDE DEF Same
  <2> QED
    BY <1>5, <2>1 DEF Inv, NothingPassedOver
<1> QED
  BY <1>3, <1>4, <1>6, <1>7 DEF Inv

LEMMA StopStep ==
  ASSUME Inv, Stop
  PROVE  Inv'
<1> USE DEF Inv, Stop
<1>1. TypeOK'
  <2>1. tick' \in [st : {"idle", "firing", "writing"}, hook : Hook, last : Nat,
                  queued : SUBSET Ids, sent : SUBSET Ids, asked : SUBSET Asked]
    BY DEF TypeOK, NoTick
  <2>2. losses' \in [Hook -> Nat]
    BY DEF TypeOK
  <2>3. /\ stops' \in Nat /\ round' \subseteq Hook
        /\ cursor' \in [Hook -> Nat] /\ backoff' \in [Hook -> Nat]
    BY DEF TypeOK
  <2>4. up' \in BOOLEAN
    BY Zenon
  <2> QED
    BY <2>1, <2>2, <2>3, <2>4 DEF TypeOK, logVars, dbVars
<1>2. Bounds'
  BY DEF Bounds, TypeOK, NoTick, logVars, dbVars
<1>3. Ticking'
  BY DEF Ticking, NoTick
<1>4. NothingPassedOver'
  BY DEF NothingPassedOver, Due, logVars, dbVars
<1> QED
  BY <1>1, <1>2, <1>3, <1>4

\* Rows of the batch go from waiting to in flight to done.
LEMMA FireStep ==
  ASSUME Inv,
         \/ \E i \in Ids : Fire(i) \/ FireEnds(i)
         \/ \E i \in Ids, retry_after \in RetryAfter : RateLimited(i, retry_after)
         \/ \E a \in tick.asked, failed \in BOOLEAN : persist_backoff(a, failed)
  PROVE  Inv'
<1> DEFINE TickType == [st : {"idle", "firing", "writing"}, hook : Hook, last : Nat,
                        queued : SUBSET Ids, sent : SUBSET Ids, asked : SUBSET Asked]
           Work == tick.queued \cup tick.sent \cup ended[tick.hook]
<1>1. tick \in TickType /\ tick.hook \in Hook
  BY DEF Inv, TypeOK
<1>2. /\ tick.st = "firing" /\ tick'.st = "firing"
      /\ tick'.hook = tick.hook /\ tick'.last = tick.last
      /\ UNCHANGED <<log, high, wants, legacy, cursorDb, now, up, conf, cursor, round,
                     stops, start, losses>>
  BY <1>1, Zenon DEF Fire, FireEnds, RateLimited, persist_backoff, logVars, dbVars, histVars
<1>3. /\ tick' \in TickType
      /\ ended' \in [Hook -> SUBSET Ids] /\ \A h \in Hook : ended[h] \subseteq ended'[h]
      /\ Work \subseteq Work'
  <2>1. ASSUME NEW i \in Ids, Fire(i)
        PROVE  <1>3!:
    <3>1. /\ tick' = [tick EXCEPT !.queued = @ \ {i}, !.sent = @ \cup {i}]
          /\ ended' = ended
      BY <2>1 DEF Fire
    <3> QED
      BY <1>1, <3>1 DEF Inv, TypeOK
  <2>2. ASSUME NEW i \in Ids, FireEnds(i)
        PROVE  <1>3!:
    <3>1. /\ tick' = [tick EXCEPT !.sent = @ \ {i}]
          /\ ended' = [ended EXCEPT ![tick.hook] = @ \cup {i}]
      BY <2>2 DEF FireEnds
    <3> QED
      BY <1>1, <3>1 DEF Inv, TypeOK
  <2>3. ASSUME NEW i \in Ids, NEW retry_after \in RetryAfter, RateLimited(i, retry_after)
        PROVE  <1>3!:
    <3>1. Min({retry_after, MAX_BACKOFF_SECS}) \in Nat
      BY MinPair, WebhookAssumption
    <3> DEFINE retry == Min({retry_after, MAX_BACKOFF_SECS})
               a == [id |-> i, retry |-> retry]
    <3>2. a \in Asked /\ tick' = [tick EXCEPT !.asked = @ \cup {a}]
      <4>1. tick' = [tick EXCEPT !.asked = @ \cup {a}]
        BY <2>3, Zenon DEF RateLimited
      <4>2. retry \in Nat /\ now + retry \in Nat
        BY <3>1 DEF Inv, TypeOK
      <4> HIDE DEF retry
      <4> QED
        BY <4>1, <4>2 DEF Asked
    <3> HIDE DEF a
    <3>3. ended' = ended
      BY <2>3 DEF RateLimited, histVars
    <3> QED
      BY <1>1, <3>2, <3>3 DEF Inv, TypeOK
  <2>4. ASSUME NEW a \in tick.asked, NEW failed \in BOOLEAN, persist_backoff(a, failed)
        PROVE  <1>3!:
    <3>1. a.id \in Ids
      BY <1>1 DEF Asked
    <3>2. /\ tick' = [tick EXCEPT !.asked = @ \ {a}, !.sent = @ \ {a.id}]
          /\ ended' = [ended EXCEPT ![tick.hook] = @ \cup {a.id}]
      BY <2>4 DEF persist_backoff
    <3> QED
      BY <1>1, <3>1, <3>2 DEF Inv, TypeOK
  <2> QED
    BY <2>1, <2>2, <2>3, <2>4
<1>4. /\ backoff' \in [Hook -> Nat] /\ backoffDb' \in [Hook -> Nat]
      /\ fired' \in [Hook -> [Ids -> Nat]]
      /\ dbFaults' \in Nat
  <2>1. CASE \E i \in Ids : Fire(i)
    <3>1. PICK i \in Ids : Fire(i)
      BY <2>1
    <3>2. fired' = [fired EXCEPT ![tick.hook][i] = @ + 1]
      BY <3>1 DEF Fire
    <3>3. fired' \in [Hook -> [Ids -> Nat]]
      BY <1>1, <3>2 DEF Inv, TypeOK
    <3> QED
      BY <3>1, <3>3 DEF Fire, Inv, TypeOK, dbVars
  <2>2. CASE \E i \in Ids : FireEnds(i)
    BY <1>1, <2>2 DEF FireEnds, Inv, TypeOK, dbVars
  <2>3. CASE \E i \in Ids, retry_after \in RetryAfter : RateLimited(i, retry_after)
    <3>1. PICK i \in Ids, retry_after \in RetryAfter : RateLimited(i, retry_after)
      BY <2>3
    <3>2. Min({retry_after, MAX_BACKOFF_SECS}) \in Nat
      BY MinPair, WebhookAssumption
    <3> QED
      BY <1>1, <3>1, <3>2 DEF RateLimited, histVars, dbVars, Inv, TypeOK
  <2>4. CASE \E a \in tick.asked, failed \in BOOLEAN : persist_backoff(a, failed)
    <3>1. PICK a \in tick.asked, failed \in BOOLEAN : persist_backoff(a, failed)
      BY <2>4
    <3>2. a.retry \in Nat
      BY <1>1 DEF Asked, Inv, TypeOK
    <3>5. backoffDb' \in [Hook -> Nat]
      <4>1. backoffDb' = backoffDb
            \/ backoffDb' = [backoffDb EXCEPT ![tick.hook] = now + a.retry]
        BY <3>1, Zenon DEF persist_backoff
      <4>2. now + a.retry \in Nat
        BY <3>2 DEF Inv, TypeOK
      <4> QED
        BY <1>1, <4>1, <4>2 DEF Inv, TypeOK
    <3>6. dbFaults' \in Nat
      <4>1. dbFaults' = dbFaults + 1 \/ dbFaults' = dbFaults + 0
        BY <3>1, Zenon DEF persist_backoff, Fault
      <4> QED
        BY <4>1 DEF Inv, TypeOK
    <3> QED
      BY <3>1, <3>5, <3>6 DEF persist_backoff, Inv, TypeOK
  <2> QED
    BY <2>1, <2>2, <2>3, <2>4
<1>5. TypeOK'
  BY <1>2, <1>3, <1>4 DEF Inv, TypeOK
<1>6. Bounds'
  BY <1>2 DEF Inv, Bounds
<1>7. Ticking'
  <2> HIDE DEF TickType
  <2> QED
    BY <1>2, <1>3 DEF Inv, Ticking, Due
<1>8. NothingPassedOver'
  BY <1>2, <1>3 DEF Inv, NothingPassedOver, Due
<1> QED
  BY <1>5, <1>6, <1>7, <1>8 DEF Inv

\* The cursor moves to the end of a batch that is done.
LEMMA CursorStep ==
  ASSUME Inv, MoveCursor \/ \E failed \in BOOLEAN : WriteCursor(failed)
  PROVE  Inv'
<1>1. /\ tick.hook \in Hook /\ tick.last \in Nat /\ tick.last <= high
      /\ up /\ tick.hook \in conf
      /\ \A i \in Ids : Due(tick.hook, i) /\ i <= tick.last => i \in ended[tick.hook]
  BY DEF Inv, TypeOK, Bounds, Ticking, MoveCursor, WriteCursor
<1>2. CASE MoveCursor
  <2> USE <1>2 DEF MoveCursor, Inv
  <2>1. TypeOK'
    BY <1>1 DEF TypeOK, logVars, dbVars, histVars
  <2>2. Bounds'
    BY <1>1 DEF TypeOK, Bounds, logVars, dbVars
  <2>3. Ticking'
    BY DEF TypeOK, Ticking, Due, logVars, histVars
  <2>4. NothingPassedOver'
    BY <1>1 DEF TypeOK, NothingPassedOver, Due, logVars, dbVars, histVars
  <2> QED
    BY <2>1, <2>2, <2>3, <2>4
<1>3. CASE \E failed \in BOOLEAN : WriteCursor(failed)
  <2> USE DEF Inv
  <2>1. PICK failed \in BOOLEAN : WriteCursor(failed)
    BY <1>3
  <2>2. TypeOK'
    <3>1. tick' \in [st : {"idle", "firing", "writing"}, hook : Hook, last : Nat,
                    queued : SUBSET Ids, sent : SUBSET Ids, asked : SUBSET Asked]
      BY <1>1, <2>1 DEF WriteCursor, NoTick
    <3>2. losses' \in [Hook -> Nat] /\ cursorDb' \in [Hook -> Nat \cup {NoCursor}]
          /\ dbFaults' \in Nat
      BY <1>1, <2>1 DEF WriteCursor, TypeOK, Fault
    <3> QED
      BY <2>1, <3>1, <3>2 DEF WriteCursor, TypeOK, logVars
  <2>3. Bounds'
    BY <1>1, <2>1 DEF WriteCursor, TypeOK, Bounds, NoTick, logVars
  <2>4. Ticking'
    BY <2>1 DEF WriteCursor, Ticking, NoTick
  <2>5. NothingPassedOver'
    BY <1>1, <2>1 DEF WriteCursor, TypeOK, NothingPassedOver, Due, logVars
  <2> QED
    BY <2>2, <2>3, <2>4, <2>5
<1> QED
  BY <1>2, <1>3

LEMMA InvNext == Inv /\ [Next]_vars => Inv'
<1> SUFFICES ASSUME Inv, [Next]_vars PROVE Inv'
  OBVIOUS
<1>1. CASE \E S \in SUBSET Ids : \E m \in [Hook -> SUBSET S] : RecordAudit(S, m)
  BY <1>1, RecordAuditStep
<1>2. CASE \E c \in SUBSET Hook, failed \in Statement : initialize(c, failed)
  BY <1>2, initializeStep
<1>3. CASE \E h \in Hook : ReadRows(h)
  BY <1>3, ReadRowsStep
<1>4. CASE \/ \E kept \in SUBSET log : Prune(kept)
           \/ Second
           \/ \E h \in Hook, failed \in BOOLEAN : SkipTick(h, failed)
           \/ UNCHANGED vars
  BY <1>4, QuietStep
<1>5. CASE Stop
  BY <1>5, StopStep
<1>6. CASE \/ \E i \in Ids : Fire(i) \/ FireEnds(i)
           \/ \E i \in Ids, retry_after \in RetryAfter : RateLimited(i, retry_after)
           \/ \E a \in tick.asked, failed \in BOOLEAN : persist_backoff(a, failed)
  BY <1>6, FireStep
<1>7. CASE MoveCursor \/ \E failed \in BOOLEAN : WriteCursor(failed)
  BY <1>7, CursorStep
<1> QED
  BY <1>1, <1>2, <1>3, <1>4, <1>5, <1>6, <1>7 DEF Next

\* Cursors, deadlines and batches keep their types: no cursor is ever a row
\* that was not there.
THEOREM TypeCorrect == Spec => []TypeOK
<1>1. Inv => TypeOK
  BY DEF Inv
<1> QED
  BY InvInit, InvNext, <1>1, PTL DEF Spec

\* tick_one_webhook: no cursor, in memory or in the database, passes a row that
\* is due before its request has ended, whenever the process stops.
THEOREM NothingPassedOverCorrect == Spec => []NothingPassedOver
<1>1. Inv => NothingPassedOver
  BY DEF Inv
<1> QED
  BY InvInit, InvNext, <1>1, PTL DEF Spec

(***************************************************************************)
(* How often a row is fired.                                               *)
(*                                                                         *)
(* FiredOncePerLoss leaves open whether a row may be fired once more. Owed *)
(* says which rows may: those the batch in progress has not passed, beyond *)
(* the cursor in the database, where the next start begins, or beyond the  *)
(* one in memory. They were fired once less. The cursor in memory may be   *)
(* behind the one in the database (a row that could not be read).          *)
(***************************************************************************)
Passed(h, i) == tick.st # "idle" /\ tick.hook = h /\ i <= tick.last /\ i \notin tick.queued

Ahead(h, i) == i > cursorDb[h] \/ (up /\ h \in conf /\ i > cursor[h])

Owed == \A h \in Hook, i \in Ids : Ahead(h, i) /\ ~Passed(h, i) => fired[h][i] <= losses[h]

Batched ==
  /\ tick.st # "idle" => cursor[tick.hook] <= tick.last
  /\ tick.st = "writing" => cursor[tick.hook] = tick.last
  /\ \A i \in tick.queued : tick.st # "idle" /\ cursor[tick.hook] < i /\ i <= tick.last

FireInv == Batched /\ Owed /\ FiredOncePerLoss

LEMMA Numbers ==
  ASSUME TypeOK
  PROVE  /\ \A h \in Hook : losses[h] \in Nat /\ cursor[h] \in Nat /\ cursorDb[h] \in Int
         /\ \A h \in Hook, i \in Ids : fired[h][i] \in Nat
         /\ \A i \in Ids : i \in Nat \ {0}
         /\ tick.hook \in Hook /\ tick.last \in Nat /\ tick.queued \subseteq Ids
BY WebhookAssumption DEF TypeOK, NoCursor

LEMMA FireInvInit == Init => FireInv
<1> SUFFICES ASSUME Init PROVE FireInv
  OBVIOUS
<1>1. tick.st = "idle" /\ tick.queued = {}
  BY DEF Init, NoTick
<1>2. \A h \in Hook, i \in Ids : fired[h][i] = 0 /\ losses[h] = 0
  BY DEF Init
<1> QED
  BY <1>1, <1>2 DEF FireInv, Batched, Owed, FiredOncePerLoss

\* A start goes on from the cursor in the database; where it cannot, or a
\* receiver is left out, that is a loss.
LEMMA initializeFires ==
  ASSUME Inv, FireInv, NEW c \in SUBSET Hook, NEW failed, initialize(c, failed)
  PROVE  FireInv'
<1> DEFINE max_id == IF failed = "max_id" THEN 0 ELSE Max({0} \cup log)
           old == IF failed = "legacy" THEN NoCursor ELSE legacy
           persisted(h) == IF failed = h THEN NoCursor ELSE cursorDb[h]
<1>1. /\ ~up /\ up' = TRUE /\ conf' = c
      /\ cursor' = [h \in Hook |-> IF h \in c
                     THEN InitialCursor(h, persisted(h), old, max_id) ELSE 0]
      /\ cursorDb' = [h \in Hook |-> IF h \notin c /\ failed # "orphans"
                       THEN NoCursor ELSE cursorDb[h]]
      /\ losses' = [h \in Hook |-> IF h \notin c \/ failed = h
                     THEN losses[h] + 1 ELSE losses[h]]
      /\ UNCHANGED <<tick, fired>>
  BY Zenon DEF initialize
<1>2. tick.st = "idle" /\ tick.queued = {}
  BY <1>1 DEF Inv, Ticking, TypeOK, FireInv, Batched
<1>3. Batched'
  BY <1>1, <1>2 DEF Batched
<1>4. \A h \in Hook, i \in Ids :
        /\ fired[h][i] \in Nat /\ losses[h] \in Nat /\ cursorDb[h] \in Int /\ i \in Nat \ {0}
        /\ fired[h][i] <= 1 + losses[h]
        /\ i > cursorDb[h] => fired[h][i] <= losses[h]
  BY <1>2, Numbers DEF Inv, FireInv, Owed, FiredOncePerLoss, Ahead, Passed
<1>5. \A h \in Hook, i \in Ids : fired'[h][i] <= 1 + losses'[h]
  BY <1>1, <1>4
<1>6. ASSUME NEW h \in Hook, NEW i \in Ids, Ahead(h, i)'
      PROVE  fired'[h][i] <= losses'[h]
  <2>1. CASE h \notin c \/ failed = h
    <3>1. losses'[h] = losses[h] + 1
      BY <1>1, <2>1
    <3> QED
      BY <1>1, <1>4, <3>1
  <2>2. CASE h \in c /\ failed # h
    <3>1. cursorDb'[h] = cursorDb[h] /\ losses'[h] = losses[h] /\ persisted(h) = cursorDb[h]
      BY <1>1, <2>2
    <3>2. i > cursorDb[h] \/ i > cursor'[h]
      BY <1>6, <3>1 DEF Ahead
    <3>3. cursorDb[h] = NoCursor \/ cursor'[h] = cursorDb[h]
      BY <1>1, <2>2, <3>1 DEF InitialCursor
    <3>4. i > cursorDb[h]
      BY <1>4, <3>2, <3>3 DEF NoCursor
    <3> QED
      BY <1>1, <1>4, <3>1, <3>4
  <2> QED
    BY <2>1, <2>2
<1> QED
  BY <1>3, <1>5, <1>6 DEF FireInv, Owed, FiredOncePerLoss

\* A tick that is cut off costs its receiver a loss; one that is through, or
\* none, costs nothing.
LEMMA StopFires ==
  ASSUME Inv, FireInv, Stop
  PROVE  FireInv'
<1>1. /\ up' = FALSE /\ tick'.st = "idle" /\ tick'.queued = {}
      /\ UNCHANGED <<cursorDb, fired>>
      /\ losses' = IF tick.st = "idle" THEN losses ELSE [losses EXCEPT ![tick.hook] = @ + 1]
  BY DEF Stop, NoTick, dbVars
<1>2. Batched'
  BY <1>1 DEF Batched
<1>3. \A h \in Hook, i \in Ids :
        /\ fired[h][i] \in Nat /\ losses[h] \in Nat
        /\ fired[h][i] <= 1 + losses[h]
        /\ Ahead(h, i) /\ ~Passed(h, i) => fired[h][i] <= losses[h]
  BY Numbers DEF Inv, FireInv, Owed, FiredOncePerLoss
<1>4. ASSUME NEW h \in Hook, NEW i \in Ids
      PROVE  /\ fired'[h][i] <= 1 + losses'[h]
             /\ Ahead(h, i)' => fired'[h][i] <= losses'[h]
  <2>1. CASE tick.st # "idle" /\ tick.hook = h
    <3>1. losses'[h] = losses[h] + 1
      BY <1>1, <2>1 DEF Inv, TypeOK
    <3> QED
      BY <1>1, <1>3, <3>1
  <2>2. CASE tick.st = "idle" \/ tick.hook # h
    <3>1. losses'[h] = losses[h]
      BY <1>1, <2>2 DEF Inv, TypeOK
    <3>2. Ahead(h, i)' => Ahead(h, i) /\ ~Passed(h, i)
      BY <1>1, <2>2 DEF Ahead, Passed
    <3> QED
      BY <1>1, <1>3, <3>1, <3>2
  <2> QED
    BY <2>1, <2>2
<1> QED
  BY <1>2, <1>4 DEF FireInv, Owed, FiredOncePerLoss

\* A batch has rows beyond the cursor only.
LEMMA ReadRowsFires ==
  ASSUME Inv, FireInv, NEW h \in Hook, ReadRows(h)
  PROVE  FireInv'
<1>1. /\ up /\ h \in round /\ tick.st = "idle" /\ UNCHANGED <<cursor, cursorDb, up, conf, fired, losses>>
      /\ tick' = [st |-> "firing", hook |-> h, last |-> Max(RowsRead(h)),
                  queued |-> RowsRead(h) \cap wants[h], sent |-> {}, asked |-> {}]
  BY DEF ReadRows, dbVars, histVars
<1>2. RowsRead(h) \subseteq Later(h) /\ Max(RowsRead(h)) \in RowsRead(h)
  BY BatchRead DEF Inv, ReadRows
<1>3. \A i \in RowsRead(h) : i \in Nat /\ cursor[h] < i /\ i <= Max(RowsRead(h))
  <2>1. RowsRead(h) \subseteq Nat /\ \A i \in RowsRead(h) : cursor[h] < i /\ i <= high
    BY <1>2, WebhookAssumption DEF Inv, TypeOK, Bounds, Later
  <2>2. high \in Nat /\ RowsRead(h) # {}
    BY <1>2 DEF Inv, TypeOK
  <2>3. \A i \in RowsRead(h) : i <= Max(RowsRead(h))
    BY <2>1, <2>2, MaxIs
  <2> QED
    BY <2>1, <2>3
<1>4. Batched'
  <2>1. tick'.st = "firing" /\ tick'.hook = h /\ tick'.last = Max(RowsRead(h))
        /\ tick'.queued \subseteq RowsRead(h)
    BY <1>1
  <2>2. cursor[h] \in Nat
    BY Numbers DEF Inv
  <2> QED
    BY <1>1, <1>2, <1>3, <2>1, <2>2 DEF Batched
<1>5. \A g \in Hook, i \in Ids : (Ahead(g, i)' <=> Ahead(g, i)) /\ ~Passed(g, i)
  BY <1>1 DEF Ahead, Passed
<1>6. Owed'
  BY <1>1, <1>5 DEF FireInv, Owed
<1>7. FiredOncePerLoss'
  BY <1>1 DEF FireInv, FiredOncePerLoss
<1> QED
  BY <1>4, <1>6, <1>7 DEF FireInv

\* A row that is fired was owed, and the batch has passed it then.
LEMMA FireFires ==
  ASSUME Inv, FireInv, NEW i \in Ids, Fire(i)
  PROVE  FireInv'
<1>1. PICK h : h = tick.hook
  OBVIOUS
<1>2. /\ h \in Hook /\ tick.st = "firing" /\ i \in tick.queued
      /\ tick' = [tick EXCEPT !.queued = @ \ {i}, !.sent = @ \cup {i}]
      /\ fired' = [fired EXCEPT ![h][i] = @ + 1]
      /\ UNCHANGED <<cursor, cursorDb, up, conf, losses>>
  BY <1>1 DEF Fire, Inv, TypeOK, dbVars
<1>3. /\ tick'.st = tick.st /\ tick'.hook = h /\ tick'.last = tick.last
      /\ tick'.queued = tick.queued \ {i}
  BY <1>1, <1>2 DEF Inv, TypeOK
<1>4. Batched'
  BY <1>1, <1>2, <1>3 DEF FireInv, Batched
<1>5. up /\ h \in conf /\ cursor[h] < i /\ i <= tick.last
  BY <1>1, <1>2 DEF Inv, Ticking, FireInv, Batched
<1>6. fired[h][i] <= losses[h]
  <2>1. i > cursor[h]
    BY <1>2, <1>5, Numbers DEF Inv
  <2>2. Ahead(h, i) /\ ~Passed(h, i)
    BY <1>2, <1>5, <2>1 DEF Ahead, Passed
  <2> QED
    BY <1>2, <2>2 DEF FireInv, Owed
<1>7. \A g \in Hook, j \in Ids :
        fired'[g][j] = IF g = h /\ j = i THEN fired[h][i] + 1 ELSE fired[g][j]
  BY <1>2 DEF Inv, TypeOK
<1>8. \A g \in Hook, j \in Ids : /\ Ahead(g, j)' <=> Ahead(g, j)
                                 /\ ~(g = h /\ j = i) => (Passed(g, j)' <=> Passed(g, j))
  BY <1>1, <1>2, <1>3 DEF Ahead, Passed
<1>9. Passed(h, i)'
  BY <1>2, <1>3, <1>5 DEF Passed
<1>10. Owed'
  BY <1>2, <1>7, <1>8, <1>9 DEF FireInv, Owed
<1>11. FiredOncePerLoss'
  <2>1. fired[h][i] \in Nat /\ losses[h] \in Nat
    BY <1>2, Numbers DEF Inv
  <2>2. fired[h][i] + 1 <= 1 + losses[h]
    BY <1>6, <2>1
  <2> QED
    BY <1>2, <1>7, <2>2 DEF FireInv, FiredOncePerLoss
<1> QED
  BY <1>4, <1>10, <1>11 DEF FireInv

\* The cursors move to the end of a batch all of which has been fired.
LEMMA CursorFires ==
  ASSUME Inv, FireInv, MoveCursor \/ \E failed \in BOOLEAN : WriteCursor(failed)
  PROVE  FireInv'
<1>1. PICK h : h = tick.hook
  OBVIOUS
<1>2. h \in Hook /\ tick.last \in Nat /\ cursor[h] \in Nat /\ cursor[h] <= tick.last
  BY <1>1, Numbers DEF Inv, FireInv, Batched, MoveCursor, WriteCursor
<1>3. CASE MoveCursor
  <2>1. /\ tick.st = "firing" /\ tick.queued = {}
        /\ cursor' = [cursor EXCEPT ![h] = tick.last]
        /\ tick' = [tick EXCEPT !.st = "writing"]
        /\ UNCHANGED <<cursorDb, up, conf, fired, losses>>
    BY <1>1, <1>3 DEF MoveCursor, dbVars, histVars
  <2>2. /\ tick'.st = "writing" /\ tick'.hook = h /\ tick'.last = tick.last
        /\ tick'.queued = {} /\ cursor'[h] = tick.last
        /\ \A g \in Hook \ {h} : cursor'[g] = cursor[g]
    BY <1>1, <1>2, <2>1 DEF Inv, TypeOK
  <2>3. Batched'
    BY <1>2, <2>2 DEF Batched
  <2>4. \A g \in Hook, i \in Ids : Ahead(g, i)' => Ahead(g, i)
    <3>1. \A i \in Ids : i > tick.last => i > cursor[h]
      BY <1>2, Numbers DEF Inv
    <3> QED
      BY <2>1, <2>2, <3>1 DEF Ahead
  <2>5. \A g \in Hook, i \in Ids : Passed(g, i)' <=> Passed(g, i)
    BY <1>1, <2>1, <2>2 DEF Passed
  <2>6. Owed'
    BY <2>1, <2>4, <2>5 DEF FireInv, Owed
  <2> QED
    BY <2>1, <2>3, <2>6 DEF FireInv, FiredOncePerLoss
<1>4. CASE \E failed \in BOOLEAN : WriteCursor(failed)
  <2>1. /\ tick.st = "writing" /\ tick'.st = "idle" /\ tick'.queued = {}
        /\ UNCHANGED <<cursor, up, conf, fired>>
        /\ \/ losses' = [losses EXCEPT ![h] = @ + 1] /\ UNCHANGED cursorDb
           \/ cursorDb' = [cursorDb EXCEPT ![h] = tick.last] /\ UNCHANGED losses
    <3>1. PICK failed \in BOOLEAN : WriteCursor(failed)
      BY <1>4
    <3>2. tick'.st = "idle" /\ tick'.queued = {}
      BY <3>1 DEF WriteCursor, NoTick
    <3>3. CASE failed
      BY <1>1, <3>1, <3>2, <3>3 DEF WriteCursor
    <3>4. CASE ~failed
      BY <1>1, <3>1, <3>2, <3>4 DEF WriteCursor
    <3> QED
      BY <3>3, <3>4
  <2>2. cursor[h] = tick.last /\ up /\ h \in conf
    BY <1>1, <2>1 DEF FireInv, Batched, Inv, Ticking
  <2>3. Batched'
    BY <2>1 DEF Batched
  <2>4. \A g \in Hook, i \in Ids :
          /\ fired[g][i] \in Nat /\ losses[g] \in Nat
          /\ fired[g][i] <= 1 + losses[g]
          /\ Ahead(g, i) /\ ~Passed(g, i) => fired[g][i] <= losses[g]
    BY Numbers DEF Inv, FireInv, Owed, FiredOncePerLoss
  <2>5. ASSUME NEW g \in Hook, NEW i \in Ids
        PROVE  /\ fired'[g][i] <= 1 + losses'[g]
               /\ Ahead(g, i)' => fired'[g][i] <= losses'[g]
    <3>1. CASE losses' = [losses EXCEPT ![h] = @ + 1] /\ UNCHANGED cursorDb
      <4>1. CASE g = h
        <5>1. losses'[g] = losses[g] + 1
          BY <3>1, <4>1 DEF Inv, TypeOK
        <5> QED
          BY <2>1, <2>4, <5>1
      <4>2. CASE g # h
        <5>1. losses'[g] = losses[g] /\ (Ahead(g, i)' <=> Ahead(g, i)) /\ ~Passed(g, i)
          BY <1>1, <2>1, <3>1, <4>2 DEF Inv, TypeOK, Ahead, Passed
        <5> QED
          BY <2>1, <2>4, <5>1
      <4> QED
        BY <4>1, <4>2
    <3>2. CASE cursorDb' = [cursorDb EXCEPT ![h] = tick.last] /\ UNCHANGED losses
      <4>1. Ahead(g, i)' => Ahead(g, i) /\ ~Passed(g, i)
        <5>1. CASE g = h
          <6>1. cursorDb'[g] = tick.last
            BY <3>2, <5>1 DEF Inv, TypeOK
          <6>2. Ahead(g, i)' => i > tick.last
            BY <2>1, <2>2, <5>1, <6>1 DEF Ahead
          <6>3. i > tick.last => ~(i <= tick.last)
            BY <1>2, Numbers DEF Inv
          <6> QED
            BY <2>2, <5>1, <6>2, <6>3 DEF Ahead, Passed
        <5>2. CASE g # h
          BY <1>1, <2>1, <3>2, <5>2 DEF Inv, TypeOK, Ahead, Passed
        <5> QED
          BY <5>1, <5>2
      <4> QED
        BY <2>1, <2>4, <3>2, <4>1
    <3> QED
      BY <2>1, <3>1, <3>2
  <2> QED
    BY <2>3, <2>5 DEF FireInv, Owed, FiredOncePerLoss
<1> QED
  BY <1>3, <1>4

LEMMA FireInvNext == Inv /\ FireInv /\ [Next]_vars => FireInv'
<1> SUFFICES ASSUME Inv, FireInv, [Next]_vars PROVE FireInv'
  OBVIOUS
<1>1. CASE \E c \in SUBSET Hook, failed \in Statement : initialize(c, failed)
  BY <1>1, initializeFires
<1>2. CASE Stop
  BY <1>2, StopFires
<1>3. CASE \E h \in Hook : ReadRows(h)
  BY <1>3, ReadRowsFires
<1>4. CASE \E i \in Ids : Fire(i)
  BY <1>4, FireFires
<1>5. CASE MoveCursor \/ \E failed \in BOOLEAN : WriteCursor(failed)
  BY <1>5, CursorFires
<1>6. CASE \/ \E S \in SUBSET Ids : \E m \in [Hook -> SUBSET S] : RecordAudit(S, m)
           \/ \E kept \in SUBSET log : Prune(kept)
           \/ Second
           \/ \E h \in Hook, failed \in BOOLEAN : SkipTick(h, failed)
           \/ \E i \in Ids : FireEnds(i)
           \/ \E i \in Ids, retry_after \in RetryAfter : RateLimited(i, retry_after)
           \/ \E a \in tick.asked, failed \in BOOLEAN : persist_backoff(a, failed)
           \/ UNCHANGED vars
  <2>1. /\ UNCHANGED <<cursor, cursorDb, up, conf, fired, losses>>
        /\ UNCHANGED <<tick.st, tick.hook, tick.last, tick.queued>>
    BY <1>6 DEF RecordAudit, Prune, Second, SkipTick, FireEnds, RateLimited, persist_backoff, vars,
                dbVars, memVars, histVars, Inv, TypeOK
  <2> QED
    BY <2>1 DEF FireInv, Batched, Owed, FiredOncePerLoss, Ahead, Passed
<1> QED
  BY <1>1, <1>2, <1>3, <1>4, <1>5, <1>6 DEF Next

\* A row is fired at a receiver once, and once more for each tick that was cut
\* off and each cursor that could not be written or read or was given up,
\* however long the dispatcher runs and whatever the receivers answer.
THEOREM FiredOncePerLossCorrect == Spec => []FiredOncePerLoss
<1>1. FireInv => FiredOncePerLoss
  BY DEF FireInv
<1> QED
  BY InvInit, InvNext, FireInvInit, FireInvNext, <1>1, PTL DEF Spec

=============================================================================
