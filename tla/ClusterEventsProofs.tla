------------------------ MODULE ClusterEventsProofs ------------------------
(***************************************************************************)
(* Theorems about cluster events, for any number of nodes, rows and ticks, *)
(* any page size and any commit latency.                                   *)
(***************************************************************************)
EXTENDS ClusterEvents, FiniteSetTheorems, TLAPS

USE ClusterEventsAssumption

-----------------------------------------------------------------------------
(* Types *)

Row == [node : Nodes, at : 0..MaxTime, nbf : Int, committed : -1..MaxTime]
Cursor == [min : Int, page : -1..MaxEvents]

Types ==
  /\ now \in 0..MaxTime
  /\ \E k \in 0..MaxEvents : Rows = 1..k
  /\ rows \in [Rows -> Row]
  /\ at \in [Pollers -> 0..MaxTime]
  /\ marks \in [Pollers -> [Ids -> Nat]]
  /\ cursor \in [Pollers -> Cursor]
  /\ \A n \in Pollers : Polling(n) => cursor[n].page >= 0
  /\ lastPoll \in [Pollers -> 0..MaxTime]
  /\ due \in [Pollers -> SUBSET Ids]
  /\ failed \subseteq Pollers
  /\ torn \in [Pollers -> SUBSET Ids]
  /\ ran \in [Pollers -> [Ids -> Nat]]
  /\ reloads \in Nat

LEMMA ConstantTypes ==
  /\ PollInterval \in Nat /\ PollInterval > 0 /\ PageSize \in Nat /\ PageSize > 0
  /\ PollOffset \in Nat /\ PollDelay \in Nat /\ Slack \in Nat
  /\ MaxEvents \in Nat /\ MaxTime \in Nat
  /\ EventTtlShm \in Nat /\ EventTtlShm = 2 * PollInterval + PollOffset
<1>1. /\ PollInterval \in Nat /\ PollInterval > 0 /\ PageSize \in Nat /\ PageSize > 0
      /\ PollOffset \in Nat /\ PollDelay \in Nat /\ Slack \in Nat
      /\ MaxEvents \in Nat /\ MaxTime \in Nat
  OBVIOUS
<1> QED BY <1>1 DEF EventTtlShm

LEMMA RowTypes ==
  ASSUME Types
  PROVE  /\ IsFiniteSet(Rows) /\ Cardinality(Rows) \in 0..MaxEvents
         /\ Rows = 1..Cardinality(Rows) /\ Rows \subseteq Ids
<1>1. PICK k \in 0..MaxEvents : Rows = 1..k
  BY DEF Types
<1>2. MaxEvents \in Nat
  BY ConstantTypes
<1>3. k \in Int /\ 1 \in Int /\ k >= 0
  BY <1>2
<1>4. IsFiniteSet(1..k) /\ Cardinality(1..k) = k
  BY <1>3, FS_Interval
<1>5. 1..k \subseteq Ids
  BY <1>2 DEF Ids
<1> QED BY <1>1, <1>4, <1>5

LEMMA RowValues ==
  ASSUME Types
  PROVE  \A i \in Rows : rows[i].at \in Nat
<1> SUFFICES ASSUME NEW i \in Rows PROVE rows[i].at \in Nat
  OBVIOUS
<1>1. rows[i] \in Row
  BY DEF Types
<1> QED BY <1>1, ConstantTypes DEF Row

LEMMA SelectedRows ==
  ASSUME Types, NEW min
  PROVE  /\ Selected(min) \in SUBSET Rows /\ IsFiniteSet(Selected(min))
         /\ Cardinality(Selected(min)) \in 0..MaxEvents
<1>1. Selected(min) \in SUBSET Rows
  BY DEF Selected
<1>2. IsFiniteSet(Rows) /\ Cardinality(Rows) \in 0..MaxEvents /\ MaxEvents \in Nat
  BY RowTypes, ConstantTypes
<1>3. IsFiniteSet(Selected(min)) /\ Cardinality(Selected(min)) <= Cardinality(Rows)
      /\ Cardinality(Selected(min)) \in Nat
  BY <1>1, <1>2, FS_Subset, FS_CardinalityType
<1> QED BY <1>1, <1>2, <1>3

(* The rows of S of an earlier time than row i.                            *)
Earlier(i, S) == {j \in S : rows[j].at < rows[i].at}

LEMMA FirstOfRows ==
  ASSUME NEW S, IsFiniteSet(S), NEW k \in Nat, NEW F \in FirstOf(S, k)
  PROVE  /\ F \subseteq S /\ IsFiniteSet(F) /\ Cardinality(F) \in 0..k
         /\ F # S => Cardinality(F) = k
         /\ \A i \in F, j \in S \ F : rows[i].at <= rows[j].at
<1>1. /\ F \subseteq S /\ (Cardinality(F) = k \/ (F = S /\ Cardinality(F) < k))
      /\ \A i \in F, j \in S \ F : rows[i].at <= rows[j].at
  BY DEF FirstOf
<1>2. IsFiniteSet(F) /\ Cardinality(F) \in Nat
  BY <1>1, FS_Subset, FS_CardinalityType
<1> QED BY <1>1, <1>2

(* A row with k earlier ones is not among the first k, and whatever is     *)
(* among them is earlier.                                                  *)
LEMMA FirstAreEarlier ==
  ASSUME Types, NEW S \in SUBSET Rows, IsFiniteSet(S), NEW k \in Nat, NEW F \in FirstOf(S, k),
         NEW i \in S, Cardinality(Earlier(i, S)) >= k
  PROVE  i \notin F /\ F \subseteq Earlier(i, S)
<1>1. /\ F \subseteq S /\ IsFiniteSet(F) /\ Cardinality(F) \in 0..k
      /\ \A x \in F, y \in S \ F : rows[x].at <= rows[y].at
  BY FirstOfRows
<1>2. \A x \in S : rows[x].at \in Nat
  BY RowValues
<1>3. ASSUME NEW j \in F, rows[i].at <= rows[j].at PROVE FALSE
  <2>1. Earlier(i, S) \subseteq F \ {j}
    <3> SUFFICES ASSUME NEW x \in S, rows[x].at < rows[i].at PROVE x \in F \ {j}
      BY DEF Earlier
    <3>1. rows[x].at < rows[j].at /\ x # j
      BY <1>1, <1>2, <1>3
    <3>2. x \in F
      BY <1>1, <1>2, <3>1
    <3> QED BY <3>1, <3>2
  <2>2. IsFiniteSet(F \ {j}) /\ Cardinality(F \ {j}) = Cardinality(F) - 1
    BY <1>1, FS_RemoveElement
  <2>3. Cardinality(Earlier(i, S)) <= Cardinality(F) - 1 /\ Cardinality(Earlier(i, S)) \in Nat
    BY <2>1, <2>2, FS_Subset, FS_CardinalityType
  <2> QED BY <1>1, <2>3
<1>4. i \notin F
  <2>1. rows[i].at <= rows[i].at
    BY <1>2
  <2> QED BY <1>3, <2>1
<1>5. \A j \in F : j \in S /\ rows[j].at < rows[i].at
  BY <1>1, <1>2, <1>3
<1> QED BY <1>4, <1>5 DEF Earlier

LEMMA Offset ==
  ASSUME Types, NEW n \in Pollers, Polling(n)
  PROVE  /\ cursor[n].page \in Nat /\ cursor[n].page * PageSize \in Nat
         /\ cursor[n].page <= cursor[n].page * PageSize
         /\ (cursor[n].page + 1) * PageSize = cursor[n].page * PageSize + PageSize
<1>1. cursor[n].page \in Nat
  BY DEF Types, Cursor
<1>2. PageSize \in Nat /\ PageSize >= 1
  BY ConstantTypes
<1> QED BY <1>1, <1>2

(* A page with rows is not the last that there could be; the first page    *)
(* has a row if the interval has one.                                      *)
LEMMA PageBound ==
  ASSUME Types, NEW n \in Pollers, Polling(n), NEW P \in Pages(n)
  PROVE  /\ P \subseteq Selected(cursor[n].min) /\ P \subseteq Rows
         /\ P # {} => cursor[n].page + 1 \in 0..MaxEvents
         /\ cursor[n].page = 0 /\ Selected(cursor[n].min) # {} => P # {}
<1> DEFINE S == Selected(cursor[n].min)
           a == cursor[n].page * PageSize
<1>1. S \in SUBSET Rows /\ IsFiniteSet(S) /\ Cardinality(S) \in 0..MaxEvents
  BY SelectedRows
<1>2. PICK F \in FirstOf(S, a) : P \in FirstOf(S \ F, PageSize)
  BY DEF Pages
<1>3. a \in Nat /\ PageSize \in Nat /\ PageSize > 0 /\ cursor[n].page \in Nat
      /\ cursor[n].page <= a /\ MaxEvents \in Nat
  BY Offset, ConstantTypes
<1>z. cursor[n].page = 0 => a = 0
  BY <1>3
<1> HIDE DEF S, a
<1>4. /\ F \subseteq S /\ IsFiniteSet(F) /\ Cardinality(F) \in 0..a
      /\ F # S => Cardinality(F) = a
  BY <1>1, <1>2, <1>3, FirstOfRows
<1>5. IsFiniteSet(S \ F)
  BY <1>1, FS_Subset
<1>6. P \subseteq S \ F /\ P # S \ F => Cardinality(P) = PageSize
  BY <1>2, <1>3, <1>5, FirstOfRows
<1>7. P \subseteq S
  BY <1>2, <1>3, <1>5, FirstOfRows
<1>8. ASSUME NEW i \in P PROVE cursor[n].page + 1 \in 0..MaxEvents
  <2>1. i \in S \ F
    BY <1>2, <1>3, <1>5, FirstOfRows
  <2>2. F # S /\ Cardinality(F) = a
    BY <1>4, <2>1
  <2>3. Cardinality(F) <= Cardinality(S) /\ Cardinality(F) # Cardinality(S)
    BY <1>1, <1>4, <2>2, FS_Subset
  <2> QED BY <1>1, <1>3, <2>2, <2>3
<1>9. ASSUME cursor[n].page = 0, S # {}, P = {} PROVE FALSE
  <2>1. F = {}
    BY <1>4, <1>z, <1>9, FS_EmptySet
  <2>2. P # S \ F
    BY <1>9, <2>1
  <2>3. Cardinality(P) = PageSize
    BY <1>2, <1>3, <1>5, <2>2, FirstOfRows
  <2> QED BY <1>3, <1>9, <2>3, FS_EmptySet
<1> QED BY <1>1, <1>7, <1>8, <1>9 DEF S

(* A row that a page leaves behind, although its earlier ones fill the     *)
(* pages before, has its earlier ones fill this page too, if none of the   *)
(* page is of its own time.                                                *)
LEMMA PageLeaves ==
  ASSUME Types, NEW n \in Pollers, Polling(n), NEW P \in Pages(n),
         NEW i \in Selected(cursor[n].min), i \notin P, i \notin Divided(n, P),
         Cardinality(Earlier(i, Selected(cursor[n].min))) >= cursor[n].page * PageSize
  PROVE  /\ Cardinality(P) = PageSize /\ P # {}
         /\ Cardinality(Earlier(i, Selected(cursor[n].min)))
              >= cursor[n].page * PageSize + PageSize
<1> DEFINE S == Selected(cursor[n].min)
           a == cursor[n].page * PageSize
<1>1. S \in SUBSET Rows /\ IsFiniteSet(S)
  BY SelectedRows
<1>2. PICK F \in FirstOf(S, a) : P \in FirstOf(S \ F, PageSize)
  BY DEF Pages
<1>3. a \in Nat /\ PageSize \in Nat /\ PageSize > 0
  BY Offset, ConstantTypes
<1>4. \A j \in P : rows[j].at # rows[i].at
  BY DEF Divided
<1>5. Cardinality(Earlier(i, S)) >= a /\ i \in S
  OBVIOUS
<1> HIDE DEF S, a
<1>6. i \notin F /\ F \subseteq Earlier(i, S)
  BY <1>1, <1>2, <1>3, <1>5, FirstAreEarlier
<1>7. F # S /\ IsFiniteSet(F) /\ Cardinality(F) = a
  BY <1>1, <1>2, <1>3, <1>5, <1>6, FirstOfRows
<1>8. IsFiniteSet(S \ F) /\ P # S \ F
  BY <1>1, <1>5, <1>6, FS_Subset
<1>9. /\ P \subseteq S \ F /\ IsFiniteSet(P) /\ Cardinality(P) = PageSize
      /\ \A x \in P, y \in (S \ F) \ P : rows[x].at <= rows[y].at
  BY <1>2, <1>3, <1>8, FirstOfRows
<1>10. P \subseteq Earlier(i, S)
  <2>1. \A x \in S : rows[x].at \in Nat
    BY <1>1, RowValues
  <2>2. \A x \in P : rows[x].at <= rows[i].at /\ x \in S
    BY <1>5, <1>6, <1>9
  <2> QED BY <1>4, <1>5, <2>1, <2>2 DEF Earlier
<1>11. Cardinality(F \cup P) = a + PageSize
  <2>1. F \cap P = {}
    BY <1>9
  <2>2. Cardinality(F \cup P) = Cardinality(F) + Cardinality(P) - Cardinality(F \cap P)
    BY <1>7, <1>9, FS_Union
  <2>3. Cardinality(F \cap P) = 0
    BY <2>1, FS_EmptySet
  <2> QED BY <1>3, <1>7, <1>9, <2>2, <2>3
<1>12. IsFiniteSet(Earlier(i, S))
  BY <1>1, FS_Subset DEF Earlier
<1>13. Cardinality(F \cup P) <= Cardinality(Earlier(i, S))
  <2>1. F \cup P \subseteq Earlier(i, S)
    BY <1>6, <1>10
  <2> QED BY <1>12, <2>1, FS_Subset
<1>14. P # {}
  BY <1>3, <1>9, FS_EmptySet
<1>15. Cardinality(Earlier(i, S)) >= a + PageSize
  BY <1>11, <1>13
<1> QED BY <1>9, <1>14, <1>15 DEF S, a

(* Processing rows keeps the types of what it changes.                     *)
LEMMA ProcessTypes ==
  ASSUME Types, NEW n \in Pollers, NEW S \in SUBSET Rows, Process(n, S)
  PROVE  /\ marks' \in [Pollers -> [Ids -> Nat]]
         /\ due' \in [Pollers -> SUBSET Ids]
         /\ ran' \in [Pollers -> [Ids -> Nat]]
<1>1. Rows \subseteq Ids
  BY RowTypes
<1>2. now + EventTtlShm \in Nat
  BY ConstantTypes DEF Types
<1>3. marks' \in [Pollers -> [Ids -> Nat]]
  <2> DEFINE new == {i \in S : rows[i].node # n /\ ~Marked(n, i)}
             f == [i \in Ids |-> IF i \in new THEN now + EventTtlShm ELSE marks[n][i]]
  <2>1. marks' = [marks EXCEPT ![n] = f] /\ marks \in [Pollers -> [Ids -> Nat]]
    BY DEF Process, Types
  <2>2. \A i \in Ids : marks[n][i] \in Nat
    BY <2>1
  <2> HIDE DEF new
  <2>3. f \in [Ids -> Nat]
    BY <1>2, <2>2
  <2> HIDE DEF f
  <2> QED BY <2>1, <2>3
<1>4. due' \in [Pollers -> SUBSET Ids]
  BY <1>1 DEF Process, Types
<1>5. ran' \in [Pollers -> [Ids -> Nat]]
  <2> DEFINE f == [i \in Ids |-> ran[n][i] +
                     (IF i \in {j \in S : rows[j].node # n /\ ~Marked(n, j)}
                              \ {j \in {k \in S : rows[k].node # n /\ ~Marked(n, k)} :
                                   rows[j].nbf > now}
                      THEN 1 ELSE 0)]
  <2>1. ran' = [ran EXCEPT ![n] = f] /\ ran \in [Pollers -> [Ids -> Nat]]
    BY DEF Process, Types
  <2>2. \A i \in Ids : ran[n][i] \in Nat
    BY <2>1
  <2>3. f \in [Ids -> Nat]
    BY <2>2
  <2> HIDE DEF f
  <2> QED BY <2>1, <2>3
<1> QED BY <1>3, <1>4, <1>5

LEMMA RowsGrow ==
  ASSUME Types, NEW n \in Nodes, Broadcast(n)
  PROVE  /\ \E k \in 0..MaxEvents : Rows' = 1..k
         /\ rows' \in [Rows' -> Row]
         /\ Rows' = Rows \cup {Cardinality(Rows) + 1}
         /\ \A j \in Rows : rows'[j] = rows[j]
         /\ rows'[Cardinality(Rows) + 1].at = now
         /\ rows'[Cardinality(Rows) + 1].committed = -1
         /\ Cardinality(Rows) + 1 \in Ids \ Rows
<1> DEFINE k == Cardinality(Rows)
           i == k + 1
           new == [node |-> n, at |-> now,
                   nbf |-> IF PollDelay > 0 THEN now + PollDelay ELSE -1, committed |-> -1]
<1>1. k \in 0..MaxEvents /\ Rows = 1..k /\ MaxEvents \in Nat
  BY RowTypes, ConstantTypes
<1> HIDE DEF k
<1>2. i \in Ids /\ rows' = [j \in 1..i |-> IF j < i THEN rows[j] ELSE new]
  BY DEF Broadcast, k
<1>3. i \in 0..MaxEvents /\ i \notin 1..k /\ 1..i = (1..k) \cup {i}
      /\ \A j \in 1..k : j < i /\ j \in 1..i
  BY <1>1, <1>2 DEF Ids
<1>4. Rows' = 1..i
  BY <1>2 DEF Rows
<1>5. new \in Row
  BY ConstantTypes DEF Types, Row
<1> HIDE DEF new
<1>6. \A j \in 1..k : rows'[j] = rows[j]
  BY <1>2, <1>3
<1>7. rows'[i] = new
  BY <1>1, <1>2
<1>8. \A j \in 1..k : rows[j] \in Row
  BY <1>1 DEF Types
<1>9. rows' \in [1..i -> Row]
  BY <1>2, <1>3, <1>5, <1>8
<1>10. new.at = now /\ new.committed = -1
  BY DEF new
<1> QED BY <1>1, <1>2, <1>3, <1>4, <1>6, <1>7, <1>9, <1>10 DEF k

LEMMA RowCommits ==
  ASSUME Types, NEW i \in Rows, Commit(i)
  PROVE  /\ Rows' = Rows /\ rows' \in [Rows -> Row]
         /\ \A j \in Rows : /\ rows'[j].node = rows[j].node /\ rows'[j].at = rows[j].at
                            /\ rows'[j].nbf = rows[j].nbf
                            /\ rows[j].committed >= 0 => rows'[j].committed >= 0
                            /\ \/ rows'[j].committed = rows[j].committed
                               \/ rows[j].committed < 0 /\ rows'[j].committed = now
<1>1. rows' = [rows EXCEPT ![i].committed = now] /\ rows \in [Rows -> Row]
      /\ now \in 0..MaxTime /\ rows[i] \in Row
      /\ rows[i].committed < 0
  BY DEF Commit, Types
<1>2. Rows' = Rows
  BY <1>1 DEF Rows
<1>3. rows'[i] = [rows[i] EXCEPT !.committed = now] /\ \A j \in Rows \ {i} : rows'[j] = rows[j]
  BY <1>1 DEF Rows
<1>4. rows'[i] \in Row /\ rows'[i].node = rows[i].node /\ rows'[i].at = rows[i].at
      /\ rows'[i].nbf = rows[i].nbf /\ rows'[i].committed >= 0
      /\ rows'[i].committed = now
  BY <1>1, <1>3, ConstantTypes DEF Row
<1>5. \A j \in Rows : rows'[j] \in Row
  BY <1>1, <1>3, <1>4
<1>6. rows' \in [Rows -> Row]
  BY <1>1, <1>5 DEF Rows
<1> QED BY <1>1, <1>2, <1>3, <1>4, <1>6

LEMMA FetchTypes ==
  ASSUME Types, NEW n \in Pollers, FetchPage(n)
  PROVE  Types'
<1>1. UNCHANGED <<now, rows, lastPoll, failed, reloads>> /\ Rows' = Rows /\ Polling(n)
  BY DEF FetchPage, Rows
<1>p. PICK P \in Pages(n) :
        /\ IF P = {}
           THEN /\ cursor' = [cursor EXCEPT ![n] = NoPoll]
                /\ UNCHANGED <<at, marks, due, ran>>
           ELSE Advance(n) /\ Process(n, P) /\ NextPage(n, P)
        /\ torn' = [torn EXCEPT ![n] = @ \cup Divided(n, P)]
  BY DEF FetchPage
<1>t. torn' \in [Pollers -> SUBSET Ids]
  <2>1. Divided(n, P) \subseteq Ids
    BY RowTypes, SelectedRows DEF Divided
  <2> QED BY <1>p, <2>1 DEF Types
<1>2. CASE P = {}
  <2>1. cursor' = [cursor EXCEPT ![n] = NoPoll] /\ UNCHANGED <<at, marks, due, ran>>
    BY <1>2, <1>p
  <2>2. NoPoll \in Cursor
    BY ConstantTypes DEF NoPoll, Cursor
  <2>3. cursor' \in [Pollers -> Cursor] /\ cursor'[n] = NoPoll
        /\ \A m \in Pollers \ {n} : cursor'[m] = cursor[m]
    BY <2>1, <2>2 DEF Types
  <2>4. \A m \in Pollers : Polling(m)' => cursor'[m].page >= 0
    BY <2>3 DEF Types, Polling
  <2> QED BY <1>1, <1>t, <2>1, <2>3, <2>4 DEF Types
<1>3. CASE P # {}
  <2>1. Advance(n) /\ Process(n, P) /\ NextPage(n, P)
    BY <1>3, <1>p
  <2>3. cursor[n].page + 1 \in 0..MaxEvents /\ cursor[n] \in Cursor
    BY <1>1, <1>3, PageBound DEF Types
  <2>4. P \subseteq Rows
    BY <1>1, PageBound
  <2>5. /\ marks' \in [Pollers -> [Ids -> Nat]]
        /\ due' \in [Pollers -> SUBSET Ids]
        /\ ran' \in [Pollers -> [Ids -> Nat]]
    BY <2>1, <2>4, ProcessTypes
  <2>6. at' \in [Pollers -> 0..MaxTime]
    BY <2>1 DEF Advance, Types
  <2>7. NoPoll \in Cursor /\ [cursor[n] EXCEPT !.page = @ + 1] \in Cursor
        /\ [cursor[n] EXCEPT !.page = @ + 1].page >= 0
    BY <2>3, ConstantTypes DEF NoPoll, Cursor
  <2>c. cursor \in [Pollers -> Cursor]
    BY DEF Types
  <2>8. /\ cursor' \in [Pollers -> Cursor]
        /\ \A m \in Pollers \ {n} : cursor'[m] = cursor[m]
        /\ cursor'[n] = NoPoll \/ cursor'[n].page >= 0
    <3>1. CASE Cardinality(P) < PageSize
      BY <2>1, <2>7, <2>c, <3>1 DEF NextPage
    <3>2. CASE ~(Cardinality(P) < PageSize)
      <4>1. cursor' = [cursor EXCEPT ![n] = [cursor[n] EXCEPT !.page = @ + 1]]
        BY <2>1, <3>2 DEF NextPage
      <4> QED BY <2>7, <2>c, <4>1
    <3> QED BY <3>1, <3>2
  <2>9. \A m \in Pollers : Polling(m)' => cursor'[m].page >= 0
    BY <2>8 DEF Types, Polling
  <2> QED BY <1>1, <1>t, <2>5, <2>6, <2>8, <2>9 DEF Types
<1> QED BY <1>2, <1>3

(* A poll that ends, whatever ended it.                                    *)
LEMMA PollEnds ==
  ASSUME Types, NEW n \in Pollers, cursor' = [cursor EXCEPT ![n] = NoPoll]
  PROVE  /\ cursor' \in [Pollers -> Cursor]
         /\ \A m \in Pollers : Polling(m)' => cursor'[m].page >= 0
         /\ cursor'[n] = NoPoll /\ \A m \in Pollers \ {n} : cursor'[m] = cursor[m]
<1>1. NoPoll \in Cursor
  BY ConstantTypes DEF NoPoll, Cursor
<1>2. cursor' \in [Pollers -> Cursor] /\ cursor'[n] = NoPoll
      /\ \A m \in Pollers \ {n} : cursor'[m] = cursor[m]
  BY <1>1 DEF Types
<1>3. \A m \in Pollers : Polling(m)' => cursor'[m].page >= 0
  BY <1>2 DEF Types, Polling
<1> QED BY <1>2, <1>3

LEMMA StepTypes == Types /\ [Next]_vars => Types'
<1> SUFFICES ASSUME Types, [Next]_vars PROVE Types'
  OBVIOUS
<1>1. CASE Tick
  <2>1. UNCHANGED <<rows, nodeVars, reloads>> /\ Rows' = Rows
    BY <1>1 DEF Tick, Rows
  <2>2. now' \in 0..MaxTime
    BY <1>1, ConstantTypes DEF Tick, Types
  <2> QED BY <2>1, <2>2 DEF nodeVars, Types, Polling
<1>2. CASE TimeUp \/ UNCHANGED vars
  BY <1>2 DEF TimeUp, vars, Types, Rows, Polling
<1>3. ASSUME NEW i \in Rows, Commit(i) PROVE Types'
  <2>1. UNCHANGED <<now, nodeVars, reloads>>
    BY <1>3 DEF Commit
  <2>2. Rows' = Rows /\ rows' \in [Rows -> Row]
    BY <1>3, RowCommits
  <2> QED BY <2>1, <2>2 DEF Types, nodeVars, Polling
<1>4. ASSUME NEW n \in Nodes, Broadcast(n) PROVE Types'
  <2>1. UNCHANGED <<now, nodeVars, reloads>>
    BY <1>4 DEF Broadcast
  <2>2. (\E k \in 0..MaxEvents : Rows' = 1..k) /\ rows' \in [Rows' -> Row]
    BY <1>4, RowsGrow
  <2> QED BY <2>1, <2>2 DEF Types, nodeVars, Polling
<1>5. ASSUME NEW n \in Pollers, StartPoll(n) PROVE Types'
  <2>1. UNCHANGED <<now, rows, at, marks, due, ran, failed, torn, reloads>> /\ Rows' = Rows
        /\ lastPoll' = [lastPoll EXCEPT ![n] = now]
        /\ cursor' = [cursor EXCEPT ![n] = [min |-> Grace(n), page |-> 0]]
    BY <1>5 DEF StartPoll, Rows
  <2>2. [min |-> Grace(n), page |-> 0] \in Cursor
    BY ConstantTypes DEF Cursor, Grace, Types
  <2>3. /\ cursor' \in [Pollers -> Cursor]
        /\ \A m \in Pollers \ {n} : cursor'[m] = cursor[m]
        /\ cursor'[n].page = 0
    BY <2>1, <2>2 DEF Types
  <2>4. \A m \in Pollers : Polling(m)' => cursor'[m].page >= 0
    <3>1. \A m \in Pollers : cursor[m] # NoPoll => cursor[m].page >= 0
      BY DEF Types, Polling
    <3>2. \A m \in Pollers : cursor'[m] # NoPoll => cursor'[m].page >= 0
      BY <2>3, <3>1
    <3> QED BY <3>2 DEF Polling
  <2>5. lastPoll' \in [Pollers -> 0..MaxTime]
    BY <2>1 DEF Types
  <2> QED BY <2>1, <2>3, <2>4, <2>5 DEF Types
<1>6. ASSUME NEW n \in Pollers, FetchPage(n) PROVE Types'
  BY <1>6, FetchTypes
<1>7. ASSUME NEW n \in Pollers, FetchPageFails(n) PROVE Types'
  <2>1. UNCHANGED <<now, rows, lastPoll, torn, reloads>> /\ Rows' = Rows /\ Polling(n)
        /\ cursor' = [cursor EXCEPT ![n] = NoPoll] /\ failed' = failed \cup {n}
    BY <1>7 DEF FetchPageFails, Rows
  <2>p. PICK P \in Pages(n) : \E k \in 0..(Cardinality(P) - 1) : \E F \in FirstOf(P, k) :
          Advance(n) /\ Process(n, F)
    BY <1>7 DEF FetchPageFails
  <2>k. PICK k \in 0..(Cardinality(P) - 1) : \E F \in FirstOf(P, k) :
          Advance(n) /\ Process(n, F)
    BY <2>p
  <2>2. PICK F \in FirstOf(P, k) : Advance(n) /\ Process(n, F)
    BY <2>k
  <2>3. F \subseteq Rows
    <3>1. F \subseteq P
      BY DEF FirstOf
    <3> QED BY <2>1, <3>1, PageBound
  <2>4. /\ marks' \in [Pollers -> [Ids -> Nat]]
        /\ due' \in [Pollers -> SUBSET Ids]
        /\ ran' \in [Pollers -> [Ids -> Nat]]
    BY <2>2, <2>3, ProcessTypes
  <2>5. at' \in [Pollers -> 0..MaxTime]
    BY <2>2 DEF Advance, Types
  <2>6. /\ cursor' \in [Pollers -> Cursor]
        /\ \A m \in Pollers : Polling(m)' => cursor'[m].page >= 0
    BY <2>1, PollEnds
  <2> QED BY <2>1, <2>4, <2>5, <2>6 DEF Types
<1>8. ASSUME NEW n \in Pollers, QueryFails(n) PROVE Types'
  <2>1. UNCHANGED <<now, rows, at, marks, lastPoll, due, ran, torn, reloads>> /\ Rows' = Rows
        /\ cursor' = [cursor EXCEPT ![n] = NoPoll] /\ failed' = failed \cup {n}
    BY <1>8 DEF QueryFails, Rows
  <2>2. /\ cursor' \in [Pollers -> Cursor]
        /\ \A m \in Pollers : Polling(m)' => cursor'[m].page >= 0
    BY <2>1, PollEnds
  <2> QED BY <2>1, <2>2 DEF Types
<1>9. ASSUME NEW n \in Pollers, NEW i \in due[n], NbfFires(n, i) PROVE Types'
  <2>1. UNCHANGED <<now, rows, at, marks, cursor, lastPoll, failed, torn, reloads>>
        /\ Rows' = Rows
    BY <1>9 DEF NbfFires, Rows
  <2>2. due' \in [Pollers -> SUBSET Ids]
    BY <1>9 DEF NbfFires, Types
  <2>3. i \in Ids
    BY DEF Types
  <2>4. ran' \in [Pollers -> [Ids -> Nat]]
    <3>1. ran' = [ran EXCEPT ![n][i] = @ + 1] /\ ran \in [Pollers -> [Ids -> Nat]]
      BY <1>9 DEF NbfFires, Types
    <3> QED BY <2>3, <3>1
  <2> QED BY <2>1, <2>2, <2>4 DEF Types, Polling
<1>10. ASSUME NEW n \in Pollers, Reload(n) PROVE Types'
  <2>1. UNCHANGED <<now, rows, marks, ran, torn>> /\ Rows' = Rows
        /\ cursor' = [cursor EXCEPT ![n] = NoPoll] /\ failed' = failed \cup {n}
        /\ at' = [at EXCEPT ![n] = now] /\ due' = [due EXCEPT ![n] = {}]
        /\ reloads' = reloads + 1
        /\ \E t \in {lastPoll[n], now} : lastPoll' = [lastPoll EXCEPT ![n] = t]
    BY <1>10 DEF Reload, Rows
  <2>2. /\ cursor' \in [Pollers -> Cursor]
        /\ \A m \in Pollers : Polling(m)' => cursor'[m].page >= 0
    BY <2>1, PollEnds
  <2>3. at' \in [Pollers -> 0..MaxTime] /\ due' \in [Pollers -> SUBSET Ids]
        /\ lastPoll' \in [Pollers -> 0..MaxTime] /\ reloads' \in Nat
        /\ failed' \subseteq Pollers
    BY <2>1 DEF Types
  <2> QED BY <2>1, <2>2, <2>3 DEF Types
<1> QED BY <1>1, <1>2, <1>3, <1>4, <1>5, <1>6, <1>7, <1>8, <1>9, <1>10 DEF Next

LEMMA InitTypes == Init => Types
<1> SUFFICES ASSUME Init PROVE Types
  OBVIOUS
<1>1. rows = << >> /\ Rows = {}
  BY DEF Init, Rows
<1>2. 0 \in 0..MaxEvents /\ Rows = 1..0
  BY <1>1, ConstantTypes
<1>3. rows \in [Rows -> Row]
  BY <1>1 DEF Rows
<1>4. cursor \in [Pollers -> Cursor] /\ \A n \in Pollers : cursor[n] = NoPoll
  BY ConstantTypes DEF Init, NoPoll, Cursor
<1>5. \A n \in Pollers : Polling(n) => cursor[n].page >= 0
  BY <1>4 DEF Polling
<1>6. /\ now = 0 /\ now \in 0..MaxTime /\ reloads \in Nat /\ failed \subseteq Pollers
      /\ at \in [Pollers -> 0..MaxTime] /\ lastPoll \in [Pollers -> 0..MaxTime]
  BY ConstantTypes DEF Init
<1>7. /\ marks \in [Pollers -> [Ids -> Nat]] /\ ran \in [Pollers -> [Ids -> Nat]]
      /\ due \in [Pollers -> SUBSET Ids] /\ torn \in [Pollers -> SUBSET Ids]
  BY DEF Init
<1> QED BY <1>2, <1>3, <1>4, <1>5, <1>6, <1>7 DEF Types

LEMMA TypesInvariant == Spec => []Types
BY InitTypes, StepTypes, PTL DEF Spec

(* Table, intervals, marks and timers keep their types; above all a poll   *)
(* never asks for a page behind the last row of the table.                 *)
THEOREM TypeCorrect == Spec => []TypeOK
<1>1. ASSUME Types PROVE TypeOK
  <2>1. Rows \in {1..k : k \in 0..MaxEvents} /\ \A i \in Rows : rows[i] \in Row
    BY <1>1 DEF Types
  <2>2. \A n \in Pollers : cursor[n].min \in Int /\ cursor[n].page \in -1..MaxEvents
    BY <1>1 DEF Types, Cursor
  <2> QED BY <1>1, <2>1, <2>2 DEF TypeOK, Types, Row
<1> QED BY <1>1, TypesInvariant, PTL

-----------------------------------------------------------------------------
(* What waits for its nbf *)

(* Timers wait for foreign rows, and only rows of the table are handled.   *)
DueInv ==
  \A n \in Pollers : /\ due[n] \subseteq Rows
                     /\ \A i \in due[n] : rows[i].node # n
                     /\ \A i \in Ids \ Rows : ran[n][i] = 0

(* What processing the rows of S does to row i, whichever node looks.      *)
LEMMA ProcessEffect ==
  ASSUME Types, NEW n \in Pollers, NEW S \in SUBSET Rows, Process(n, S),
         NEW m \in Pollers, NEW i \in Ids
  PROVE  \/ /\ ran'[m][i] = ran[m][i] /\ (i \in due'[m] <=> i \in due[m])
            /\ marks'[m][i] = marks[m][i]
         \/ /\ m = n /\ i \in S /\ rows[i].node # n /\ ~Marked(n, i)
            /\ marks'[m][i] = now + EventTtlShm
            /\ \/ rows[i].nbf > now /\ ran'[m][i] = ran[m][i] /\ i \in due'[m]
               \/ /\ ~(rows[i].nbf > now) /\ ran'[m][i] = ran[m][i] + 1
                  /\ (i \in due'[m] <=> i \in due[m])
<1> DEFINE new   == {j \in S : rows[j].node # n /\ ~Marked(n, j)}
           later == {j \in new : rows[j].nbf > now}
<1>1. /\ marks' = [marks EXCEPT ![n] = [j \in Ids |-> IF j \in new THEN now + EventTtlShm
                                                      ELSE marks[n][j]]]
      /\ due' = [due EXCEPT ![n] = due[n] \cup later]
      /\ ran' = [ran EXCEPT ![n] = [j \in Ids |-> ran[n][j]
                                       + (IF j \in new \ later THEN 1 ELSE 0)]]
  BY DEF Process
<1>2. /\ marks \in [Pollers -> [Ids -> Nat]] /\ due \in [Pollers -> SUBSET Ids]
      /\ ran \in [Pollers -> [Ids -> Nat]]
  BY DEF Types
<1>3. ASSUME m # n
      PROVE  marks'[m] = marks[m] /\ due'[m] = due[m] /\ ran'[m] = ran[m]
  BY <1>1, <1>2, <1>3
<1>4. /\ marks'[n][i] = IF i \in new THEN now + EventTtlShm ELSE marks[n][i]
      /\ due'[n] = due[n] \cup later
      /\ ran'[n][i] = ran[n][i] + (IF i \in new \ later THEN 1 ELSE 0)
  BY <1>1, <1>2
<1>5. ran[n][i] \in Nat
  BY <1>2
<1>6. CASE m # n
  BY <1>3, <1>6
<1>7. CASE m = n /\ i \notin new
  BY <1>4, <1>5, <1>7
<1>8. CASE m = n /\ i \in new
  BY <1>4, <1>5, <1>8
<1> QED BY <1>6, <1>7, <1>8

(* A page is fetched, to its end or not.                                   *)
LEMMA FetchProcesses ==
  ASSUME Types, NEW n \in Pollers, FetchPage(n) \/ FetchPageFails(n)
  PROVE  /\ UNCHANGED <<now, rows, lastPoll>> /\ Rows' = Rows
         /\ \/ UNCHANGED <<marks, due, ran>>
            \/ \E S \in SUBSET Rows : Process(n, S)
<1>1. UNCHANGED <<now, rows, lastPoll>> /\ Rows' = Rows /\ Polling(n)
  BY DEF FetchPage, FetchPageFails, Rows
<1>2. \A P \in Pages(n) : P \in SUBSET Rows
  BY <1>1, PageBound
<1>3. CASE FetchPage(n)
  BY <1>1, <1>2, <1>3 DEF FetchPage
<1>4. CASE FetchPageFails(n)
  <2>p. PICK P \in Pages(n) : \E k \in 0..(Cardinality(P) - 1) : \E F \in FirstOf(P, k) :
          Process(n, F)
    BY <1>4 DEF FetchPageFails
  <2>k. PICK k \in 0..(Cardinality(P) - 1) : \E F \in FirstOf(P, k) : Process(n, F)
    BY <2>p
  <2>1. PICK F \in FirstOf(P, k) : Process(n, F)
    BY <2>k
  <2>2. F \in SUBSET Rows
    BY <1>2 DEF FirstOf
  <2> QED BY <1>1, <2>1, <2>2
<1> QED BY <1>3, <1>4

LEMMA StepDue ==
  ASSUME Types, Types', DueInv, [Next]_vars
  PROVE  DueInv'
<1>a. /\ Rows \subseteq Ids /\ ran \in [Pollers -> [Ids -> Nat]]
      /\ due \in [Pollers -> SUBSET Ids]
  BY RowTypes DEF Types
<1>1. CASE Rows' = Rows /\ UNCHANGED <<due, ran>>
           /\ \A i \in Rows : rows'[i].node = rows[i].node
  BY <1>1 DEF DueInv
<1>2. ASSUME NEW n \in Nodes, Broadcast(n)
      PROVE  DueInv'
  <2>1. /\ Rows' = Rows \cup {Cardinality(Rows) + 1}
        /\ \A j \in Rows : rows'[j] = rows[j]
    BY <1>2, RowsGrow
  <2>2. UNCHANGED <<due, ran>>
    BY <1>2 DEF Broadcast, nodeVars
  <2>3. \A m \in Pollers : /\ due[m] \subseteq Rows'
                           /\ \A i \in due[m] : rows'[i].node # m
                           /\ \A i \in Ids \ Rows' : ran[m][i] = 0
    BY <2>1 DEF DueInv
  <2> QED BY <2>2, <2>3 DEF DueInv
<1>3. ASSUME NEW n \in Pollers, FetchPage(n) \/ FetchPageFails(n)
      PROVE  DueInv'
  <2>1. UNCHANGED <<now, rows, lastPoll>> /\ Rows' = Rows
    BY <1>3, FetchProcesses
  <2>2. CASE UNCHANGED <<marks, due, ran>>
    BY <2>1, <2>2 DEF DueInv
  <2>3. ASSUME NEW S \in SUBSET Rows, Process(n, S)
        PROVE  DueInv'
    <3>1. ASSUME NEW m \in Pollers, NEW i \in Ids
          PROVE  \/ ran'[m][i] = ran[m][i] /\ (i \in due'[m] <=> i \in due[m])
                 \/ m = n /\ i \in S /\ rows[i].node # n
      BY <2>3, ProcessEffect
    <3>2. ASSUME NEW m \in Pollers
          PROVE  /\ due'[m] \subseteq Rows
                 /\ \A i \in due'[m] : rows[i].node # m
                 /\ \A i \in Ids \ Rows : ran'[m][i] = 0
      <4>1. \A i \in due'[m] : i \in Ids
        BY DEF Types
      <4>2. \A i \in due'[m] : i \in Rows /\ rows[i].node # m
        BY <3>1, <4>1 DEF DueInv
      <4>3. \A i \in Ids \ Rows : ran'[m][i] = 0
        BY <3>1 DEF DueInv
      <4> QED BY <4>2, <4>3
    <3> QED BY <2>1, <3>2 DEF DueInv
  <2> QED BY <1>3, <2>2, <2>3, FetchProcesses
<1>4. ASSUME NEW n \in Pollers, NEW i \in due[n], NbfFires(n, i)
      PROVE  DueInv'
  <2>1. UNCHANGED rows /\ Rows' = Rows /\ i \in Rows /\ i \in Ids
    BY <1>4, <1>a DEF NbfFires, Rows, DueInv
  <2>2. due' = [due EXCEPT ![n] = @ \ {i}] /\ ran' = [ran EXCEPT ![n][i] = @ + 1]
    BY <1>4 DEF NbfFires
  <2>3. \A m \in Pollers : due'[m] \subseteq due[m]
    BY <1>a, <2>2
  <2>4. \A m \in Pollers, j \in Ids : ran'[m][j] = ran[m][j] \/ (m = n /\ j = i)
    BY <1>a, <2>1, <2>2
  <2>5. \A m \in Pollers, j \in Ids \ Rows : ran'[m][j] = 0
    BY <2>1, <2>4 DEF DueInv
  <2> QED BY <2>1, <2>3, <2>5 DEF DueInv
<1>5. ASSUME NEW n \in Pollers, Reload(n) PROVE DueInv'
  <2>1. UNCHANGED <<rows, ran>> /\ Rows' = Rows /\ due' = [due EXCEPT ![n] = {}]
    BY <1>5 DEF Reload, Rows
  <2>2. \A m \in Pollers : due'[m] \subseteq due[m]
    BY <1>a, <2>1
  <2> QED BY <2>1, <2>2 DEF DueInv
<1>6. ASSUME NEW i \in Rows, Commit(i)
      PROVE  Rows' = Rows /\ UNCHANGED <<due, ran>>
             /\ \A j \in Rows : rows'[j].node = rows[j].node
  BY <1>6, RowCommits DEF Commit, nodeVars
<1>7. CASE Tick \/ TimeUp \/ UNCHANGED vars
           \/ \E n \in Pollers : StartPoll(n) \/ QueryFails(n)
  <2>1. UNCHANGED <<rows, due, ran>> /\ Rows' = Rows
    BY <1>7 DEF Tick, TimeUp, vars, nodeVars, StartPoll, QueryFails, Rows
  <2> QED BY <2>1, <1>1
<1> QED BY <1>1, <1>2, <1>3, <1>4, <1>5, <1>6, <1>7 DEF Next

LEMMA DueInvariant == Spec => []DueInv
<1>1. Init => DueInv
  BY DEF Init, DueInv
<1>2. Types /\ Types' /\ DueInv /\ [Next]_vars => DueInv'
  BY StepDue
<1> QED BY <1>1, <1>2, TypesInvariant, PTL DEF Spec

-----------------------------------------------------------------------------
(* At most once *)

(* Rows are not from the future; polls begin and end in time.              *)
TimeInv ==
  /\ \A i \in Rows : rows[i].at <= now
  /\ \A n \in Pollers :
       /\ lastPoll[n] <= now
       /\ Polling(n) => now <= lastPoll[n] + Slack
       /\ ~Polling(n) => now <= lastPoll[n] + PollInterval + Slack

(* What a node has handled is marked for longer than the poll in progress  *)
(* can take, or the next one, if that poll can select it again.            *)
OnceAt(n) ==
  n \notin failed =>
    /\ Polling(n) => IF cursor[n].page = 0 THEN cursor[n].min = Grace(n)
                     ELSE at[n] >= lastPoll[n]
    /\ \A i \in Rows : Handled(n, i) =>
         /\ rows[i].committed >= 0
         /\ marks[n][i] >= rows[i].at + EventTtlShm
         /\ Polling(n) /\ rows[i].at > cursor[n].min => marks[n][i] > lastPoll[n] + Slack
         /\ ~Polling(n) /\ rows[i].at > Grace(n)
              => marks[n][i] > lastPoll[n] + PollInterval + 2 * Slack
    /\ \A i \in Rows : ran[n][i] = 0 \/ (ran[n][i] = 1 /\ i \notin due[n])

OnceInv == \A n \in Pollers : OnceAt(n)

Frame(m) ==
  /\ at'[m] = at[m] /\ marks'[m] = marks[m] /\ cursor'[m] = cursor[m]
  /\ lastPoll'[m] = lastPoll[m] /\ due'[m] = due[m] /\ ran'[m] = ran[m]
  /\ torn'[m] = torn[m] /\ failed \subseteq failed'

RowsKept ==
  /\ Rows \subseteq Rows' /\ Rows' \subseteq Ids
  /\ \A i \in Rows : /\ rows'[i].at = rows[i].at
                     /\ rows[i].committed >= 0 => rows'[i].committed >= 0

(* What is read of the state by what follows.                              *)
LEMMA ValueTypes ==
  ASSUME Types
  PROVE  /\ now \in Nat
         /\ \A i \in Rows : rows[i].at \in Nat /\ rows[i].committed \in Int /\ i \in Ids
         /\ \A n \in Pollers :
              /\ at[n] \in Nat /\ lastPoll[n] \in Nat /\ due[n] \subseteq Ids
              /\ cursor[n].min \in Int /\ cursor[n].page \in Int
              /\ Grace(n) \in Int /\ Grace(n) = at[n] - PollOffset - 1
              /\ \A i \in Ids : marks[n][i] \in Nat /\ ran[n][i] \in Nat
<1>1. now \in Nat
  BY ConstantTypes DEF Types
<1>2. ASSUME NEW i \in Rows PROVE rows[i].at \in Nat /\ rows[i].committed \in Int /\ i \in Ids
  <2>1. rows[i] \in Row
    BY DEF Types
  <2>2. i \in Ids
    BY RowTypes
  <2> QED BY <2>1, <2>2, ConstantTypes DEF Row
<1>3. ASSUME NEW n \in Pollers
      PROVE  /\ at[n] \in Nat /\ lastPoll[n] \in Nat /\ due[n] \subseteq Ids
             /\ cursor[n].min \in Int /\ cursor[n].page \in Int
             /\ Grace(n) \in Int /\ Grace(n) = at[n] - PollOffset - 1
             /\ \A i \in Ids : marks[n][i] \in Nat /\ ran[n][i] \in Nat
  <2>1. at[n] \in 0..MaxTime /\ lastPoll[n] \in 0..MaxTime /\ due[n] \subseteq Ids
    BY DEF Types
  <2>2. cursor[n] \in Cursor
    BY DEF Types
  <2>3. \A i \in Ids : marks[n][i] \in Nat /\ ran[n][i] \in Nat
    BY DEF Types
  <2>4. cursor[n].min \in Int /\ cursor[n].page \in Int
    BY <2>2, ConstantTypes DEF Cursor
  <2>5. at[n] \in Nat /\ lastPoll[n] \in Nat
    BY <2>1, ConstantTypes
  <2> QED BY <2>1, <2>3, <2>4, <2>5, ConstantTypes DEF Grace
<1> QED BY <1>1, <1>2, <1>3

(* Every step leaves a node alone, begins or continues its poll, fires a   *)
(* timer of it, or counts as a failure of it.                              *)
LEMMA StepOf ==
  ASSUME Types, Types', [Next]_vars
  PROVE  /\ RowsKept
         /\ \A m \in Pollers : \/ Frame(m) \/ m \in failed' \/ StartPoll(m) \/ FetchPage(m)
                               \/ \E i \in due[m] : NbfFires(m, i)
<1>1. Rows' \subseteq Ids
  <2>1. PICK k \in 0..MaxEvents : Rows' = 1..k
    BY DEF Types
  <2> QED BY <2>1, ConstantTypes DEF Ids
<1>2. CASE UNCHANGED rows /\ Rows' = Rows
           /\ \A m \in Pollers : \/ Frame(m) \/ m \in failed' \/ StartPoll(m) \/ FetchPage(m)
                                 \/ \E i \in due[m] : NbfFires(m, i)
  BY <1>1, <1>2 DEF RowsKept
<1>3. CASE Tick \/ TimeUp \/ UNCHANGED vars
  <2>1. UNCHANGED <<rows, nodeVars>> /\ Rows' = Rows
    BY <1>3 DEF Tick, TimeUp, vars, nodeVars, Rows
  <2>2. \A m \in Pollers : Frame(m)
    BY <2>1 DEF nodeVars, Frame
  <2> QED BY <2>1, <2>2, <1>2
<1>4. ASSUME NEW i \in Rows, Commit(i) PROVE RowsKept /\ \A m \in Pollers : Frame(m)
  <2>1. UNCHANGED nodeVars
    BY <1>4 DEF Commit
  <2>2. Rows' = Rows /\ \A j \in Rows : /\ rows'[j].at = rows[j].at
                                        /\ rows[j].committed >= 0 => rows'[j].committed >= 0
    BY <1>4, RowCommits
  <2> QED BY <1>1, <2>1, <2>2 DEF RowsKept, Frame, nodeVars
<1>5. ASSUME NEW n \in Nodes, Broadcast(n) PROVE RowsKept /\ \A m \in Pollers : Frame(m)
  <2>1. UNCHANGED nodeVars
    BY <1>5 DEF Broadcast
  <2>2. Rows \subseteq Rows' /\ \A j \in Rows : rows'[j] = rows[j]
    BY <1>5, RowsGrow
  <2> QED BY <1>1, <2>1, <2>2 DEF RowsKept, Frame, nodeVars
<1>t. /\ at \in [Pollers -> 0..MaxTime] /\ marks \in [Pollers -> [Ids -> Nat]]
      /\ cursor \in [Pollers -> Cursor] /\ lastPoll \in [Pollers -> 0..MaxTime]
      /\ due \in [Pollers -> SUBSET Ids] /\ ran \in [Pollers -> [Ids -> Nat]]
      /\ torn \in [Pollers -> SUBSET Ids]
  BY DEF Types
<1>6. ASSUME NEW n \in Pollers,
             \/ StartPoll(n) \/ FetchPage(n) \/ FetchPageFails(n) \/ QueryFails(n)
             \/ (\E i \in due[n] : NbfFires(n, i)) \/ Reload(n),
             NEW m \in Pollers, m # n
      PROVE  Frame(m)
  <2>1. CASE StartPoll(n)
    BY <1>t, <1>6, <2>1 DEF StartPoll, Frame
  <2>2. CASE QueryFails(n)
    BY <1>t, <1>6, <2>2 DEF QueryFails, Frame
  <2>3. CASE \E i \in due[n] : NbfFires(n, i)
    BY <1>t, <1>6, <2>3 DEF NbfFires, Frame
  <2>4. CASE Reload(n)
    BY <1>t, <1>6, <2>4 DEF Reload, Frame
  <2>5. CASE FetchPage(n)
    <3>1. PICK P \in Pages(n) :
            /\ IF P = {}
               THEN /\ cursor' = [cursor EXCEPT ![n] = NoPoll]
                    /\ UNCHANGED <<at, marks, due, ran>>
               ELSE Advance(n) /\ Process(n, P) /\ NextPage(n, P)
            /\ torn' = [torn EXCEPT ![n] = @ \cup Divided(n, P)]
      BY <2>5 DEF FetchPage
    <3>2. UNCHANGED <<lastPoll, failed>> /\ torn'[m] = torn[m]
      BY <1>t, <1>6, <2>5, <3>1 DEF FetchPage
    <3>3. CASE P = {}
      BY <1>t, <1>6, <3>1, <3>2, <3>3 DEF Frame
    <3>4. CASE P # {}
      BY <1>t, <1>6, <3>1, <3>2, <3>4 DEF Advance, Process, NextPage, Frame
    <3> QED BY <3>3, <3>4
  <2>6. CASE FetchPageFails(n)
    BY <1>t, <1>6, <2>6 DEF FetchPageFails, Advance, Process, Frame
  <2> QED BY <1>6, <2>1, <2>2, <2>3, <2>4, <2>5, <2>6
<1>7. ASSUME NEW n \in Pollers,
             \/ StartPoll(n) \/ FetchPage(n) \/ FetchPageFails(n) \/ QueryFails(n)
             \/ (\E i \in due[n] : NbfFires(n, i)) \/ Reload(n)
      PROVE  /\ UNCHANGED rows /\ Rows' = Rows
             /\ \A m \in Pollers : \/ Frame(m) \/ m \in failed' \/ StartPoll(m) \/ FetchPage(m)
                                   \/ \E i \in due[m] : NbfFires(m, i)
  <2>1. UNCHANGED rows /\ Rows' = Rows
    BY <1>7 DEF StartPoll, FetchPage, FetchPageFails, QueryFails, NbfFires, Reload, Rows
  <2>2. \/ n \in failed' \/ StartPoll(n) \/ FetchPage(n)
        \/ \E i \in due[n] : NbfFires(n, i)
    BY <1>7 DEF FetchPageFails, QueryFails, Reload
  <2> QED BY <1>6, <1>7, <2>1, <2>2
<1> QED BY <1>2, <1>3, <1>4, <1>5, <1>7 DEF Next

LEMMA StepTime == Types /\ Types' /\ TimeInv /\ [Next]_vars => TimeInv'
<1> SUFFICES ASSUME Types, Types', TimeInv, [Next]_vars PROVE TimeInv'
  OBVIOUS
<1>v. /\ now \in Nat /\ PollInterval \in Nat /\ Slack \in Nat
      /\ \A i \in Rows : rows[i].at \in Nat
      /\ \A n \in Pollers : lastPoll[n] \in Nat
  BY ValueTypes, ConstantTypes
<1>1. CASE Tick
  <2>1. now' = now + 1 /\ UNCHANGED <<rows, lastPoll, cursor>> /\ Rows' = Rows
    BY <1>1 DEF Tick, nodeVars, Rows
  <2>2. \A n \in Pollers : /\ Polling(n) => now < lastPoll[n] + Slack
                           /\ ~Polling(n) => now < lastPoll[n] + PollInterval + Slack
    BY <1>1 DEF Tick
  <2> QED BY <1>v, <2>1, <2>2 DEF TimeInv, Polling
<1>2. CASE UNCHANGED <<now, lastPoll, cursor>> /\ RowsKept
           /\ \A i \in Rows' : i \in Rows \/ rows'[i].at = now
  BY <1>v, <1>2 DEF TimeInv, Polling, RowsKept
<1>3. CASE TimeUp \/ UNCHANGED vars
  <2>1. UNCHANGED <<now, rows, lastPoll, cursor>> /\ Rows' = Rows
    BY <1>3 DEF TimeUp, vars, nodeVars, Rows
  <2> QED BY <2>1, <1>2, StepOf
<1>4. ASSUME NEW i \in Rows, Commit(i) PROVE TimeInv'
  <2>1. UNCHANGED <<now, lastPoll, cursor>>
    BY <1>4 DEF Commit, nodeVars
  <2>2. Rows' = Rows
    BY <1>4, RowCommits
  <2> QED BY <2>1, <2>2, <1>2, StepOf
<1>5. ASSUME NEW n \in Nodes, Broadcast(n) PROVE TimeInv'
  <2>1. UNCHANGED <<now, lastPoll, cursor>>
    BY <1>5 DEF Broadcast, nodeVars
  <2>2. Rows' = Rows \cup {Cardinality(Rows) + 1} /\ rows'[Cardinality(Rows) + 1].at = now
    BY <1>5, RowsGrow
  <2> QED BY <2>1, <2>2, <1>2, StepOf
<1>6. ASSUME NEW n \in Pollers, UNCHANGED <<now, rows>>, Rows' = Rows,
             \A m \in Pollers \ {n} : lastPoll'[m] = lastPoll[m] /\ cursor'[m] = cursor[m],
             lastPoll'[n] = now \/ (lastPoll'[n] = lastPoll[n]
                                    /\ (Polling(n)' => Polling(n)))
      PROVE  TimeInv'
  <2>1. \A m \in Pollers : lastPoll'[m] \in Nat
    <3>1. lastPoll' \in [Pollers -> 0..MaxTime]
      BY DEF Types
    <3> QED BY <3>1, ConstantTypes
  <2>2. /\ lastPoll'[n] <= now
        /\ Polling(n)' => now <= lastPoll'[n] + Slack
        /\ ~Polling(n)' => now <= lastPoll'[n] + PollInterval + Slack
    BY <1>v, <1>6, <2>1 DEF TimeInv
  <2>3. ASSUME NEW m \in Pollers, m # n
        PROVE  /\ lastPoll'[m] <= now
               /\ Polling(m)' => now <= lastPoll'[m] + Slack
               /\ ~Polling(m)' => now <= lastPoll'[m] + PollInterval + Slack
    BY <1>6, <2>3 DEF TimeInv, Polling
  <2> QED BY <1>6, <2>2, <2>3 DEF TimeInv
<1>t. cursor \in [Pollers -> Cursor] /\ lastPoll \in [Pollers -> 0..MaxTime]
  BY DEF Types
<1>7. ASSUME NEW n \in Pollers, StartPoll(n) \/ Reload(n) PROVE TimeInv'
  <2>1. UNCHANGED <<now, rows>> /\ Rows' = Rows
    BY <1>7 DEF StartPoll, Reload, Rows
  <2>2. \A m \in Pollers \ {n} : lastPoll'[m] = lastPoll[m] /\ cursor'[m] = cursor[m]
    BY <1>t, <1>7 DEF StartPoll, Reload
  <2>3. CASE StartPoll(n)
    <3>1. lastPoll'[n] = now
      BY <1>t, <2>3 DEF StartPoll
    <3> QED BY <1>6, <2>1, <2>2, <3>1
  <2>4. CASE Reload(n)
    <3>1. lastPoll'[n] \in {lastPoll[n], now} /\ cursor'[n] = NoPoll
      BY <1>t, <2>4 DEF Reload
    <3>2. ~Polling(n)'
      BY <3>1 DEF Polling
    <3> QED BY <1>6, <2>1, <2>2, <3>1, <3>2
  <2> QED BY <1>7, <2>3, <2>4
<1>8. ASSUME NEW n \in Pollers, FetchPage(n) \/ FetchPageFails(n) \/ QueryFails(n)
      PROVE  TimeInv'
  <2>1. UNCHANGED <<now, rows, lastPoll>> /\ Rows' = Rows /\ Polling(n)
    BY <1>8 DEF FetchPage, FetchPageFails, QueryFails, Rows
  <2>2. \A m \in Pollers \ {n} : cursor'[m] = cursor[m]
    <3>1. CASE cursor' = [cursor EXCEPT ![n] = NoPoll]
      BY <1>t, <3>1
    <3>2. ASSUME NEW P, NextPage(n, P) PROVE \A m \in Pollers \ {n} : cursor'[m] = cursor[m]
      BY <1>t, <3>2 DEF NextPage
    <3>3. cursor' = [cursor EXCEPT ![n] = NoPoll] \/ \E P \in Pages(n) : NextPage(n, P)
      BY <1>8 DEF FetchPage, FetchPageFails, QueryFails
    <3> QED BY <3>1, <3>2, <3>3
  <2> QED BY <1>6, <2>1, <2>2
<1>9. ASSUME NEW n \in Pollers, NEW i \in due[n], NbfFires(n, i) PROVE TimeInv'
  <2>1. UNCHANGED <<now, rows, lastPoll, cursor>> /\ Rows' = Rows
    BY <1>9 DEF NbfFires, Rows
  <2> QED BY <2>1, <1>2, StepOf
<1> QED BY <1>1, <1>3, <1>4, <1>5, <1>7, <1>8, <1>9 DEF Next

LEMMA TimeInvariant == Spec => []TimeInv
<1>1. Init => TimeInv
  <2> SUFFICES ASSUME Init PROVE TimeInv
    OBVIOUS
  <2>1. Rows = {} /\ now = 0 /\ \A n \in Pollers : lastPoll[n] = 0 /\ ~Polling(n)
    BY DEF Init, Rows, Polling
  <2> QED BY <2>1, ConstantTypes DEF TimeInv
<1> QED BY <1>1, StepTime, TypesInvariant, PTL DEF Spec

LEMMA FrameOnce ==
  ASSUME Types, Types', DueInv, NEW m \in Pollers, OnceAt(m), Frame(m), RowsKept
  PROVE  OnceAt(m)'
<1> SUFFICES ASSUME m \notin failed' PROVE
      /\ Polling(m)' => IF cursor'[m].page = 0 THEN cursor'[m].min = Grace(m)'
                        ELSE at'[m] >= lastPoll'[m]
      /\ \A i \in Rows' : Handled(m, i)' =>
           /\ rows'[i].committed >= 0
           /\ marks'[m][i] >= rows'[i].at + EventTtlShm
           /\ Polling(m)' /\ rows'[i].at > cursor'[m].min
                => marks'[m][i] > lastPoll'[m] + Slack
           /\ ~Polling(m)' /\ rows'[i].at > Grace(m)'
                => marks'[m][i] > lastPoll'[m] + PollInterval + 2 * Slack
      /\ \A i \in Rows' : ran'[m][i] = 0 \/ (ran'[m][i] = 1 /\ i \notin due'[m])
  BY DEF OnceAt
<1>1. m \notin failed
  BY DEF Frame
<1>2. /\ Polling(m)' <=> Polling(m)
      /\ Grace(m)' = Grace(m)
      /\ \A i \in Ids : Handled(m, i)' <=> Handled(m, i)
      /\ at'[m] = at[m] /\ marks'[m] = marks[m] /\ cursor'[m] = cursor[m]
      /\ lastPoll'[m] = lastPoll[m] /\ due'[m] = due[m] /\ ran'[m] = ran[m]
  BY DEF Frame, Polling, Grace, Handled
<1>3. \A i \in Rows' \ Rows : ran[m][i] = 0 /\ i \notin due[m] /\ i \in Ids
  BY DEF DueInv, RowsKept
<1>4. \A i \in Rows' \ Rows : ~Handled(m, i)
  BY <1>3 DEF Handled
<1>5. \A i \in Rows : i \in Rows' /\ i \in Ids /\ rows'[i].at = rows[i].at
                      /\ (rows[i].committed >= 0 => rows'[i].committed >= 0)
  BY DEF RowsKept
<1>6. /\ Polling(m) => IF cursor[m].page = 0 THEN cursor[m].min = Grace(m)
                       ELSE at[m] >= lastPoll[m]
      /\ \A i \in Rows : Handled(m, i) =>
           /\ rows[i].committed >= 0
           /\ marks[m][i] >= rows[i].at + EventTtlShm
           /\ Polling(m) /\ rows[i].at > cursor[m].min => marks[m][i] > lastPoll[m] + Slack
           /\ ~Polling(m) /\ rows[i].at > Grace(m)
                => marks[m][i] > lastPoll[m] + PollInterval + 2 * Slack
      /\ \A i \in Rows : ran[m][i] = 0 \/ (ran[m][i] = 1 /\ i \notin due[m])
  BY <1>1 DEF OnceAt
<1>7. ASSUME NEW i \in Rows', Handled(m, i)'
      PROVE  /\ rows'[i].committed >= 0
             /\ marks'[m][i] >= rows'[i].at + EventTtlShm
             /\ Polling(m)' /\ rows'[i].at > cursor'[m].min
                  => marks'[m][i] > lastPoll'[m] + Slack
             /\ ~Polling(m)' /\ rows'[i].at > Grace(m)'
                  => marks'[m][i] > lastPoll'[m] + PollInterval + 2 * Slack
  <2>1. i \in Ids
    BY DEF RowsKept
  <2>2. Handled(m, i) /\ i \in Rows
    BY <1>2, <1>4, <1>7, <2>1
  <2> QED BY <1>2, <1>5, <1>6, <2>2
<1>8. ASSUME NEW i \in Rows'
      PROVE  ran'[m][i] = 0 \/ (ran'[m][i] = 1 /\ i \notin due'[m])
  BY <1>2, <1>3, <1>6
<1>9. Polling(m)' => IF cursor'[m].page = 0 THEN cursor'[m].min = Grace(m)'
                     ELSE at'[m] >= lastPoll'[m]
  BY <1>2, <1>6
<1> QED BY <1>7, <1>8, <1>9

(* The next poll ends before the marks of what it can select do.           *)
LEMMA StartOnce ==
  ASSUME Types, TimeInv, NEW n \in Pollers, OnceAt(n), StartPoll(n)
  PROVE  OnceAt(n)'
<1>1. /\ ~Polling(n) /\ UNCHANGED <<now, rows, at, marks, due, ran, failed>> /\ Rows' = Rows
      /\ lastPoll'[n] = now /\ cursor'[n] = [min |-> Grace(n), page |-> 0]
  BY DEF StartPoll, Types, Rows
<1>2. cursor'[n].min = Grace(n) /\ cursor'[n].page = 0 /\ Polling(n)'
  BY <1>1 DEF Polling, NoPoll
<1>3. now <= lastPoll[n] + PollInterval + Slack
  BY <1>1 DEF TimeInv
<1>4. Grace(n)' = Grace(n) /\ \A i \in Rows : Handled(n, i)' <=> Handled(n, i)
  BY <1>1 DEF Grace, Handled
<1>5. ASSUME n \notin failed, NEW i \in Rows, Handled(n, i), rows[i].at > Grace(n)
      PROVE  marks[n][i] > now + Slack
  <2>1. marks[n][i] > lastPoll[n] + PollInterval + 2 * Slack
    BY <1>1, <1>5 DEF OnceAt
  <2>2. marks[n][i] \in Nat /\ lastPoll[n] \in Nat /\ now \in Nat
    BY ValueTypes
  <2> QED BY <1>3, <2>1, <2>2, ConstantTypes
<1>6. n \notin failed =>
        \A i \in Rows : Handled(n, i) =>
          rows[i].committed >= 0 /\ marks[n][i] >= rows[i].at + EventTtlShm
  BY DEF OnceAt
<1>7. n \notin failed => \A i \in Rows : ran[n][i] = 0 \/ (ran[n][i] = 1 /\ i \notin due[n])
  BY DEF OnceAt
<1> QED BY <1>1, <1>2, <1>4, <1>5, <1>6, <1>7 DEF OnceAt

LEMMA NbfOnce ==
  ASSUME Types, DueInv, NEW n \in Pollers, OnceAt(n), NEW k \in due[n], NbfFires(n, k)
  PROVE  OnceAt(n)'
<1>1. /\ UNCHANGED <<now, rows, at, marks, cursor, lastPoll, failed>> /\ Rows' = Rows
      /\ due' = [due EXCEPT ![n] = @ \ {k}] /\ ran' = [ran EXCEPT ![n][k] = @ + 1]
      /\ k \in Rows
  BY DEF NbfFires, Rows, DueInv
<1>2. /\ due'[n] = due[n] \ {k} /\ ran'[n][k] = ran[n][k] + 1
      /\ \A i \in Rows : i # k => ran'[n][i] = ran[n][i]
      /\ \A i \in Rows : ran[n][i] \in Nat /\ i \in Ids
  <2>1. k \in Ids /\ Rows \subseteq Ids
    BY <1>1, ValueTypes
  <2>2. due \in [Pollers -> SUBSET Ids] /\ ran \in [Pollers -> [Ids -> Nat]]
    BY DEF Types
  <2> QED BY <1>1, <2>1, <2>2
<1>3. \A i \in Rows : Handled(n, i)' <=> Handled(n, i)
  BY <1>1, <1>2 DEF Handled
<1>4. n \notin failed => \A i \in Rows : ran'[n][i] = 0 \/ (ran'[n][i] = 1 /\ i \notin due'[n])
  BY <1>1, <1>2 DEF OnceAt
<1>5. (Polling(n)' <=> Polling(n)) /\ Grace(n)' = Grace(n)
  BY <1>1 DEF Polling, Grace
<1> QED BY <1>1, <1>3, <1>4, <1>5 DEF OnceAt

(* The heart of the matter: a row that a poll selects again is marked      *)
(* still, and what it marks stays marked until no poll can select it.      *)
LEMMA FetchOnce ==
  ASSUME 2 * Slack < PollInterval, Types, TimeInv, NEW n \in Pollers, OnceAt(n), FetchPage(n)
  PROVE  OnceAt(n)'
<1> SUFFICES ASSUME n \notin failed' PROVE
      /\ Polling(n)' => IF cursor'[n].page = 0 THEN cursor'[n].min = Grace(n)'
                        ELSE at'[n] >= lastPoll'[n]
      /\ \A i \in Rows' : Handled(n, i)' =>
           /\ rows'[i].committed >= 0
           /\ marks'[n][i] >= rows'[i].at + EventTtlShm
           /\ Polling(n)' /\ rows'[i].at > cursor'[n].min
                => marks'[n][i] > lastPoll'[n] + Slack
           /\ ~Polling(n)' /\ rows'[i].at > Grace(n)'
                => marks'[n][i] > lastPoll'[n] + PollInterval + 2 * Slack
      /\ \A i \in Rows' : ran'[n][i] = 0 \/ (ran'[n][i] = 1 /\ i \notin due'[n])
  BY DEF OnceAt
<1>1. UNCHANGED <<now, rows, lastPoll, failed>> /\ Rows' = Rows /\ Polling(n)
      /\ n \notin failed
  BY DEF FetchPage, Rows
<1>2. /\ IF cursor[n].page = 0 THEN cursor[n].min = Grace(n) ELSE at[n] >= lastPoll[n]
      /\ \A i \in Rows : Handled(n, i) =>
           /\ rows[i].committed >= 0
           /\ marks[n][i] >= rows[i].at + EventTtlShm
           /\ rows[i].at > cursor[n].min => marks[n][i] > lastPoll[n] + Slack
      /\ \A i \in Rows : ran[n][i] = 0 \/ (ran[n][i] = 1 /\ i \notin due[n])
  BY <1>1 DEF OnceAt
<1>3. /\ now <= lastPoll[n] + Slack /\ lastPoll[n] <= now
      /\ \A i \in Rows : rows[i].at <= now
  BY <1>1 DEF TimeInv
<1>v. /\ now \in Nat /\ lastPoll[n] \in Nat /\ at[n] \in Nat
      /\ cursor[n].min \in Int /\ cursor[n].page \in Int
      /\ Slack \in Nat /\ PollInterval \in Nat /\ PollInterval > 0 /\ PollOffset \in Nat
      /\ EventTtlShm = 2 * PollInterval + PollOffset /\ EventTtlShm \in Nat
      /\ \A i \in Rows : rows[i].at \in Nat /\ i \in Ids /\ marks[n][i] \in Nat
                         /\ ran[n][i] \in Nat
  BY ValueTypes, ConstantTypes
<1>p. PICK P \in Pages(n) :
        IF P = {}
        THEN /\ cursor' = [cursor EXCEPT ![n] = NoPoll]
             /\ UNCHANGED <<at, marks, due, ran>>
        ELSE Advance(n) /\ Process(n, P) /\ NextPage(n, P)
  BY DEF FetchPage
<1>4. CASE P = {}
  <2>1. cursor'[n] = NoPoll /\ ~Polling(n)' /\ UNCHANGED <<at, marks, due, ran>>
    <3>1. cursor' = [cursor EXCEPT ![n] = NoPoll] /\ UNCHANGED <<at, marks, due, ran>>
      BY <1>4, <1>p
    <3>2. cursor'[n] = NoPoll
      BY <3>1, PollEnds
    <3> QED BY <3>1, <3>2 DEF Polling
  <2>2. Grace(n)' = Grace(n) /\ Grace(n) = at[n] - PollOffset - 1
        /\ \A i \in Rows : Handled(n, i)' <=> Handled(n, i)
    BY <1>v, <2>1 DEF Grace, Handled
  <2>3. ASSUME NEW i \in Rows, Handled(n, i), rows[i].at > Grace(n)
        PROVE  marks[n][i] > lastPoll[n] + PollInterval + 2 * Slack
    <3>1. CASE cursor[n].page = 0
      <4>1. rows[i].committed >= 0 /\ rows[i].at > cursor[n].min /\ rows[i].at <= now
        BY <1>2, <1>3, <2>3, <3>1
      <4>2. i \in Selected(cursor[n].min)
        BY <4>1 DEF Selected
      <4> QED BY <1>1, <1>4, <3>1, <4>2, PageBound
    <3>2. CASE cursor[n].page # 0
      <4>1. at[n] >= lastPoll[n] /\ marks[n][i] >= rows[i].at + EventTtlShm
        BY <1>2, <2>3, <3>2
      <4> QED BY <1>v, <2>2, <2>3, <4>1
    <3> QED BY <3>1, <3>2
  <2> QED BY <1>1, <1>2, <2>1, <2>2, <2>3
<1>5. CASE P # {}
  <2>1. Advance(n) /\ Process(n, P) /\ NextPage(n, P)
    BY <1>5, <1>p
  <2>2. /\ P \subseteq Rows
        /\ \A i \in P : rows[i].committed >= 0 /\ rows[i].at > cursor[n].min
    <3>1. \A i \in P : i \in Selected(cursor[n].min)
      BY <1>1, PageBound
    <3> QED BY <3>1 DEF Selected
  <2>3. ASSUME NEW i \in Rows
        PROVE  \/ /\ ran'[n][i] = ran[n][i] /\ (i \in due'[n] <=> i \in due[n])
                  /\ marks'[n][i] = marks[n][i]
               \/ /\ i \in P /\ ~Marked(n, i)
                  /\ marks'[n][i] = now + EventTtlShm
                  /\ \/ ran'[n][i] = ran[n][i] /\ i \in due'[n]
                     \/ ran'[n][i] = ran[n][i] + 1 /\ (i \in due'[n] <=> i \in due[n])
    <3>1. i \in Ids
      BY <1>v
    <3> QED BY <2>1, <2>2, <3>1, ProcessEffect
  <2>4. ASSUME NEW i \in P, ~Marked(n, i) PROVE ~Handled(n, i)
    <3> SUFFICES ASSUME Handled(n, i) PROVE FALSE
      OBVIOUS
    <3>1. marks[n][i] > lastPoll[n] + Slack
      BY <1>2, <2>2
    <3>2. marks[n][i] <= now
      BY <1>v, <2>2, <2>4 DEF Marked
    <3> QED BY <1>3, <1>v, <2>2, <3>1, <3>2
  <2>5. at'[n] \in Nat /\ at'[n] >= lastPoll[n]
    <3>1. at \in [Pollers -> 0..MaxTime]
      BY DEF Types
    <3>2. IF cursor[n].page = 0 THEN at'[n] = now ELSE at'[n] = at[n]
      BY <2>1, <3>1 DEF Advance
    <3> QED BY <1>2, <1>3, <1>v, <3>2
  <2>6. Grace(n)' = at'[n] - PollOffset - 1
    BY DEF Grace
  <2>7. \/ cursor'[n] = NoPoll /\ ~Polling(n)'
        \/ /\ cursor'[n].min = cursor[n].min /\ cursor'[n].page = cursor[n].page + 1
    <3>1. CASE Cardinality(P) < PageSize
      <4>1. cursor' = [cursor EXCEPT ![n] = NoPoll]
        BY <2>1, <3>1 DEF NextPage
      <4>2. cursor'[n] = NoPoll
        BY <4>1, PollEnds
      <4> QED BY <4>2 DEF Polling
    <3>2. CASE ~(Cardinality(P) < PageSize)
      <4>1. cursor' = [cursor EXCEPT ![n].page = @ + 1]
        BY <2>1, <3>2 DEF NextPage
      <4>2. cursor \in [Pollers -> Cursor]
        BY DEF Types
      <4> QED BY <4>1, <4>2 DEF Cursor
    <3> QED BY <3>1, <3>2
  <2>8. ASSUME NEW i \in Rows, Handled(n, i)'
        PROVE  /\ rows[i].committed >= 0
               /\ marks'[n][i] >= rows[i].at + EventTtlShm
               /\ rows[i].at > cursor[n].min => marks'[n][i] > lastPoll[n] + Slack
               /\ marks'[n][i] \in Nat
    <3>1. CASE ran'[n][i] = ran[n][i] /\ (i \in due'[n] <=> i \in due[n])
               /\ marks'[n][i] = marks[n][i]
      <4>1. Handled(n, i)
        BY <2>8, <3>1 DEF Handled
      <4> QED BY <1>2, <1>v, <3>1, <4>1
    <3>2. CASE i \in P /\ marks'[n][i] = now + EventTtlShm
      BY <1>3, <1>v, <2>2, <3>2
    <3> QED BY <2>3, <3>1, <3>2
  <2>9. ASSUME NEW i \in Rows, Handled(n, i)', rows[i].at > Grace(n)'
        PROVE  marks'[n][i] > lastPoll[n] + PollInterval + 2 * Slack
    <3>1. marks'[n][i] >= rows[i].at + EventTtlShm /\ marks'[n][i] \in Nat
      BY <2>8, <2>9
    <3>2. rows[i].at >= at'[n] - PollOffset
      BY <1>v, <2>5, <2>6, <2>9
    <3> QED BY <1>v, <2>5, <3>1, <3>2
  <2>10. ASSUME NEW i \in Rows
         PROVE  ran'[n][i] = 0 \/ (ran'[n][i] = 1 /\ i \notin due'[n])
    <3>1. CASE ran'[n][i] = ran[n][i] /\ (i \in due'[n] <=> i \in due[n])
      BY <1>2, <3>1
    <3>2. CASE i \in P /\ ~Marked(n, i)
      <4>1. ran[n][i] = 0 /\ i \notin due[n]
        BY <1>v, <2>4, <3>2 DEF Handled
      <4> QED BY <2>3, <4>1
    <3> QED BY <2>3, <3>1, <3>2
  <2>11. Polling(n)' => IF cursor'[n].page = 0 THEN cursor'[n].min = Grace(n)'
                        ELSE at'[n] >= lastPoll'[n]
    <3>1. cursor[n].page >= 0
      BY <1>1 DEF Types
    <3> QED BY <1>1, <1>v, <2>5, <2>7, <3>1
  <2>12. ASSUME NEW i \in Rows, Handled(n, i)', Polling(n)', rows[i].at > cursor'[n].min
         PROVE  marks'[n][i] > lastPoll[n] + Slack
    BY <2>7, <2>8, <2>12
  <2> QED BY <1>1, <2>8, <2>9, <2>10, <2>11, <2>12
<1> QED BY <1>4, <1>5

LEMMA OnceInvariant == 2 * Slack < PollInterval => (Spec => []OnceInv)
<1> SUFFICES ASSUME 2 * Slack < PollInterval PROVE Spec => []OnceInv
  OBVIOUS
<1>1. ASSUME Init PROVE OnceInv
  <2>1. Rows = {} /\ \A n \in Pollers : ~Polling(n)
    BY <1>1 DEF Init, Rows, Polling
  <2> QED BY <2>1 DEF OnceInv, OnceAt
<1>2. ASSUME Types, Types', TimeInv, DueInv, OnceInv, [Next]_vars PROVE OnceInv'
  <2> SUFFICES ASSUME NEW n \in Pollers PROVE OnceAt(n)'
    BY DEF OnceInv
  <2>1. OnceAt(n)
    BY <1>2 DEF OnceInv
  <2>2. RowsKept /\ \/ Frame(n) \/ n \in failed' \/ StartPoll(n) \/ FetchPage(n)
                    \/ \E i \in due[n] : NbfFires(n, i)
    BY <1>2, StepOf
  <2>3. CASE Frame(n)
    BY <1>2, <2>1, <2>2, <2>3, FrameOnce
  <2>4. CASE n \in failed'
    BY <2>4 DEF OnceAt
  <2>5. CASE StartPoll(n)
    BY <1>2, <2>1, <2>5, StartOnce
  <2>6. CASE FetchPage(n)
    BY <1>2, <2>1, <2>6, FetchOnce
  <2>7. CASE \E i \in due[n] : NbfFires(n, i)
    BY <1>2, <2>1, <2>7, NbfOnce
  <2> QED BY <2>2, <2>3, <2>4, <2>5, <2>6, <2>7
<1> QED BY <1>1, <1>2, TypesInvariant, TimeInvariant, DueInvariant, PTL DEF Spec

(* A node whose polls succeed runs the callbacks of a row at most once,    *)
(* for any grace period, page size and commit latency, if its polls begin  *)
(* and end late by less than half the interval between two of them: the    *)
(* mark of a row outlives every poll that can select the row again.        *)
THEOREM RunsOnce == 2 * Slack < PollInterval => (Spec => []RunsAtMostOnce)
<1> SUFFICES ASSUME 2 * Slack < PollInterval PROVE Spec => []RunsAtMostOnce
  OBVIOUS
<1>1. ASSUME Types, OnceInv PROVE RunsAtMostOnce
  <2> SUFFICES ASSUME NEW n \in Pollers \ failed, NEW i \in Rows
               PROVE  ran[n][i] + (IF i \in due[n] THEN 1 ELSE 0) <= 1
    BY DEF RunsAtMostOnce
  <2>1. ran[n][i] = 0 \/ (ran[n][i] = 1 /\ i \notin due[n])
    BY <1>1 DEF OnceInv, OnceAt
  <2> QED BY <2>1
<1>2. Spec => []OnceInv
  BY OnceInvariant
<1> QED BY <1>1, <1>2, TypesInvariant, PTL

-----------------------------------------------------------------------------
(* Pages cover the interval *)

(* Rows that become visible only move others to later pages.               *)
LEMMA EarlierGrows ==
  ASSUME Types, Types', RowsKept, NEW S \in SUBSET Rows, NEW R \in SUBSET Rows', S \subseteq R,
         NEW i \in S
  PROVE  Cardinality(Earlier(i, S)) <= Cardinality({j \in R : rows'[j].at < rows'[i].at})
<1> DEFINE B == {j \in R : rows'[j].at < rows'[i].at}
<1>1. \A j \in S : rows'[j].at = rows[j].at
  BY DEF RowsKept
<1>2. i \in R /\ Earlier(i, S) \subseteq B
  BY <1>1 DEF Earlier
<1>3. IsFiniteSet(Rows')
  <2>1. PICK k \in 0..MaxEvents : Rows' = 1..k
    BY DEF Types
  <2>2. 1 \in Int /\ k \in Int
    BY ConstantTypes
  <2> QED BY <2>1, <2>2, FS_Interval
<1>4. IsFiniteSet(B)
  <2>1. B \subseteq Rows'
    OBVIOUS
  <2> QED BY <1>3, <2>1, FS_Subset
<1> QED BY <1>2, <1>4, FS_Subset

(* How the table changes: a row is added, or one commits.                  *)
RowsMove ==
  /\ now' >= now
  /\ \A i \in Rows :
       /\ rows'[i].node = rows[i].node
       /\ \/ rows'[i].committed = rows[i].committed
          \/ rows[i].committed < 0 /\ rows'[i].committed = now /\ now' = now
  /\ \A i \in Rows' \ Rows :
       rows'[i].committed = -1 /\ rows'[i].at = now /\ now' = now

(* Rows commit in time, and nobody polls ahead of the clock.               *)
CommitInv ==
  /\ \A i \in Rows :
       /\ rows[i].committed < 0 => now <= rows[i].at + MaxCommitDelay
       /\ rows[i].committed <= now
       /\ rows[i].committed <= rows[i].at + MaxCommitDelay
  /\ \A n \in Pollers : at[n] <= now

LEMMA StepRows ==
  ASSUME Types, Types', [Next]_vars
  PROVE  RowsMove
<1>v. now \in Nat
  BY ValueTypes
<1>1. CASE UNCHANGED rows /\ Rows' = Rows /\ now' >= now
  BY <1>1 DEF RowsMove
<1>2. CASE Tick
  BY <1>1, <1>2, <1>v DEF Tick, nodeVars, Rows
<1>3. ASSUME NEW i \in Rows, Commit(i) PROVE RowsMove
  <2>1. now' = now
    BY <1>3 DEF Commit
  <2>2. Rows' = Rows /\ \A j \in Rows :
          /\ rows'[j].node = rows[j].node
          /\ \/ rows'[j].committed = rows[j].committed
             \/ rows[j].committed < 0 /\ rows'[j].committed = now
    BY <1>3, RowCommits
  <2> QED BY <1>v, <2>1, <2>2 DEF RowsMove
<1>4. ASSUME NEW n \in Nodes, Broadcast(n) PROVE RowsMove
  <2>1. now' = now
    BY <1>4 DEF Broadcast
  <2>2. /\ Rows' = Rows \cup {Cardinality(Rows) + 1}
        /\ \A j \in Rows : rows'[j] = rows[j]
        /\ rows'[Cardinality(Rows) + 1].at = now
        /\ rows'[Cardinality(Rows) + 1].committed = -1
    BY <1>4, RowsGrow
  <2> QED BY <1>v, <2>1, <2>2 DEF RowsMove
<1>5. CASE \/ TimeUp \/ UNCHANGED vars
           \/ \E n \in Pollers :
                \/ StartPoll(n) \/ FetchPage(n) \/ FetchPageFails(n) \/ QueryFails(n)
                \/ (\E i \in due[n] : NbfFires(n, i)) \/ Reload(n)
  <2>1. UNCHANGED <<now, rows>> /\ Rows' = Rows
    BY <1>5 DEF TimeUp, vars, StartPoll, FetchPage, FetchPageFails, QueryFails, NbfFires,
                Reload, Rows
  <2> QED BY <1>1, <1>v, <2>1
<1> QED BY <1>2, <1>3, <1>4, <1>5 DEF Next

LEMMA StepCommit == Types /\ Types' /\ CommitInv /\ [Next]_vars => CommitInv'
<1> SUFFICES ASSUME Types, Types', CommitInv, [Next]_vars PROVE CommitInv'
  OBVIOUS
<1>v. /\ now \in Nat /\ MaxCommitDelay \in Nat /\ now' \in Nat
      /\ \A i \in Rows : rows[i].at \in Nat /\ rows[i].committed \in Int
      /\ \A n \in Pollers : at[n] \in Nat /\ at'[n] \in Nat
  <2>1. now' \in Nat /\ \A n \in Pollers : at'[n] \in Nat
    BY ConstantTypes DEF Types
  <2> QED BY <2>1, ValueTypes
<1>1. RowsMove /\ RowsKept
  BY StepRows, StepOf
<1>2. ASSUME NEW i \in Rows, rows[i].committed < 0, rows'[i].committed < 0
      PROVE  now' <= rows[i].at + MaxCommitDelay
  <2>1. CASE Tick
    BY <1>v, <1>2, <2>1 DEF Tick
  <2>2. CASE now' = now
    BY <1>2, <2>2 DEF CommitInv
  <2>3. Tick \/ now' = now
    BY DEF Next, TimeUp, vars, Commit, Broadcast, StartPoll, FetchPage, FetchPageFails,
           QueryFails, NbfFires, Reload
  <2> QED BY <2>1, <2>2, <2>3
<1>3. ASSUME NEW i \in Rows'
      PROVE  /\ rows'[i].committed < 0 => now' <= rows'[i].at + MaxCommitDelay
             /\ rows'[i].committed <= now'
             /\ rows'[i].committed <= rows'[i].at + MaxCommitDelay
  <2>1. CASE i \in Rows
    <3>1. rows'[i].at = rows[i].at
      BY <1>1, <2>1 DEF RowsKept
    <3>2. CASE rows'[i].committed = rows[i].committed
      BY <1>1, <1>2, <1>v, <2>1, <3>1, <3>2 DEF CommitInv, RowsMove
    <3>3. CASE rows[i].committed < 0 /\ rows'[i].committed = now /\ now' = now
      BY <1>v, <2>1, <3>1, <3>3 DEF CommitInv
    <3> QED BY <1>1, <2>1, <3>2, <3>3 DEF RowsMove
  <2>2. CASE i \notin Rows
    BY <1>1, <1>v, <2>2 DEF RowsMove
  <2> QED BY <2>1, <2>2
<1>4. ASSUME NEW n \in Pollers PROVE at'[n] <= now'
  <2>1. at'[n] = at[n] \/ at'[n] = now
    <3>0. at \in [Pollers -> 0..MaxTime]
      BY DEF Types
    <3>1. CASE UNCHANGED at
      BY <3>1
    <3>2. ASSUME NEW m \in Pollers, Reload(m) PROVE at'[n] = at[n] \/ at'[n] = now
      BY <3>0, <3>2 DEF Reload
    <3>3. ASSUME NEW m \in Pollers, Advance(m) PROVE at'[n] = at[n] \/ at'[n] = now
      BY <3>0, <3>3 DEF Advance
    <3>4. \/ UNCHANGED at \/ (\E m \in Pollers : Reload(m)) \/ (\E m \in Pollers : Advance(m))
      BY DEF Next, TimeUp, vars, nodeVars, Tick, Commit, Broadcast, StartPoll, FetchPage,
             FetchPageFails, QueryFails, NbfFires
    <3> QED BY <3>1, <3>2, <3>3, <3>4
  <2>2. now' >= now
    BY <1>1 DEF RowsMove
  <2> QED BY <1>v, <2>1, <2>2 DEF CommitInv
<1> QED BY <1>3, <1>4 DEF CommitInv

LEMMA CommitInvariant == Spec => []CommitInv
<1>1. Init => CommitInv
  <2> SUFFICES ASSUME Init PROVE CommitInv
    OBVIOUS
  <2>1. Rows = {} /\ now = 0 /\ \A n \in Pollers : at[n] = 0
    BY DEF Init, Rows
  <2> QED BY <2>1 DEF CommitInv
<1> QED BY <1>1, StepCommit, TypesInvariant, PTL DEF Spec

(* A visible row that the node has yet to handle: no poll began since it   *)
(* became visible, and the next one will select it; or the poll in         *)
(* progress selects it, on a page that is still to come.                   *)
ToCome(n, i) ==
  \/ lastPoll[n] <= rows[i].committed /\ rows[i].at > Grace(n)
  \/ /\ Polling(n) /\ rows[i].at > cursor[n].min
     /\ lastPoll[n] <= rows[i].committed + PollInterval + Slack
     /\ Cardinality(Earlier(i, Selected(cursor[n].min))) >= cursor[n].page * PageSize

CoverAt(n) ==
  n \notin failed =>
    /\ Polling(n) /\ cursor[n].page = 0 => cursor[n].min = Grace(n)
    /\ \A i \in Ids : marks[n][i] > 0 => Handled(n, i)
    /\ \A i \in Rows \ torn[n] : rows[i].node # n /\ rows[i].committed >= 0 /\ ~Handled(n, i)
                                 => ToCome(n, i)

CoverInv == \A n \in Pollers : CoverAt(n)

LEMMA FrameCovers ==
  ASSUME MaxCommitDelay <= PollOffset, Types, Types', TimeInv, CommitInv, CommitInv',
         RowsKept, RowsMove, NEW m \in Pollers, CoverAt(m), Frame(m)
  PROVE  CoverAt(m)'
<1> SUFFICES ASSUME m \notin failed' PROVE
      /\ Polling(m)' /\ cursor'[m].page = 0 => cursor'[m].min = Grace(m)'
      /\ \A i \in Ids : marks'[m][i] > 0 => Handled(m, i)'
      /\ \A i \in Rows' \ torn'[m] :
           rows'[i].node # m /\ rows'[i].committed >= 0 /\ ~Handled(m, i)' => ToCome(m, i)'
  BY DEF CoverAt
<1>1. m \notin failed
  BY DEF Frame
<1>2. /\ Polling(m)' <=> Polling(m)
      /\ Grace(m)' = Grace(m)
      /\ \A i \in Ids : Handled(m, i)' <=> Handled(m, i)
      /\ at'[m] = at[m] /\ marks'[m] = marks[m] /\ cursor'[m] = cursor[m]
      /\ lastPoll'[m] = lastPoll[m] /\ torn'[m] = torn[m]
  BY DEF Frame, Polling, Grace, Handled
<1>3. /\ Polling(m) /\ cursor[m].page = 0 => cursor[m].min = Grace(m)
      /\ \A i \in Ids : marks[m][i] > 0 => Handled(m, i)
      /\ \A i \in Rows \ torn[m] :
           rows[i].node # m /\ rows[i].committed >= 0 /\ ~Handled(m, i) => ToCome(m, i)
  BY <1>1 DEF CoverAt
<1>v. /\ now \in Nat /\ at[m] \in Nat /\ lastPoll[m] \in Nat /\ MaxCommitDelay \in Nat
      /\ PollOffset \in Nat /\ cursor[m].page \in Int /\ PageSize \in Nat
      /\ Grace(m) = at[m] - PollOffset - 1
      /\ \A i \in Rows : rows[i].at \in Nat /\ rows[i].committed \in Int /\ i \in Ids
  BY ValueTypes, ConstantTypes
<1>4. ASSUME NEW i \in Rows' \ torn'[m], rows'[i].node # m, rows'[i].committed >= 0,
             ~Handled(m, i)'
      PROVE  ToCome(m, i)'
  <2>1. /\ i \in Rows \ torn[m] /\ i \in Ids /\ rows'[i].at = rows[i].at
        /\ rows[i].node # m
    BY <1>2, <1>4, <1>v DEF RowsMove, RowsKept
  <2>2. ~Handled(m, i)
    BY <1>2, <1>4, <2>1
  <2>3. CASE rows[i].committed < 0 /\ rows'[i].committed = now
    <3>1. lastPoll[m] <= now /\ now <= rows[i].at + MaxCommitDelay /\ at[m] <= now
      BY <2>1, <2>3 DEF TimeInv, CommitInv
    <3>2. rows[i].at > Grace(m)
      BY <1>v, <2>1, <3>1
    <3> QED BY <1>2, <2>1, <2>3, <3>1, <3>2 DEF ToCome
  <2>4. CASE rows'[i].committed = rows[i].committed
    <3>1. ToCome(m, i)
      BY <1>3, <1>4, <2>1, <2>2, <2>4
    <3>2. CASE lastPoll[m] <= rows[i].committed /\ rows[i].at > Grace(m)
      BY <1>2, <2>1, <2>4, <3>2 DEF ToCome
    <3>3. CASE /\ Polling(m) /\ rows[i].at > cursor[m].min
               /\ lastPoll[m] <= rows[i].committed + PollInterval + Slack
               /\ Cardinality(Earlier(i, Selected(cursor[m].min))) >= cursor[m].page * PageSize
      <4> DEFINE S == Selected(cursor[m].min)
                 R == {j \in Rows' : /\ rows'[j].committed >= 0 /\ rows'[j].at > cursor[m].min
                                     /\ rows'[j].at <= now'}
                 B == {j \in R : rows'[j].at < rows'[i].at}
      <4>1. i \in S /\ S \in SUBSET Rows
        <5>1. rows[i].at <= now /\ rows[i].committed >= 0
          BY <1>4, <2>1, <2>4 DEF TimeInv
        <5> QED BY <2>1, <3>3, <5>1 DEF Selected
      <4>2. S \subseteq R
        <5>1. now' \in Nat /\ now' >= now
          BY ConstantTypes DEF Types, RowsMove
        <5> SUFFICES ASSUME NEW j \in S PROVE j \in R
          OBVIOUS
        <5>2. j \in Rows /\ rows[j].committed >= 0 /\ rows[j].at > cursor[m].min
              /\ rows[j].at <= now
          BY DEF Selected
        <5>3. j \in Rows' /\ rows'[j].committed >= 0 /\ rows'[j].at = rows[j].at
          BY <5>2 DEF RowsKept
        <5> QED BY <1>v, <5>1, <5>2, <5>3
      <4>3. R \in SUBSET Rows'
        OBVIOUS
      <4>4. Cardinality(Earlier(i, S)) <= Cardinality(B)
        <5> HIDE DEF S, R
        <5> QED BY <4>1, <4>2, <4>3, EarlierGrows
      <4>5. Earlier(i, Selected(cursor[m].min))' = B
        BY <1>2 DEF Earlier, Selected, Rows
      <4>6. IsFiniteSet(B)
        <5>1. PICK k \in 0..MaxEvents : Rows' = 1..k
          BY DEF Types
        <5>2. 1 \in Int /\ k \in Int
          BY ConstantTypes
        <5>3. IsFiniteSet(Rows') /\ B \subseteq Rows'
          BY <5>1, <5>2, FS_Interval
        <5> QED BY <5>3, FS_Subset
      <4>7. Cardinality(B) \in Nat /\ Cardinality(Earlier(i, S)) \in Nat
        <5>1. Cardinality(B) \in Nat
          BY <4>6, FS_CardinalityType
        <5>2. IsFiniteSet(Earlier(i, S))
          <6>1. IsFiniteSet(S)
            BY SelectedRows
          <6> QED BY <6>1, FS_Subset DEF Earlier
        <5> QED BY <5>1, <5>2, FS_CardinalityType
      <4>8. cursor[m].page * PageSize \in Int
        BY <1>v
      <4>9. Cardinality(B) >= cursor[m].page * PageSize
        <5> HIDE DEF B, S
        <5>1. Cardinality(Earlier(i, S)) >= cursor[m].page * PageSize
          BY <3>3 DEF S
        <5> QED BY <4>4, <4>7, <4>8, <5>1
      <4>10. Cardinality(Earlier(i, Selected(cursor[m].min)))' >= cursor'[m].page * PageSize
        BY <1>2, <4>5, <4>9
      <4> QED BY <1>2, <2>1, <2>4, <3>3, <4>10 DEF ToCome
    <3> QED BY <3>1, <3>2, <3>3 DEF ToCome
  <2> QED BY <2>1, <2>3, <2>4 DEF RowsMove
<1> QED BY <1>2, <1>3, <1>4

LEMMA StartCovers ==
  ASSUME Types, Types', TimeInv, NEW n \in Pollers, CoverAt(n), StartPoll(n)
  PROVE  CoverAt(n)'
<1>1. /\ ~Polling(n) /\ UNCHANGED <<now, rows, at, marks, due, ran, failed, torn>>
      /\ Rows' = Rows
      /\ lastPoll'[n] = now /\ cursor'[n] = [min |-> Grace(n), page |-> 0]
  BY DEF StartPoll, Types, Rows
<1>2. cursor'[n].min = Grace(n) /\ cursor'[n].page = 0 /\ Polling(n)'
  BY <1>1 DEF Polling, NoPoll
<1>3. now <= lastPoll[n] + PollInterval + Slack
  BY <1>1 DEF TimeInv
<1>4. Grace(n)' = Grace(n) /\ \A i \in Ids : Handled(n, i)' <=> Handled(n, i)
  BY <1>1 DEF Grace, Handled
<1>v. /\ now \in Nat /\ lastPoll[n] \in Nat /\ PollInterval \in Nat /\ Slack \in Nat
      /\ \A i \in Rows : rows[i].committed \in Int /\ i \in Ids
      /\ 0 * PageSize = 0
  BY ValueTypes, ConstantTypes
<1>5. ASSUME n \notin failed, NEW i \in Rows \ torn[n], rows[i].node # n,
             rows[i].committed >= 0, ~Handled(n, i)
      PROVE  ToCome(n, i)'
  <2>1. lastPoll[n] <= rows[i].committed /\ rows[i].at > Grace(n)
    BY <1>1, <1>5 DEF CoverAt, ToCome
  <2>2. now <= rows[i].committed + PollInterval + Slack
    BY <1>3, <1>v, <2>1
  <2>4. Cardinality(Earlier(i, Selected(cursor'[n].min))) \in Nat
    <3>1. IsFiniteSet(Selected(cursor'[n].min))
      BY SelectedRows
    <3>2. IsFiniteSet(Earlier(i, Selected(cursor'[n].min)))
      BY <3>1, FS_Subset DEF Earlier
    <3> QED BY <3>2, FS_CardinalityType
  <2>5. Earlier(i, Selected(cursor[n].min))' = Earlier(i, Selected(cursor'[n].min))
    BY <1>1 DEF Earlier, Selected
  <2>6. Cardinality(Earlier(i, Selected(cursor[n].min)))' >= cursor'[n].page * PageSize
    BY <1>2, <1>v, <2>4, <2>5
  <2> QED BY <1>1, <1>2, <2>1, <2>2, <2>6 DEF ToCome
<1>6. n \notin failed => \A i \in Ids : marks[n][i] > 0 => Handled(n, i)
  BY DEF CoverAt
<1> QED BY <1>1, <1>2, <1>4, <1>5, <1>6, <1>v DEF CoverAt

LEMMA NbfCovers ==
  ASSUME Types, DueInv, NEW n \in Pollers, CoverAt(n), NEW k \in due[n], NbfFires(n, k)
  PROVE  CoverAt(n)'
<1>1. /\ UNCHANGED <<now, rows, at, marks, cursor, lastPoll, failed, torn>> /\ Rows' = Rows
      /\ due' = [due EXCEPT ![n] = @ \ {k}] /\ ran' = [ran EXCEPT ![n][k] = @ + 1]
      /\ k \in Ids
  BY DEF NbfFires, Rows, Types
<1>2. /\ due'[n] = due[n] \ {k} /\ ran'[n][k] = ran[n][k] + 1
      /\ \A i \in Ids : i # k => ran'[n][i] = ran[n][i]
      /\ \A i \in Ids : ran[n][i] \in Nat
  <2>1. due \in [Pollers -> SUBSET Ids] /\ ran \in [Pollers -> [Ids -> Nat]]
    BY DEF Types
  <2> QED BY <1>1, <2>1
<1>3. \A i \in Ids : Handled(n, i)' <=> Handled(n, i)
  BY <1>1, <1>2 DEF Handled
<1>4. (Polling(n)' <=> Polling(n)) /\ Grace(n)' = Grace(n)
  BY <1>1 DEF Polling, Grace
<1>5. \A i \in Rows : ToCome(n, i)' <=> ToCome(n, i)
  BY <1>1, <1>4 DEF ToCome, Earlier, Selected
<1>6. Rows \subseteq Ids
  BY RowTypes
<1> QED BY <1>1, <1>3, <1>4, <1>5, <1>6 DEF CoverAt

(* A page handles what is on it, and the last page is the one behind which *)
(* there are no rows.                                                      *)
LEMMA FetchCovers ==
  ASSUME Types, Types', TimeInv, NEW n \in Pollers, CoverAt(n), FetchPage(n)
  PROVE  CoverAt(n)'
<1> DEFINE S == Selected(cursor[n].min)
           a == cursor[n].page * PageSize
<1> SUFFICES ASSUME n \notin failed' PROVE
      /\ Polling(n)' /\ cursor'[n].page = 0 => cursor'[n].min = Grace(n)'
      /\ \A i \in Ids : marks'[n][i] > 0 => Handled(n, i)'
      /\ \A i \in Rows' \ torn'[n] :
           rows'[i].node # n /\ rows'[i].committed >= 0 /\ ~Handled(n, i)' => ToCome(n, i)'
  BY DEF CoverAt
<1>1. UNCHANGED <<now, rows, lastPoll, failed>> /\ Rows' = Rows /\ Polling(n)
      /\ n \notin failed
  BY DEF FetchPage, Rows
<1>2. /\ cursor[n].page = 0 => cursor[n].min = Grace(n)
      /\ \A i \in Ids : marks[n][i] > 0 => Handled(n, i)
      /\ \A i \in Rows \ torn[n] :
           rows[i].node # n /\ rows[i].committed >= 0 /\ ~Handled(n, i) => ToCome(n, i)
  BY <1>1 DEF CoverAt
<1>v. /\ now \in Nat /\ lastPoll[n] \in Nat /\ at[n] \in Nat
      /\ cursor[n].min \in Int /\ cursor[n].page \in Nat /\ PageSize \in Nat /\ PageSize > 0
      /\ a \in Nat /\ (cursor[n].page + 1) * PageSize = a + PageSize
      /\ (cursor[n].page = 0 => a = 0)
      /\ Slack \in Nat /\ PollInterval \in Nat
      /\ \A i \in Rows : rows[i].at \in Nat /\ i \in Ids /\ rows[i].committed \in Int
      /\ \A i \in Ids : marks[n][i] \in Nat /\ ran[n][i] \in Nat
  <2>1. cursor[n].page \in Nat
    <3>1. cursor[n].page >= 0 /\ cursor[n].page \in Int
      BY <1>1, ValueTypes DEF Types
    <3> QED BY <3>1
  <2>2. PageSize \in Nat /\ PageSize > 0
    BY ConstantTypes
  <2>3. a \in Nat /\ (cursor[n].page + 1) * PageSize = a + PageSize
        /\ (cursor[n].page = 0 => a = 0)
    BY <2>1, <2>2
  <2> QED BY <2>1, <2>2, <2>3, ValueTypes, ConstantTypes
<1>p. PICK P \in Pages(n) :
        /\ IF P = {}
           THEN /\ cursor' = [cursor EXCEPT ![n] = NoPoll]
                /\ UNCHANGED <<at, marks, due, ran>>
           ELSE Advance(n) /\ Process(n, P) /\ NextPage(n, P)
        /\ torn' = [torn EXCEPT ![n] = @ \cup Divided(n, P)]
  BY DEF FetchPage
<1>t. torn'[n] = torn[n] \cup Divided(n, P)
  BY <1>p DEF Types
<1>3. S \in SUBSET Rows /\ IsFiniteSet(S) /\ P \in SUBSET Rows
  BY <1>1, PageBound, SelectedRows
<1>4. \A i \in S : Cardinality(Earlier(i, S)) \in Nat
  <2> HIDE DEF S
  <2> QED BY <1>3, FS_Subset, FS_CardinalityType DEF Earlier
(* What stays to be handled is behind this page, or was not there when the *)
(* poll began.                                                             *)
<1>6. ASSUME NEW i \in Rows \ torn'[n], rows[i].node # n, rows[i].committed >= 0,
             ~Handled(n, i), i \notin P
      PROVE  \/ lastPoll[n] <= rows[i].committed /\ rows[i].at > Grace(n)
                /\ cursor[n].page # 0
             \/ /\ i \in S /\ Cardinality(Earlier(i, S)) >= a + PageSize
                /\ lastPoll[n] <= rows[i].committed + PollInterval + Slack
                /\ Cardinality(P) = PageSize /\ P # {}
  <2>1. ToCome(n, i) /\ i \notin Divided(n, P)
    BY <1>2, <1>6, <1>t
  <2>2. rows[i].at <= now
    BY DEF TimeInv
  <2>3. CASE /\ rows[i].at > cursor[n].min /\ Cardinality(Earlier(i, S)) >= a
             /\ lastPoll[n] <= rows[i].committed + PollInterval + Slack
    <3>1. i \in S
      BY <1>6, <2>2, <2>3 DEF Selected
    <3>2. /\ Cardinality(P) = PageSize /\ P # {}
          /\ Cardinality(Earlier(i, S)) >= a + PageSize
      BY <1>1, <1>6, <1>p, <2>1, <2>3, <3>1, PageLeaves
    <3> QED BY <2>3, <3>1, <3>2
  <2>4. CASE lastPoll[n] <= rows[i].committed /\ rows[i].at > Grace(n)
    <3>1. CASE cursor[n].page = 0
      <4>1. i \in S
        BY <1>2, <1>6, <2>2, <2>4, <3>1 DEF Selected
      <4>2. rows[i].at > cursor[n].min
        BY <1>2, <2>4, <3>1
      <4>3. Cardinality(Earlier(i, S)) >= a
        <5> HIDE DEF S, a
        <5> QED BY <1>4, <1>v, <3>1, <4>1
      <4>4. lastPoll[n] <= rows[i].committed + PollInterval + Slack
        BY <1>v, <2>4
      <4> QED BY <2>3, <4>2, <4>3, <4>4
    <3>2. CASE cursor[n].page # 0
      BY <2>4, <3>2
    <3> QED BY <3>1, <3>2
  <2> QED BY <2>1, <2>3, <2>4 DEF ToCome
<1>8. CASE P = {}
  <2>1. cursor'[n] = NoPoll /\ ~Polling(n)' /\ UNCHANGED <<at, marks, due, ran>>
    <3>1. cursor' = [cursor EXCEPT ![n] = NoPoll] /\ UNCHANGED <<at, marks, due, ran>>
      BY <1>8, <1>p
    <3>2. cursor'[n] = NoPoll
      BY <3>1, PollEnds
    <3> QED BY <3>1, <3>2 DEF Polling
  <2>2. Grace(n)' = Grace(n) /\ \A i \in Ids : Handled(n, i)' <=> Handled(n, i)
    BY <2>1 DEF Grace, Handled
  <2>3. ASSUME NEW i \in Rows \ torn'[n], rows[i].node # n, rows[i].committed >= 0,
               ~Handled(n, i)
        PROVE  lastPoll[n] <= rows[i].committed /\ rows[i].at > Grace(n)
    BY <1>6, <1>8, <2>3
  <2> QED BY <1>1, <1>2, <1>v, <2>1, <2>2, <2>3 DEF ToCome
<1>9. CASE P # {}
  <2>1. Advance(n) /\ Process(n, P) /\ NextPage(n, P)
    BY <1>9, <1>p
  <2>2. ASSUME NEW i \in Ids
        PROVE  \/ /\ ran'[n][i] = ran[n][i] /\ (i \in due'[n] <=> i \in due[n])
                  /\ marks'[n][i] = marks[n][i]
               \/ Handled(n, i)'
    <3>1. P \in SUBSET Rows
      BY <1>3
    <3>2. \/ /\ ran'[n][i] = ran[n][i] /\ (i \in due'[n] <=> i \in due[n])
             /\ marks'[n][i] = marks[n][i]
          \/ ran'[n][i] = ran[n][i] /\ i \in due'[n]
          \/ ran'[n][i] = ran[n][i] + 1
      BY <2>1, <3>1, ProcessEffect
    <3> QED BY <1>v, <3>2 DEF Handled
  <2>3. \A i \in Ids : Handled(n, i) => Handled(n, i)'
    BY <2>2 DEF Handled
  <2>4. ASSUME NEW i \in P, rows[i].node # n PROVE Handled(n, i)'
    <3>1. i \in Ids /\ P \in SUBSET Rows
      BY <1>3, <1>v
    <3>2. CASE Marked(n, i)
      <4>1. marks[n][i] > 0
        BY <1>v, <3>1, <3>2 DEF Marked
      <4> QED BY <1>2, <2>3, <3>1, <4>1
    <3>3. CASE ~Marked(n, i)
      <4> DEFINE new == {j \in P : rows[j].node # n /\ ~Marked(n, j)}
                 later == {j \in new : rows[j].nbf > now}
      <4>1. /\ due' = [due EXCEPT ![n] = due[n] \cup later]
            /\ ran' = [ran EXCEPT ![n] = [j \in Ids |-> ran[n][j]
                                             + (IF j \in new \ later THEN 1 ELSE 0)]]
        BY <2>1 DEF Process
      <4>2. due \in [Pollers -> SUBSET Ids] /\ ran \in [Pollers -> [Ids -> Nat]]
        BY DEF Types
      <4>3. due'[n] = due[n] \cup later
            /\ ran'[n][i] = ran[n][i] + (IF i \in new \ later THEN 1 ELSE 0)
        BY <3>1, <4>1, <4>2
      <4>4. i \in new
        BY <2>4, <3>3
      <4>5. i \in due'[n] \/ ran'[n][i] = ran[n][i] + 1
        BY <4>3, <4>4
      <4> QED BY <1>v, <3>1, <4>5 DEF Handled
    <3> QED BY <3>2, <3>3
  <2>5. \A i \in Ids : marks'[n][i] > 0 => Handled(n, i)'
    BY <1>2, <2>2, <2>3
  <2>6. cursor[n].page # 0 => Grace(n)' = Grace(n)
    BY <2>1 DEF Advance, Grace
  <2>7. \/ ~Polling(n)' /\ Cardinality(P) < PageSize
        \/ /\ cursor'[n].min = cursor[n].min /\ cursor'[n].page = cursor[n].page + 1
           /\ Polling(n)'
    <3>1. CASE Cardinality(P) < PageSize
      <4>1. cursor' = [cursor EXCEPT ![n] = NoPoll]
        BY <2>1, <3>1 DEF NextPage
      <4>2. cursor'[n] = NoPoll
        BY <4>1, PollEnds
      <4> QED BY <3>1, <4>2 DEF Polling
    <3>2. CASE ~(Cardinality(P) < PageSize)
      <4>1. cursor' = [cursor EXCEPT ![n].page = @ + 1]
        BY <2>1, <3>2 DEF NextPage
      <4>2. cursor \in [Pollers -> Cursor]
        BY DEF Types
      <4>3. cursor'[n].min = cursor[n].min /\ cursor'[n].page = cursor[n].page + 1
        BY <4>1, <4>2 DEF Cursor
      <4>4. cursor'[n].page > 0
        BY <1>v, <4>3
      <4> QED BY <4>3, <4>4 DEF Polling, NoPoll
    <3> QED BY <3>1, <3>2
  <2>8. ASSUME NEW i \in Rows \ torn'[n], rows[i].node # n, rows[i].committed >= 0,
               ~Handled(n, i)'
        PROVE  ToCome(n, i)'
    <3>1. i \notin P /\ ~Handled(n, i)
      BY <1>v, <2>3, <2>4, <2>8
    <3>2. CASE lastPoll[n] <= rows[i].committed /\ rows[i].at > Grace(n)
               /\ cursor[n].page # 0
      BY <1>1, <2>6, <3>2 DEF ToCome
    <3>3. CASE /\ i \in S /\ Cardinality(Earlier(i, S)) >= a + PageSize
               /\ lastPoll[n] <= rows[i].committed + PollInterval + Slack
               /\ Cardinality(P) = PageSize
      <4>1. cursor'[n].min = cursor[n].min /\ cursor'[n].page = cursor[n].page + 1
            /\ Polling(n)'
        BY <1>v, <2>7, <3>3
      <4>2. Earlier(i, Selected(cursor[n].min))' = Earlier(i, S)
        BY <1>1, <4>1 DEF Earlier, Selected
      <4>3. Cardinality(Earlier(i, Selected(cursor[n].min)))' >= cursor'[n].page * PageSize
        <5>1. (cursor[n].page + 1) * PageSize = a + PageSize
          BY <1>v
        <5> HIDE DEF S, a
        <5> QED BY <3>3, <4>1, <4>2, <5>1
      <4>4. rows[i].at > cursor[n].min
        BY <3>3 DEF Selected
      <4> QED BY <1>1, <3>3, <4>1, <4>3, <4>4 DEF ToCome
    <3> QED BY <1>6, <2>8, <3>1, <3>2, <3>3
  <2>9. Polling(n)' => cursor'[n].page # 0
    BY <1>v, <2>7
  <2> QED BY <1>1, <2>5, <2>8, <2>9
<1> QED BY <1>8, <1>9

LEMMA CoverInvariant == MaxCommitDelay <= PollOffset => (Spec => []CoverInv)
<1> SUFFICES ASSUME MaxCommitDelay <= PollOffset PROVE Spec => []CoverInv
  OBVIOUS
<1>1. ASSUME Init PROVE CoverInv
  <2>1. Rows = {} /\ \A n \in Pollers : ~Polling(n) /\ \A i \in Ids : marks[n][i] = 0
    BY <1>1 DEF Init, Rows, Polling
  <2> QED BY <2>1 DEF CoverInv, CoverAt
<1>2. ASSUME Types, Types', TimeInv, CommitInv, CommitInv', DueInv, CoverInv, [Next]_vars
      PROVE  CoverInv'
  <2> SUFFICES ASSUME NEW n \in Pollers PROVE CoverAt(n)'
    BY DEF CoverInv
  <2>1. CoverAt(n)
    BY <1>2 DEF CoverInv
  <2>2. RowsKept /\ \/ Frame(n) \/ n \in failed' \/ StartPoll(n) \/ FetchPage(n)
                    \/ \E i \in due[n] : NbfFires(n, i)
    BY <1>2, StepOf
  <2>3. CASE Frame(n)
    <3>1. RowsMove
      BY <1>2, StepRows
    <3> QED BY <1>2, <2>1, <2>2, <2>3, <3>1, FrameCovers
  <2>4. CASE n \in failed'
    BY <2>4 DEF CoverAt
  <2>5. CASE StartPoll(n)
    BY <1>2, <2>1, <2>5, StartCovers
  <2>6. CASE FetchPage(n)
    BY <1>2, <2>1, <2>6, FetchCovers
  <2>7. CASE \E i \in due[n] : NbfFires(n, i)
    BY <1>2, <2>1, <2>7, NbfCovers
  <2> QED BY <2>2, <2>3, <2>4, <2>5, <2>6, <2>7
<1> QED BY <1>1, <1>2, TypesInvariant, TimeInvariant, CommitInvariant, DueInvariant, PTL DEF Spec

(* No row falls between two intervals or two pages: with a grace period    *)
(* that is at least the commit latency, a node whose polls succeed has     *)
(* handled every committed row of the others when the next poll that       *)
(* begins after the commit has had time to end, for any page size, any     *)
(* number of rows committed between two pages and any order of rows of the *)
(* same time, if no page ended between the row and one of the same time.   *)
(* The assumption is what db_update_propagation is for; its default, 0,    *)
(* meets it only where a row commits within the tick it was stamped in.    *)
THEOREM HandledInTime == MaxCommitDelay <= PollOffset => (Spec => []HandledByNextPoll)
<1> SUFFICES ASSUME MaxCommitDelay <= PollOffset PROVE Spec => []HandledByNextPoll
  OBVIOUS
<1>1. ASSUME Types, TimeInv, CoverInv PROVE HandledByNextPoll
  <2> SUFFICES ASSUME NEW n \in Pollers \ failed, NEW i \in Rows \ torn[n],
                      rows[i].node # n, rows[i].committed >= 0, ~Handled(n, i)
               PROVE  now <= rows[i].committed + PollInterval + 2 * Slack
    <3>1. now \in Nat /\ rows \in [Rows -> Row]
      BY <1>1, ValueTypes DEF Types
    <3>2. \A i \in Rows : rows[i].committed \in Int
      BY <1>1, ValueTypes
    <3> QED BY <3>1, <3>2, ConstantTypes DEF HandledByNextPoll
  <2>v. /\ now \in Nat /\ lastPoll[n] \in Nat /\ rows[i].committed \in Int
        /\ PollInterval \in Nat /\ Slack \in Nat
    BY <1>1, ValueTypes, ConstantTypes
  <2>1. ToCome(n, i)
    BY <1>1 DEF CoverInv, CoverAt
  <2>2. /\ Polling(n) => now <= lastPoll[n] + Slack
        /\ now <= lastPoll[n] + PollInterval + Slack
    BY <1>1, <2>v DEF TimeInv
  <2>3. CASE lastPoll[n] <= rows[i].committed
    BY <2>v, <2>2, <2>3
  <2>4. CASE Polling(n) /\ lastPoll[n] <= rows[i].committed + PollInterval + Slack
    BY <2>v, <2>2, <2>4
  <2> QED BY <2>1, <2>3, <2>4 DEF ToCome
<1>2. Spec => []CoverInv
  BY CoverInvariant
<1> QED BY <1>1, <1>2, TypesInvariant, TimeInvariant, PTL
=============================================================================
