------------------------- MODULE OutlookSyncProofs -------------------------
(***************************************************************************)
(* Proofs about OutlookSync, for every number of overlapping syncs, every  *)
(* inbox and every page size: types, no message before a cursor is missed, *)
(* a sync that reports success has stored what was there when it began,    *)
(* and syncs do not wait for each other in a circle.                       *)
(***************************************************************************)
EXTENDS OutlookSync, WellFoundedInduction, TLAPS

----------------------------------------------------------------------------
(* The invariants.                                                         *)

\* Where a sync has read pages, and where it stores what it read.
Storing == {"find_message", "insert_message", "load_cursor", "store_cursor"}
Rounds == Storing \cup {"fetch"}

\* How far a session is in its inbox and in its list.
ControlInv(s) ==
  /\ next[s] <= arrived[account[s]]
  /\ begun[s] <= arrived[account[s]]
  /\ pc[s] \notin Rounds => next[s] = 0 /\ got[s] = <<>>
  /\ pc[s] \notin Storing => item[s] = 1
  /\ pc[s] \in {"find_message", "insert_message"} => item[s] \in DOMAIN got[s]
  /\ pc[s] \in {"load_cursor", "store_cursor"} => item[s] = Len(got[s]) + 1
  /\ pc[s] \in Storing => begun[s] <= next[s]

\* Nothing arrives that is not going to happen.
ArrivedBounded == \A o \in Account : arrived[o] <= Len(Changes[o])

\* What the other invariants take for granted.
TypeInv == TypeOK /\ ArrivedBounded /\ \A s \in Session : ControlInv(s)

\* x happens among the first n changes of o, and before y does.
Precedes(o, n, x, y) ==
  \E i \in 1..n : Changes[o][i] = x /\ \A h \in 1..i : Changes[o][h] # y

\* A list of messages stands for the first n changes of o: each change that is
\* not stored is in it, each message is one of the changes, and messages that
\* are not stored are in the order of the inbox.
Reads(o, n, list) ==
  /\ \A i \in 1..n : Changes[o][i] \in ToSet(list) \/ Stored(Changes[o][i])
  /\ \A k \in DOMAIN list : \E i \in 1..n : Changes[o][i] = list[k]
  /\ \A k \in DOMAIN list : \A j \in 1..(k - 1) :
       Stored(list[j]) \/ Stored(list[k]) \/ Precedes(o, n, list[j], list[k])

\* Session s has dealt with the k-th message of its list.
Dealt(s, k) == k \in DOMAIN got[s] /\ k < item[s]

\* A session has read what its link says, sees every message it has dealt with,
\* and has locked only new rows of such messages.
SessionInv(s) ==
  /\ pc[s] \in Rounds => Reads(account[s], next[s], got[s])
  /\ \A k \in DOMAIN got[s] : k < item[s] => Seen(s, MessageRow(got[s][k])) = TRUE
  /\ DOMAIN work[s] \subseteq locks[s]
  /\ \A row \in locks[s] : db[row] = FALSE /\ \E k : Dealt(s, k) /\ row = MessageRow(got[s][k])

\* Nobody shares a lock.
LocksExclusive ==
  \A s, o \in Session : s # o => locks[s] \cap locks[o] = {}

SyncInv == CursorCovered /\ LocksExclusive /\ \A s \in Session : SessionInv(s)

----------------------------------------------------------------------------
(* What folding Put over a page computes.                                  *)

\* The entry of the fold for a set of positions: the last one is put last.
Entry(h, list, page, S) == IF S = {} THEN list ELSE Put(h[S \ {Max(S)}], page[Max(S)])
\* h is the table of these entries for the positions in S.
IsTable(h, list, page, S) == h = [R \in SUBSET S |-> Entry(h, list, page, R)]
\* The table the fold computes.
Table(list, page, S) == CHOOSE h : IsTable(h, list, page, S)

\* A fold is the entry of the table for all positions.
LEMMA FoldIsEntry ==
  \A list, page : FoldLeft(Put, list, page) = Table(list, page, DOMAIN page)[DOMAIN page]
BY Zenon DEF FoldLeft, MapThenFoldSet, Table, IsTable, Entry

\* A nonempty set of natural numbers has a least member.
LEMMA LeastNat ==
  ASSUME NEW S \in SUBSET Nat, S # {}
  PROVE  \E n \in S : \A k \in S : n <= k
<1>1. PICK n \in S : \A k \in S : ~(<<k, n>> \in OpToRel(<, Nat))
  BY Zenon, NatLessThanWellFounded, WFMin
<1>2. \A k, m \in Nat : k < m => <<k, m>> \in OpToRel(<, Nat)
  BY Zenon DEF OpToRel
<1>3. \A k \in S : ~(k < n)
  BY <1>1, <1>2
<1>4. QED
  BY <1>3

\* A nonempty bounded set of them has a greatest one.
LEMMA GreatestNat ==
  ASSUME NEW n \in Nat, NEW S \in SUBSET (0..n), S # {}
  PROVE  \E k \in S : \A y \in S : k >= y
<1> DEFINE T == {k \in 0..n : n - k \in S}
<1>1. T \in SUBSET Nat /\ T # {}
  <2>1. PICK x \in S : TRUE
    OBVIOUS
  <2>2. n - x \in T
    BY <2>1
  <2>3. T \in SUBSET Nat
    OBVIOUS
  <2> HIDE DEF T
  <2>4. QED
    BY <2>2, <2>3
<1>2. PICK k \in T : \A y \in T : k <= y
  <2> HIDE DEF T
  <2>1. QED
    BY <1>1, LeastNat
<1>3. \A y \in S : n - k >= y
  <2> SUFFICES ASSUME NEW y \in S PROVE n - k >= y
    OBVIOUS
  <2>1. n - y \in T
    OBVIOUS
  <2>2. QED
    BY <1>2, <2>1
<1>4. QED
  BY <1>2, <1>3

\* Which is what Max chooses.
LEMMA MaxIn ==
  ASSUME NEW n \in Nat, NEW S \in SUBSET (0..n), S # {}
  PROVE  Max(S) \in S /\ \A y \in S : Max(S) >= y
BY GreatestNat DEF Max

\* The last of the positions up to n, if n is among them.
LEMMA MaxIs ==
  ASSUME NEW n \in Nat, NEW S \in SUBSET (0..n), n \in S
  PROVE  Max(S) = n
<1>1. Max(S) \in S /\ Max(S) >= n
  BY MaxIn
<1>2. Max(S) \in 0..n
  BY <1>1
<1>3. QED
  BY <1>1, <1>2

\* Every initial segment has a table.
LEMMA TableExists ==
  ASSUME NEW list, NEW page, NEW n \in Nat
  PROVE  \E h : IsTable(h, list, page, 1..n)
<1> DEFINE T == {k \in Nat : ~ \E h : IsTable(h, list, page, 1..k)}
<1>1. SUFFICES ASSUME T # {} PROVE FALSE
  OBVIOUS
<1>2. PICK k \in T : \A y \in T : k <= y
  <2>1. T \in SUBSET Nat
    OBVIOUS
  <2> HIDE DEF T
  <2>2. QED
    BY <1>1, <2>1, LeastNat
<1>3. CASE k = 0
  <2>1. IsTable([R \in SUBSET (1..0) |-> list], list, page, 1..0)
    BY DEF IsTable, Entry
  <2>2. QED
    BY <1>2, <1>3, <2>1
<1>4. CASE k # 0
  <2>1. k - 1 \in Nat /\ k - 1 \notin T
    BY <1>2, <1>4
  <2>2. PICK g : IsTable(g, list, page, 1..(k - 1))
    BY <2>1
  <2> DEFINE h == [R \in SUBSET (1..k) |->
                     IF k \in R THEN Put(g[R \ {k}], page[k]) ELSE g[R]]
  <2>3. ASSUME NEW R \in SUBSET (1..k)
        PROVE  h[R] = Entry(h, list, page, R)
    <3>1. CASE k \in R
      <4>1. R \ {k} \in SUBSET (1..(k - 1)) /\ R \ {k} \in SUBSET (1..k) /\ k \notin R \ {k}
        BY <1>2
      <4>2. Max(R) = k
        BY <1>2, <3>1, MaxIs
      <4>3. h[R \ {k}] = g[R \ {k}]
        BY <4>1
      <4>4. h[R] = Put(g[R \ {k}], page[k])
        BY <3>1
      <4> HIDE DEF h
      <4>5. QED
        BY <3>1, <4>2, <4>3, <4>4 DEF Entry
    <3>2. CASE k \notin R
      <4>1. R \in SUBSET (1..(k - 1))
        BY <1>2, <3>2
      <4>2. g[R] = Entry(g, list, page, R) /\ h[R] = g[R]
        BY <2>2, <3>2, <4>1 DEF IsTable
      <4>3. CASE R = {}
        BY <4>2, <4>3 DEF Entry
      <4>4. CASE R # {}
        <5>1. R \ {Max(R)} \in SUBSET (1..k) /\ k \notin R \ {Max(R)}
          BY <3>2
        <5>2. h[R \ {Max(R)}] = g[R \ {Max(R)}]
          BY <5>1
        <5> HIDE DEF h
        <5>3. QED
          BY <4>2, <4>4, <5>2 DEF Entry
      <4>5. QED
        BY <4>3, <4>4
    <3>3. QED
      BY <3>1, <3>2
  <2>4. IsTable(h, list, page, 1..k)
    BY <2>3 DEF IsTable
  <2>5. QED
    BY <1>2, <2>4
<1>5. QED
  BY <1>3, <1>4

\* A fold goes through the page from the first to the last message.
LEMMA FoldSteps ==
  ASSUME NEW list, NEW page, NEW n \in Nat, DOMAIN page = 1..n
  PROVE  \E dict :
           /\ dict[0] = list
           /\ \A k \in 1..n : dict[k] = Put(dict[k - 1], page[k])
           /\ dict[n] = FoldLeft(Put, list, page)
<1> DEFINE h == Table(list, page, 1..n)
           dict == [k \in 0..n |-> h[1..k]]
<1>1. IsTable(h, list, page, 1..n)
  BY TableExists DEF Table
<1>2. ASSUME NEW k \in 0..n PROVE dict[k] = Entry(h, list, page, 1..k)
  <2>1. 1..k \in SUBSET (1..n)
    OBVIOUS
  <2>2. QED
    BY <1>1, <2>1 DEF IsTable
<1>3. dict[0] = list
  <2>1. 1..0 = {}
    OBVIOUS
  <2>2. dict[0] = Entry(h, list, page, {})
    BY <1>2, <2>1
  <2>3. QED
    BY <2>2 DEF Entry
<1>4. ASSUME NEW k \in 1..n PROVE dict[k] = Put(dict[k - 1], page[k])
  <2>1. Max(1..k) = k /\ 1..k # {}
    <3>1. k \in Nat /\ 1..k \in SUBSET (0..k) /\ k \in 1..k
      OBVIOUS
    <3>2. QED
      BY <3>1, MaxIs
  <2>2. (1..k) \ {k} = 1..(k - 1)
    OBVIOUS
  <2>3. dict[k] = Put(h[1..(k - 1)], page[k])
    <3>1. dict[k] = Entry(h, list, page, 1..k)
      BY <1>2
    <3> HIDE DEF dict, h
    <3>2. QED
      BY <2>1, <2>2, <3>1 DEF Entry
  <2>4. QED
    BY <2>3
<1>5. dict[n] = FoldLeft(Put, list, page)
  BY FoldIsEntry
<1>6. QED
  BY <1>3, <1>4, <1>5

----------------------------------------------------------------------------
(* Reading pages.                                                          *)

\* An element of a sequence over a set is in the set.
LEMMA ElementTyped ==
  ASSUME NEW S, NEW q \in Seq(S), NEW k \in DOMAIN q
  PROVE  q[k] \in S
OBVIOUS

\* Put adds a message at the end unless it is there.
LEMMA PutSteps ==
  ASSUME NEW list \in Seq(Message), NEW m \in Message
  PROVE  \/ m \in ToSet(list) /\ Put(list, m) = list
         \/ /\ m \notin ToSet(list)
            /\ Put(list, m) \in Seq(Message)
            /\ Len(Put(list, m)) = Len(list) + 1
            /\ \A k \in DOMAIN list : Put(list, m)[k] = list[k]
            /\ Put(list, m)[Len(list) + 1] = m
BY DEF Put

\* A message comes after those that are in the list, if it is not stored.
LEMMA PutReads ==
  ASSUME NEW o \in Account, NEW n \in Nat, NEW list \in Seq(Message),
         Reads(o, n, list), Changes[o][n + 1] \in Message
  PROVE  Reads(o, n + 1, Put(list, Changes[o][n + 1]))
<1> DEFINE m == Changes[o][n + 1]
           longer == Put(list, m)
<1>1. \A i \in 1..(n + 1) : i \in 1..n \/ i = n + 1
  OBVIOUS
<1>2. \A i \in 1..n : i \in 1..(n + 1)
  OBVIOUS
<1>3. \A x, y : Precedes(o, n, x, y) => Precedes(o, n + 1, x, y)
  BY <1>2 DEF Precedes
<1>4. CASE m \in ToSet(list) /\ longer = list
  <2>1. \A i \in 1..(n + 1) : Changes[o][i] \in ToSet(list) \/ Stored(Changes[o][i])
    BY <1>1, <1>4 DEF Reads
  <2>2. \A k \in DOMAIN list : \E i \in 1..(n + 1) : Changes[o][i] = list[k]
    BY <1>2 DEF Reads
  <2>3. \A k \in DOMAIN list : \A j \in 1..(k - 1) :
          Stored(list[j]) \/ Stored(list[k]) \/ Precedes(o, n + 1, list[j], list[k])
    BY <1>3 DEF Reads
  <2>4. QED
    BY <1>4, <2>1, <2>2, <2>3 DEF Reads
<1>5. CASE /\ m \notin ToSet(list)
           /\ longer \in Seq(Message)
           /\ Len(longer) = Len(list) + 1
           /\ \A k \in DOMAIN list : longer[k] = list[k]
           /\ longer[Len(list) + 1] = m
  <2> HIDE DEF m, longer
  <2>1. DOMAIN list = 1..Len(list) /\ DOMAIN longer = 1..(Len(list) + 1) /\ Len(list) \in Nat
    BY <1>5
  <2>2. \A k \in DOMAIN longer : k \in DOMAIN list \/ k = Len(list) + 1
    BY <2>1
  <2>3. DOMAIN list \subseteq DOMAIN longer /\ Len(list) + 1 \in DOMAIN longer
    BY <2>1
  <2>4. \A x \in ToSet(list) : x \in ToSet(longer)
    BY <1>5, <2>3 DEF ToSet
  <2>5. m \in ToSet(longer)
    BY <1>5, <2>3 DEF ToSet
  <2>6. ASSUME NEW i \in 1..(n + 1)
        PROVE  Changes[o][i] \in ToSet(longer) \/ Stored(Changes[o][i])
    BY <1>1, <2>4, <2>5 DEF Reads, m
  <2>7. ASSUME NEW k \in DOMAIN longer
        PROVE  \E i \in 1..(n + 1) : Changes[o][i] = longer[k]
    <3>1. CASE k \in DOMAIN list
      BY <1>2, <1>5, <3>1 DEF Reads
    <3>2. CASE k = Len(list) + 1
      <4>1. n + 1 \in 1..(n + 1)
        OBVIOUS
      <4>2. QED
        BY <1>5, <3>2, <4>1 DEF m
    <3>3. QED
      BY <2>2, <3>1, <3>2
  <2>8. ASSUME NEW k \in DOMAIN longer, NEW j \in 1..(k - 1)
        PROVE  Stored(longer[j]) \/ Stored(longer[k]) \/ Precedes(o, n + 1, longer[j], longer[k])
    <3>1. j \in DOMAIN list
      BY <2>1
    <3>2. CASE k \in DOMAIN list
      BY <1>3, <1>5, <3>1, <3>2 DEF Reads
    <3>3. CASE k = Len(list) + 1
      <4>1. SUFFICES ASSUME ~Stored(m) PROVE Precedes(o, n + 1, list[j], m)
        BY <1>5, <3>1, <3>3
      <4>2. PICK i \in 1..n : Changes[o][i] = list[j]
        BY <3>1 DEF Reads
      <4>3. \A h \in 1..n : Changes[o][h] # m
        BY <1>5, <4>1 DEF Reads
      <4>4. i \in 1..(n + 1) /\ \A h \in 1..i : h \in 1..n
        OBVIOUS
      <4>5. QED
        BY <4>2, <4>3, <4>4 DEF Precedes
    <3>4. QED
      BY <2>2, <3>2, <3>3
  <2>9. Reads(o, n + 1, longer)
    BY <2>6, <2>7, <2>8 DEF Reads
  <2>10. QED
    BY <2>9 DEF longer, m
<1>6. QED
  BY <1>4, <1>5, PutSteps

\* A page is the part of the inbox between its link and the next one.
LEMMA PageIs ==
  ASSUME TypeInv, NEW s \in Session
  PROVE  /\ PageEnd(s) \in Nat /\ next[s] \in Nat
         /\ next[s] <= PageEnd(s) /\ PageEnd(s) <= arrived[account[s]]
         /\ Page(s) \in Seq(Message \cup {Deletion})
         /\ Len(Page(s)) = PageEnd(s) - next[s]
         /\ \A k \in DOMAIN Page(s) : Page(s)[k] = Changes[account[s]][next[s] + k]
<1> DEFINE o == account[s]
<1>1. /\ o \in Account /\ arrived[o] \in Nat /\ next[s] \in Nat /\ next[s] <= arrived[o]
      /\ Changes[o] \in Seq(Message \cup {Deletion}) /\ arrived[o] <= Len(Changes[o])
  <2>1. o \in Account /\ next[s] \in Position /\ arrived \in [Account -> Nat]
    BY DEF TypeInv, TypeOK, StoreTyped, ControlTyped
  <2>2. Position \subseteq Nat
    BY <2>1 DEF Position
  <2>3. QED
    BY <2>1, <2>2, ChangesAssumption DEF TypeInv, ControlInv, ArrivedBounded
<1>2. /\ PageEnd(s) \in Nat
      /\ next[s] <= PageEnd(s) /\ PageEnd(s) <= arrived[o]
  BY <1>1, PageAssumption DEF PageEnd
<1> HIDE DEF o
<1>3. Page(s) = SubSeq(Changes[o], next[s] + 1, PageEnd(s))
  BY DEF Page, o
<1>4. /\ Page(s) \in Seq(Message \cup {Deletion})
      /\ Len(Page(s)) = PageEnd(s) - next[s]
      /\ \A k \in DOMAIN Page(s) : Page(s)[k] = Changes[o][next[s] + k]
  BY SMTT(30), <1>1, <1>2, <1>3
<1>5. QED
  BY <1>1, <1>2, <1>4 DEF o

\* Collecting a page keeps a list of messages that stands for the changes read.
LEMMA CollectedReads ==
  ASSUME TypeInv, NEW s \in Session, Deletion \notin ToSet(Page(s))
  PROVE  /\ Collected(s) \in Seq(Message)
         /\ Reads(account[s], next[s], got[s]) => Reads(account[s], PageEnd(s), Collected(s))
<1> DEFINE o == account[s]
           n == next[s]
           page == Page(s)
<1>1. /\ n \in Nat /\ page \in Seq(Message \cup {Deletion}) /\ Len(page) = PageEnd(s) - n
      /\ \A k \in DOMAIN page : page[k] = Changes[o][n + k]
      /\ PageEnd(s) \in Nat
  BY PageIs
<1>2. o \in Account /\ got[s] \in Seq(Message)
  BY DEF TypeInv, TypeOK, ControlTyped
<1>3. Collected(s) = FoldLeft(Put, got[s], page)
  BY DEF Collected
<1> HIDE DEF o, n, page
<1>4. Len(page) \in Nat /\ DOMAIN page = 1..Len(page)
  BY <1>1
<1>5. PICK dict : /\ dict[0] = got[s]
                  /\ \A k \in 1..Len(page) : dict[k] = Put(dict[k - 1], page[k])
                  /\ dict[Len(page)] = FoldLeft(Put, got[s], page)
  BY <1>4, FoldSteps
<1>6. \A k \in 1..Len(page) : page[k] \in Message
  <2>1. page = Page(s)
    BY DEF page
  <2>2. QED
    BY <1>1, <1>4, <2>1, ElementTyped DEF ToSet
<1> DEFINE Good(k) == /\ dict[k] \in Seq(Message)
                      /\ Reads(o, n, got[s]) => Reads(o, n + k, dict[k])
           T == {k \in 0..Len(page) : ~Good(k)}
<1>7. T = {}
  <2>1. SUFFICES ASSUME T # {} PROVE FALSE
    OBVIOUS
  <2>2. T \in SUBSET Nat
    BY <1>4
  <2>3. PICK k \in T : \A y \in T : k <= y
    <3> HIDE DEF T
    <3>1. QED
      BY <2>1, <2>2, LeastNat
  <2>4. k # 0
    BY <1>1, <1>2, <1>5, <2>3
  <2>5. k \in 1..Len(page) /\ k - 1 \in 0..Len(page)
    BY <1>4, <2>3, <2>4
  <2>6. k - 1 \notin T
    BY <2>3, <2>5
  <2>7. Good(k - 1)
    BY <2>5, <2>6
  <2>8. page[k] \in Message /\ page[k] = Changes[o][n + k] /\ dict[k] = Put(dict[k - 1], page[k])
    BY <1>1, <1>4, <1>5, <1>6, <2>5
  <2>9. dict[k] \in Seq(Message)
    BY <2>7, <2>8, PutSteps
  <2>10. ASSUME Reads(o, n, got[s]) PROVE Reads(o, n + k, dict[k])
    <3>1. n + (k - 1) \in Nat /\ n + (k - 1) + 1 = n + k
      BY <1>1, <2>5
    <3>2. Reads(o, n + (k - 1), dict[k - 1])
      BY <2>7, <2>10
    <3>3. Changes[o][n + (k - 1) + 1] \in Message
      BY <2>8, <3>1
    <3>4. Reads(o, n + (k - 1) + 1, Put(dict[k - 1], Changes[o][n + (k - 1) + 1]))
      BY <1>2, <2>7, <3>1, <3>2, <3>3, PutReads
    <3>5. QED
      BY <2>8, <3>1, <3>4
  <2>11. QED
    BY <2>3, <2>9, <2>10
<1>8. Good(Len(page))
  BY <1>4, <1>7
<1>9. n + Len(page) = PageEnd(s)
  BY <1>1
<1>10. QED
  BY <1>3, <1>5, <1>8, <1>9 DEF o, n

----------------------------------------------------------------------------
(* Types and control.                                                      *)

\* Rows of different kinds differ, and rows of one kind have different keys.
LEMMA RowTypes ==
  /\ \A o \in Account : CredentialRow(o) \in Row /\ CursorRow(o) \in Row
  /\ \A m \in Message : MessageRow(m) \in Row
  /\ \A o, m : /\ CredentialRow(o) # CursorRow(m) /\ CredentialRow(o) # MessageRow(m)
               /\ CursorRow(o) # MessageRow(m)
  /\ \A o, p : /\ CredentialRow(o) = CredentialRow(p) => o = p
               /\ CursorRow(o) = CursorRow(p) => o = p
               /\ MessageRow(o) = MessageRow(p) => o = p
BY DEF Row, CredentialRow, CursorRow, MessageRow

\* Positions are natural numbers, and zero is one.
LEMMA Positions ==
  ASSUME TypeInv
  PROVE  /\ Position \subseteq Nat
         /\ \A o \in Account : \A k \in 0..arrived[o] : k \in Position
         /\ 0 \in Position /\ SomeAccount \in Account
<1>1. SomeAccount \in Account
  BY AccountAssumption DEF SomeAccount
<1>2. \A o \in Account : arrived[o] \in Nat
  BY DEF TypeInv, TypeOK, StoreTyped
<1>3. QED
  BY <1>1, <1>2 DEF Position

\* The first state.
LEMMA TypeInit == Init => TypeInv
<1> SUFFICES ASSUME Init PROVE TypeInv
  OBVIOUS
<1>1. SomeAccount \in Account
  BY AccountAssumption DEF SomeAccount
<1>2. StoreTyped
  <2>1. \A o \in Account : /\ db[CredentialRow(o)] = [status |-> "NONE", fresh |-> FALSE]
                           /\ db[CursorRow(o)] = NoCursor
    BY RowTypes DEF Init, InitialValue, CredentialRow, CursorRow
  <2>2. \A m \in Message : db[MessageRow(m)] = FALSE
    BY RowTypes DEF Init, InitialValue, MessageRow
  <2>3. DOMAIN Nothing = {}
    BY DEF Nothing
  <2>4. \A o \in Account :
          /\ db[CredentialRow(o)] \in [status : CredentialStatus, fresh : BOOLEAN]
          /\ db[CursorRow(o)] \in {NoCursor} \cup (0..arrived[o])
    <3>1. [status |-> "NONE", fresh |-> FALSE] \in [status : CredentialStatus, fresh : BOOLEAN]
      BY DEF CredentialStatus
    <3>2. QED
      BY <2>1, <3>1
  <2>5. /\ DOMAIN work = Session
        /\ \A s \in Session : work[s] = Nothing
        /\ locks \in [Session -> SUBSET Row] /\ arrived \in [Account -> Nat]
        /\ DOMAIN db = Row
    BY DEF Init
  <2>6. QED
    BY <2>2, <2>3, <2>4, <2>5 DEF StoreTyped
<1>3. 0 \in Position
  BY <1>1 DEF Init, Position
<1>4. ControlTyped
  BY <1>1, <1>3 DEF Init, ControlTyped, Labels, CredentialStatus
<1>5. ArrivedBounded
  BY ChangesAssumption DEF Init, ArrivedBounded
<1>6. \A s \in Session : ControlInv(s)
  BY <1>1 DEF Init, ControlInv, Storing, Rounds
<1>7. QED
  BY <1>2, <1>4, <1>5, <1>6 DEF TypeInv, TypeOK

\* Only session s moves.
Alone(s) ==
  \A o \in Session \ {s} :
    /\ pc'[o] = pc[o] /\ account'[o] = account[o] /\ begun'[o] = begun[o]
    /\ next'[o] = next[o] /\ got'[o] = got[o] /\ item'[o] = item[o]
    /\ work'[o] = work[o] /\ locks'[o] = locks[o]

\* It is enough to look at the session that moves.
LEMMA MoverTyped ==
  ASSUME TypeInv, NEW s \in Session, Alone(s), arrived' = arrived,
         StoreTyped', ControlTyped', ControlInv(s)'
  PROVE  TypeInv'
BY DEF TypeInv, TypeOK, Alone, ControlInv, ArrivedBounded

\* A session that ends holds nothing, and no other one is touched.
LEMMA Ended ==
  ASSUME TypeInv, NEW s \in Session, End(s)
  PROVE  /\ work'[s] = Nothing /\ locks'[s] = {}
         /\ \A o \in Session \ {s} : work'[o] = work[o] /\ locks'[o] = locks[o]
         /\ DOMAIN work' = Session /\ locks' \in [Session -> SUBSET Row]
         /\ DOMAIN Nothing = {}
BY DEF End, TypeInv, TypeOK, StoreTyped, Nothing

\* The database after a session has ended.
LEMMA StoreEnded ==
  ASSUME TypeInv, NEW s \in Session, End(s), arrived' = arrived,
         DOMAIN db' = Row,
         \A o \in Account :
           /\ db'[CredentialRow(o)] \in [status : CredentialStatus, fresh : BOOLEAN]
           /\ db'[CursorRow(o)] \in {NoCursor} \cup (0..arrived[o]),
         \A m \in Message : db'[MessageRow(m)] \in BOOLEAN
  PROVE  StoreTyped'
<1>1. \A o \in Session :
        /\ DOMAIN work'[o] \subseteq {MessageRow(m) : m \in Message}
        /\ \A row \in DOMAIN work'[o] : work'[o][row] = TRUE
  BY Ended DEF TypeInv, TypeOK, StoreTyped
<1>2. QED
  BY <1>1, Ended DEF StoreTyped, TypeInv, TypeOK

\* A session that answers is at rest.
LEMMA Answered ==
  ASSUME TypeInv, NEW s \in Session, End(s), Answer(s), arrived' = arrived
  PROVE  /\ Alone(s) /\ ControlTyped' /\ ControlInv(s)'
         /\ pc'[s] = "idle" /\ got'[s] = <<>>
<1>1. SomeAccount \in Account /\ 0 \in Position /\ Position' = Position
  BY Positions DEF Position
<1>2. ControlTyped'
  BY <1>1 DEF Answer, GoTo, TypeInv, TypeOK, ControlTyped, Labels, CredentialStatus
<1>3. /\ pc'[s] = "idle" /\ account'[s] = SomeAccount /\ begun'[s] = 0 /\ next'[s] = 0
      /\ got'[s] = <<>> /\ item'[s] = 1
  BY DEF Answer, GoTo, TypeInv, TypeOK, ControlTyped
<1>4. Alone(s)
  BY Ended DEF Answer, GoTo, Alone, TypeInv, TypeOK, ControlTyped
<1>5. arrived[SomeAccount] \in Nat
  BY <1>1 DEF TypeInv, TypeOK, StoreTyped
<1>6. ControlInv(s)'
  BY <1>3, <1>5 DEF ControlInv, Storing, Rounds
<1>7. QED
  BY <1>2, <1>3, <1>4, <1>6

\* A request that fails leaves the committed rows alone.
LEMMA FailTyped ==
  ASSUME TypeInv, NEW s \in Session, Fail(s)
  PROVE  TypeInv'
<1>1. End(s) /\ Answer(s) /\ arrived' = arrived /\ db' = db
  BY DEF Fail, Rollback
<1>2. StoreTyped'
  BY <1>1, StoreEnded DEF TypeInv, TypeOK, StoreTyped
<1>3. QED
  BY <1>1, <1>2, Answered, MoverTyped

\* A session that writes one credential.
LEMMA PublishTyped ==
  ASSUME TypeInv, NEW s \in Session, NEW o \in Account,
         NEW value \in [status : CredentialStatus, fresh : BOOLEAN],
         Publish(s, CredentialRow(o), value), arrived' = arrived
  PROVE  /\ StoreTyped' /\ End(s)
         /\ db'[CredentialRow(o)] = value
         /\ \A row \in Row : row # CredentialRow(o) => db'[row] = db[row]
<1>1. End(s) /\ DOMAIN db' = Row
  BY DEF Publish, TypeInv, TypeOK, StoreTyped
<1>2. /\ db'[CredentialRow(o)] = value
      /\ \A row \in Row : row # CredentialRow(o) => db'[row] = db[row]
  BY RowTypes DEF Publish, TypeInv, TypeOK, StoreTyped
<1>3. /\ \A p \in Account :
           /\ db'[CredentialRow(p)] \in [status : CredentialStatus, fresh : BOOLEAN]
           /\ db'[CursorRow(p)] \in {NoCursor} \cup (0..arrived[p])
      /\ \A m \in Message : db'[MessageRow(m)] \in BOOLEAN
  <2>1. \A p \in Account :
          /\ db[CredentialRow(p)] \in [status : CredentialStatus, fresh : BOOLEAN]
          /\ db[CursorRow(p)] \in {NoCursor} \cup (0..arrived[p])
    BY DEF TypeInv, TypeOK, StoreTyped
  <2>2. \A m \in Message : db[MessageRow(m)] \in BOOLEAN
    BY DEF TypeInv, TypeOK, StoreTyped
  <2>3. \A p \in Account : /\ CursorRow(p) \in Row /\ CursorRow(p) # CredentialRow(o)
                           /\ CredentialRow(p) \in Row
    BY RowTypes
  <2>4. \A m \in Message : MessageRow(m) \in Row /\ MessageRow(m) # CredentialRow(o)
    BY RowTypes
  <2>5. ASSUME NEW p \in Account
        PROVE  db'[CredentialRow(p)] \in [status : CredentialStatus, fresh : BOOLEAN]
    BY <1>2, <2>1, <2>3
  <2>6. \A p \in Account : db'[CursorRow(p)] = db[CursorRow(p)]
    BY <1>2, <2>3
  <2>7. \A m \in Message : db'[MessageRow(m)] = db[MessageRow(m)]
    BY <1>2, <2>4
  <2>8. QED
    BY <2>1, <2>2, <2>5, <2>6, <2>7
<1>4. QED
  BY <1>1, <1>2, <1>3, StoreEnded

\* Only credentials change.
MailKept ==
  /\ \A o \in Account : db'[CursorRow(o)] = db[CursorRow(o)]
  /\ \A m \in Message : db'[MessageRow(m)] = db[MessageRow(m)]

\* A step of s that ends outside a round and keeps or gives up what s holds.
Outside(s) ==
  /\ Alone(s) /\ MailKept /\ arrived' = arrived
  /\ pc'[s] \notin Rounds /\ got'[s] = <<>>
  /\ \/ work'[s] = Nothing /\ locks'[s] = {}
     \/ work'[s] = work[s] /\ locks'[s] = locks[s] /\ got[s] = <<>>

\* A failure is such a step.
LEMMA FailOutside ==
  ASSUME TypeInv, NEW s \in Session, Fail(s)
  PROVE  TypeInv' /\ Outside(s)
<1>1. End(s) /\ Answer(s) /\ arrived' = arrived /\ db' = db
  BY DEF Fail, Rollback
<1>2. QED
  BY <1>1, FailTyped, Answered, Ended DEF Outside, MailKept, Storing, Rounds

\* So is a move between two steps that read and write credentials.
LEMMA MoveOutside ==
  ASSUME TypeInv, NEW s \in Session, pc[s] \notin Rounds,
         NEW label \in Labels \ Rounds, GoTo(s, label),
         UNCHANGED <<store, arrived, next, got, item, link>>,
         status' = status \/ \E x \in CredentialStatus : status' = [status EXCEPT ![s] = x],
         \/ account' = account /\ begun' = begun
         \/ \E o \in Account, n \in Nat :
              /\ n <= arrived[o]
              /\ account' = [account EXCEPT ![s] = o]
              /\ begun' = [begun EXCEPT ![s] = n]
  PROVE  TypeInv' /\ Outside(s)
<1>1. StoreTyped' /\ Position' = Position
  BY DEF store, TypeInv, TypeOK, StoreTyped, Position
<1>2. Alone(s) /\ MailKept
  BY DEF store, Alone, MailKept, GoTo, TypeInv, TypeOK, ControlTyped
<1>3. /\ pc'[s] = label /\ next'[s] = next[s] /\ got'[s] = got[s] /\ item'[s] = item[s]
      /\ next[s] = 0 /\ got[s] = <<>> /\ item[s] = 1
  BY DEF GoTo, TypeInv, TypeOK, ControlTyped, ControlInv, Rounds
<1>4. begun' \in [Session -> Position] /\ account' \in [Session -> Account]
  <2>1. CASE account' = account /\ begun' = begun
    BY <2>1 DEF TypeInv, TypeOK, ControlTyped
  <2>2. CASE \E o \in Account, n \in Nat :
               /\ n <= arrived[o]
               /\ account' = [account EXCEPT ![s] = o]
               /\ begun' = [begun EXCEPT ![s] = n]
    <3>1. PICK o \in Account, n \in Nat :
            /\ n <= arrived[o]
            /\ account' = [account EXCEPT ![s] = o]
            /\ begun' = [begun EXCEPT ![s] = n]
      BY <2>2
    <3>2. n \in 0..arrived[o]
      BY <3>1 DEF TypeInv, TypeOK, StoreTyped
    <3>3. n \in Position
      BY <3>2, Positions
    <3>4. QED
      BY <3>1, <3>3 DEF TypeInv, TypeOK, ControlTyped
  <2>3. QED
    BY <2>1, <2>2
<1>5. begun'[s] <= arrived[account'[s]]
  BY DEF TypeInv, TypeOK, ControlTyped, ControlInv
<1>6. ControlTyped'
  BY ZenonT(40), <1>1, <1>4 DEF GoTo, TypeInv, TypeOK, ControlTyped
<1>7. arrived[account'[s]] \in Nat
  BY <1>4 DEF TypeInv, TypeOK, StoreTyped
<1>8. ControlInv(s)'
  <2>1. /\ label \notin Rounds /\ label \notin Storing
        /\ label \notin {"find_message", "insert_message", "load_cursor", "store_cursor"}
    BY DEF Rounds, Storing
  <2>2. QED
    BY <1>3, <1>5, <1>7, <2>1 DEF ControlInv
<1>9. QED
  BY <1>1, <1>2, <1>3, <1>6, <1>8, MoverTyped DEF Outside, store

\* And a request that stores a credential.
LEMMA PublishOutside ==
  ASSUME TypeInv, NEW s \in Session, pc[s] \notin Rounds,
         NEW value \in [status : CredentialStatus, fresh : BOOLEAN],
         Publish(s, CredentialRow(account[s]), value), UNCHANGED arrived,
         \/ Answer(s)
         \/ /\ status' = [status EXCEPT ![s] = "NONE"]
            /\ GoTo(s, "read_cursor")
            /\ UNCHANGED <<account, begun, next, got, item, link>>
  PROVE  TypeInv' /\ Outside(s)
<1>1. account[s] \in Account
  BY DEF TypeInv, TypeOK, ControlTyped
<1>2. StoreTyped' /\ End(s) /\ MailKept
  BY <1>1, PublishTyped, RowTypes DEF MailKept
<1>3. CASE Answer(s)
  <2>1. TypeInv'
    BY <1>2, <1>3, Answered, MoverTyped
  <2>2. QED
    BY <1>2, <1>3, <2>1, Answered, Ended DEF Outside, Storing, Rounds
<1>4. CASE /\ status' = [status EXCEPT ![s] = "NONE"]
           /\ GoTo(s, "read_cursor")
           /\ UNCHANGED <<account, begun, next, got, item, link>>
  <2>1. ControlTyped'
    BY <1>4 DEF GoTo, TypeInv, TypeOK, ControlTyped, Labels, CredentialStatus, Position
  <2>2. Alone(s)
    BY <1>2, <1>4, Ended DEF Alone, GoTo, TypeInv, TypeOK, ControlTyped
  <2>3. pc'[s] = "read_cursor" /\ got'[s] = <<>>
    BY <1>4 DEF GoTo, TypeInv, TypeOK, ControlTyped, ControlInv
  <2>4. ControlInv(s)'
    BY <1>4, <2>3 DEF TypeInv, ControlInv, Storing, Rounds
  <2>5. TypeInv'
    BY <1>2, <2>1, <2>2, <2>4, MoverTyped
  <2>6. QED
    BY <1>2, <2>2, <2>3, <2>5, Ended DEF Outside, Storing, Rounds
<1>5. QED
  BY <1>3, <1>4

\* A credential stays one when its status is changed or it is renewed.
LEMMA CredentialTyped ==
  ASSUME TypeInv, NEW s \in Session
  PROVE  LET old == db[CredentialRow(account[s])] IN
         /\ old \in [status : CredentialStatus, fresh : BOOLEAN]
         /\ old.status \in CredentialStatus
         /\ [old EXCEPT !.status = "REAUTH_REQUIRED"] \in [status : CredentialStatus, fresh : BOOLEAN]
         /\ Renewed(s) \in [status : CredentialStatus, fresh : BOOLEAN]
<1> DEFINE old == db[CredentialRow(account[s])]
<1>1. old \in [status : CredentialStatus, fresh : BOOLEAN]
  BY DEF TypeInv, TypeOK, StoreTyped, ControlTyped
<1>2. old.status \in CredentialStatus /\ {"CONNECTED", "REAUTH_REQUIRED"} \subseteq CredentialStatus
  BY <1>1 DEF CredentialStatus
<1>3. Renewed(s) \in [status : CredentialStatus, fresh : BOOLEAN]
  BY <1>2 DEF Renewed
<1>4. [old EXCEPT !.status = "REAUTH_REQUIRED"] \in [status : CredentialStatus, fresh : BOOLEAN]
  BY <1>1, <1>2
<1>5. QED
  BY <1>1, <1>2, <1>3, <1>4

\* Signing in, choosing an account and getting an access token.
LEMMA CredentialSteps ==
  ASSUME TypeInv, NEW s \in Session,
         \/ Begin(s) \/ ConnectLoad(s) \/ ConnectStore(s)
         \/ FindAccount(s) \/ LoadToken(s) \/ Refresh(s)
         \/ RefreshedLoad(s) \/ RefreshedStore(s) \/ RefusedLoad(s) \/ RefusedStore(s)
  PROVE  TypeInv' /\ Outside(s)
<1> DEFINE outside == Labels \ Rounds
<1>1. {"connect_load", "connect_store", "find_account", "load_token", "refresh", "refreshed_load",
       "refreshed_store", "refused_load", "refused_store", "read_cursor", "idle"} \subseteq outside
  BY DEF Labels, Storing, Rounds
<1>2. \A o \in Account : arrived[o] \in Nat
  BY DEF TypeInv, TypeOK, StoreTyped
<1>3. CASE Fail(s)
  BY <1>3, FailOutside
<1> HIDE DEF outside
<1>4. pc[s] \in outside => pc[s] \notin Rounds
  BY DEF outside
<1>5. ASSUME NEW label \in outside, GoTo(s, label), pc[s] \in outside,
             UNCHANGED <<store, arrived, next, got, item, link>>,
             status' = status \/ \E x \in CredentialStatus : status' = [status EXCEPT ![s] = x],
             \/ account' = account /\ begun' = begun
             \/ \E o \in Account, n \in Nat :
                  /\ n <= arrived[o]
                  /\ account' = [account EXCEPT ![s] = o]
                  /\ begun' = [begun EXCEPT ![s] = n]
      PROVE  TypeInv' /\ Outside(s)
  BY <1>4, <1>5, MoveOutside DEF outside
<1>6. CASE Begin(s)
  BY <1>1, <1>2, <1>5, <1>6 DEF Begin
<1>7. CASE ConnectLoad(s)
  BY <1>1, <1>5, <1>7, CredentialTyped DEF ConnectLoad
<1>8. CASE ConnectStore(s)
  BY <1>1, <1>3, <1>4, <1>8, CredentialTyped, PublishOutside DEF ConnectStore
<1>9. CASE FindAccount(s)
  BY <1>1, <1>2, <1>3, <1>5, <1>9 DEF FindAccount
<1>10. CASE LoadToken(s)
  BY <1>1, <1>3, <1>5, <1>10 DEF LoadToken
<1>11. CASE Refresh(s)
  BY <1>1, <1>3, <1>5, <1>11 DEF Refresh
<1>12. CASE RefreshedLoad(s) \/ RefusedLoad(s)
  BY <1>1, <1>5, <1>12, CredentialTyped DEF RefreshedLoad, RefusedLoad, LoadCredential
<1>13. CASE RefreshedStore(s)
  BY <1>1, <1>4, <1>13, CredentialTyped, PublishOutside DEF RefreshedStore
<1>14. CASE RefusedStore(s)
  BY <1>1, <1>4, <1>14, CredentialTyped, PublishOutside DEF RefusedStore
<1>15. QED
  BY <1>6, <1>7, <1>8, <1>9, <1>10, <1>11, <1>12, <1>13, <1>14

\* A step inside a round: only s moves, and nothing is committed.
Inside(s) == Alone(s) /\ db' = db /\ arrived' = arrived /\ account' = account

\* The stored link is taken up.
LEMMA ReadCursorTyped ==
  ASSUME TypeInv, NEW s \in Session, ReadCursor(s)
  PROVE  /\ TypeInv' /\ Inside(s) /\ UNCHANGED <<work, locks, got, item>>
         /\ got[s] = <<>>
         /\ LET stored == db[CursorRow(account[s])]
            IN  next'[s] = IF stored = NoCursor THEN 0 ELSE stored
<1> DEFINE o == account[s]
           stored == db[CursorRow(o)]
           n == IF stored = NoCursor THEN 0 ELSE stored
<1>1. o \in Account /\ stored \in {NoCursor} \cup (0..arrived[o]) /\ arrived[o] \in Nat
  BY DEF TypeInv, TypeOK, StoreTyped, ControlTyped
<1>2. n \in 0..arrived[o] /\ n \in Position
  BY <1>1, Positions
<1>3. next' = [next EXCEPT ![s] = n] /\ GoTo(s, "fetch")
      /\ UNCHANGED <<store, arrived, account, begun, status, got, item, link>>
  BY DEF ReadCursor
<1> HIDE DEF n
<1>4. ControlTyped' /\ StoreTyped'
  BY SMTT(30), <1>2, <1>3 DEF GoTo, store, TypeInv, TypeOK, StoreTyped, ControlTyped, Labels, Position
<1>5. Alone(s) /\ pc'[s] = "fetch" /\ next'[s] = n
  BY <1>3 DEF GoTo, store, Alone, TypeInv, TypeOK, ControlTyped
<1>6. pc[s] = "read_cursor"
  BY DEF ReadCursor
<1>7. got[s] = <<>> /\ item[s] = 1
  BY <1>6 DEF TypeInv, ControlInv, Rounds, Storing
<1>8. ControlInv(s)'
  BY <1>2, <1>3, <1>5, <1>7 DEF TypeInv, ControlInv, Rounds, Storing
<1>9. QED
  BY <1>3, <1>4, <1>5, <1>7, <1>8, MoverTyped DEF Inside, store, n

\* A page is collected.
LEMMA FetchTyped ==
  ASSUME TypeInv, NEW s \in Session, FetchPage(s), ~Fail(s)
  PROVE  /\ TypeInv' /\ Inside(s) /\ UNCHANGED <<work, locks, item>>
         /\ pc[s] = "fetch" /\ pc'[s] \in Rounds
         /\ Deletion \notin ToSet(Page(s))
         /\ got'[s] = Collected(s) /\ next'[s] = PageEnd(s)
<1> DEFINE o == account[s]
           list == Collected(s)
           n == PageEnd(s)
           label == CASE NextLink(s)                -> "fetch"
                      [] ~NextLink(s) /\ list # <<>> -> "find_message"
                      [] OTHER                      -> "load_cursor"
<1>1. /\ pc[s] = "fetch" /\ Deletion \notin ToSet(Page(s))
      /\ got' = [got EXCEPT ![s] = list]
      /\ next' = [next EXCEPT ![s] = n]
      /\ GoTo(s, label)
      /\ UNCHANGED <<store, arrived, account, begun, status, item, link>>
  BY DEF FetchPage
<1>2. list \in Seq(Message) /\ n \in Nat /\ n <= arrived[o]
  BY <1>1, CollectedReads, PageIs
<1>3. o \in Account /\ arrived[o] \in Nat /\ n \in Position
  <2>1. o \in Account /\ arrived[o] \in Nat
    BY DEF TypeInv, TypeOK, StoreTyped, ControlTyped
  <2>2. n \in 0..arrived[o]
    BY <1>2, <2>1
  <2>3. QED
    BY <2>1, <2>2, Positions
<1>4. /\ label \in {"fetch", "find_message", "load_cursor"}
      /\ label = "find_message" => list # <<>>
      /\ label = "load_cursor" => list = <<>>
      /\ label # "fetch" => ~(n < arrived[o])
  <2>1. label # "fetch" => ~NextLink(s)
    OBVIOUS
  <2>2. QED
    BY <2>1 DEF NextLink
<1> HIDE DEF label, list, n
<1>5. ControlTyped' /\ StoreTyped'
  BY SMTT(30), <1>1, <1>2, <1>3, <1>4 DEF GoTo, store, TypeInv, TypeOK, StoreTyped, ControlTyped, Labels, Position
<1>6. Alone(s) /\ pc'[s] = label /\ next'[s] = n /\ got'[s] = list
  BY <1>1 DEF GoTo, store, Alone, TypeInv, TypeOK, ControlTyped
<1>7. item[s] = 1 /\ begun[s] <= arrived[o] /\ begun[s] \in Nat
  BY <1>1, Positions DEF TypeInv, TypeOK, ControlTyped, ControlInv, Storing
<1>8. begun[s] <= n \/ label = "fetch"
  BY <1>2, <1>3, <1>4, <1>7
<1>9. list # <<>> => 1 \in DOMAIN list
  BY <1>2
<1>10. list = <<>> => Len(list) = 0
  OBVIOUS
<1>11. ControlInv(s)'
  <2>1. item'[s] = 1 /\ account'[s] = o /\ arrived' = arrived /\ begun'[s] = begun[s]
    BY <1>1, <1>7
  <2>2. QED
    BY <1>2, <1>4, <1>6, <1>7, <1>8, <1>9, <1>10, <2>1 DEF ControlInv, Rounds, Storing
<1>12. TypeInv'
  BY <1>1, <1>5, <1>6, <1>11, MoverTyped
<1>13. QED
  BY <1>1, <1>4, <1>6, <1>12 DEF Inside, store, Rounds, Storing, list, n

\* The next message of the list, or the cursor after the last.
LEMMA ProceedTyped ==
  ASSUME TypeInv, NEW s \in Session, pc[s] \in {"find_message", "insert_message"},
         Proceed(s), StoreTyped',
         \A o \in Session \ {s} : work'[o] = work[o] /\ locks'[o] = locks[o]
  PROVE  /\ TypeInv' /\ Alone(s) /\ arrived' = arrived
         /\ pc'[s] \in Storing /\ item'[s] = item[s] + 1
         /\ UNCHANGED <<account, got, next>>
<1> DEFINE label == IF item[s] = Len(got[s]) THEN "load_cursor" ELSE "find_message"
<1>1. /\ item' = [item EXCEPT ![s] = @ + 1] /\ GoTo(s, label)
      /\ UNCHANGED <<arrived, account, begun, status, next, got, link>>
  BY DEF Proceed
<1>2. /\ got[s] \in Seq(Message) /\ item[s] \in DOMAIN got[s] /\ item[s] \in Nat
      /\ begun[s] <= next[s]
  BY DEF TypeInv, TypeOK, ControlTyped, ControlInv, Storing
<1>3. /\ label \in {"load_cursor", "find_message"}
      /\ label = "load_cursor" => item[s] = Len(got[s])
      /\ label = "find_message" => item[s] # Len(got[s])
  OBVIOUS
<1> HIDE DEF label
<1>4. ControlTyped'
  BY <1>1, <1>3 DEF GoTo, TypeInv, TypeOK, ControlTyped, Labels, Position
<1>5. Alone(s) /\ pc'[s] = label /\ item'[s] = item[s] + 1
  BY <1>1 DEF GoTo, Alone, TypeInv, TypeOK, ControlTyped
<1>6. label = "find_message" => item[s] + 1 \in DOMAIN got[s]
  BY <1>2, <1>3
<1>7. ControlInv(s)'
  BY <1>1, <1>2, <1>3, <1>5, <1>6 DEF TypeInv, ControlInv, Rounds, Storing
<1>8. TypeInv'
  BY <1>1, <1>4, <1>5, <1>7, MoverTyped
<1>9. QED
  BY <1>1, <1>3, <1>5, <1>8 DEF Storing

\* A message is looked up.
LEMMA FindTyped ==
  ASSUME TypeInv, NEW s \in Session, FindMessage(s)
  PROVE  /\ TypeInv' /\ Inside(s) /\ UNCHANGED <<work, locks, got, next>>
         /\ pc[s] \in Storing /\ pc'[s] \in Storing
         /\ \/ item' = item
            \/ item'[s] = item[s] + 1 /\ Seen(s, MessageRow(got[s][item[s]]))
<1> DEFINE row == MessageRow(got[s][item[s]])
<1>1. pc[s] = "find_message"
  BY DEF FindMessage
<1>2. CASE Seen(s, row) /\ Proceed(s) /\ UNCHANGED store
  <2>1. StoreTyped'
    BY <1>2 DEF Proceed, store, TypeInv, TypeOK, StoreTyped
  <2>2. QED
    BY <1>1, <1>2, <2>1, ProceedTyped DEF Inside, store, Storing
<1>3. CASE /\ ~Seen(s, row)
           /\ GoTo(s, "insert_message")
           /\ UNCHANGED <<store, arrived, account, begun, status, next, got, item, link>>
  <2>1. ControlTyped' /\ StoreTyped'
    BY <1>3 DEF GoTo, store, TypeInv, TypeOK, StoreTyped, ControlTyped, Labels, Position
  <2>2. Alone(s) /\ pc'[s] = "insert_message"
    BY <1>3 DEF GoTo, store, Alone, TypeInv, TypeOK, ControlTyped
  <2>3. ControlInv(s)'
    BY <1>1, <1>3, <2>2 DEF TypeInv, ControlInv, Rounds, Storing
  <2>4. QED
    BY <1>1, <1>3, <2>1, <2>2, <2>3, MoverTyped DEF Inside, store, Storing
<1>4. QED
  BY <1>2, <1>3 DEF FindMessage

\* A message is inserted.
LEMMA InsertTyped ==
  ASSUME TypeInv, NEW s \in Session, InsertMessage(s), ~Fail(s)
  PROVE  LET row == MessageRow(got[s][item[s]]) IN
         /\ TypeInv' /\ Inside(s) /\ UNCHANGED <<got, next>>
         /\ pc[s] \in Storing /\ pc'[s] \in Storing
         /\ item'[s] = item[s] + 1 /\ item[s] \in DOMAIN got[s]
         /\ db[row] = FALSE /\ Free(s, row)
         /\ locks'[s] = locks[s] \cup {row}
         /\ DOMAIN work'[s] = DOMAIN work[s] \cup {row}
<1> DEFINE row == MessageRow(got[s][item[s]])
<1>1. /\ pc[s] = "insert_message" /\ Free(s, row) /\ ~db[row]
      /\ Statement(s, {row}, Write(row, TRUE)) /\ Proceed(s)
  BY DEF InsertMessage
<1>2. got[s] \in Seq(Message) /\ item[s] \in DOMAIN got[s]
  BY <1>1 DEF TypeInv, TypeOK, ControlTyped, ControlInv
<1>3. got[s][item[s]] \in Message
  BY <1>2, ElementTyped
<1>4. row \in Row /\ row \in {MessageRow(m) : m \in Message} /\ db[row] \in BOOLEAN
  BY <1>3, RowTypes DEF TypeInv, TypeOK, StoreTyped
<1> HIDE DEF row
<1>5. /\ locks' = [locks EXCEPT ![s] = @ \cup {row}]
      /\ work' = [work EXCEPT ![s] = Over(Write(row, TRUE), @)]
      /\ db' = db /\ arrived' = arrived
  BY <1>1 DEF Statement, Proceed
<1>6. /\ DOMAIN work' = Session
      /\ work'[s] = Over(Write(row, TRUE), work[s])
      /\ \A o \in Session \ {s} : work'[o] = work[o] /\ locks'[o] = locks[o]
      /\ locks'[s] = locks[s] \cup {row}
      /\ locks' \in [Session -> SUBSET Row]
  BY <1>4, <1>5 DEF TypeInv, TypeOK, StoreTyped
<1>7. /\ DOMAIN work'[s] = DOMAIN work[s] \cup {row}
      /\ \A r \in DOMAIN work[s] \cup {row} :
           work'[s][r] = IF r = row THEN TRUE ELSE work[s][r]
  BY <1>6 DEF Over, Write
<1>8. \A o \in Session :
        /\ DOMAIN work'[o] \subseteq {MessageRow(m) : m \in Message}
        /\ \A r \in DOMAIN work'[o] : work'[o][r] = TRUE
  <2>1. \A o \in Session :
          /\ DOMAIN work[o] \subseteq {MessageRow(m) : m \in Message}
          /\ \A r \in DOMAIN work[o] : work[o][r] = TRUE
    BY DEF TypeInv, TypeOK, StoreTyped
  <2>2. /\ DOMAIN work'[s] \subseteq {MessageRow(m) : m \in Message}
        /\ \A r \in DOMAIN work'[s] : work'[s][r] = TRUE
    BY <1>4, <1>7, <2>1
  <2>3. ASSUME NEW o \in Session \ {s}
        PROVE  /\ DOMAIN work'[o] \subseteq {MessageRow(m) : m \in Message}
               /\ \A r \in DOMAIN work'[o] : work'[o][r] = TRUE
    BY <1>6, <2>1
  <2>4. QED
    BY <2>2, <2>3
<1>9. StoreTyped'
  BY <1>5, <1>6, <1>8 DEF TypeInv, TypeOK, StoreTyped
<1>10. db[row] = FALSE
  BY <1>1, <1>4
<1>11. QED
  BY <1>1, <1>2, <1>5, <1>6, <1>7, <1>9, <1>10, ProceedTyped DEF Inside, Storing, row

\* The cursor is loaded.
LEMMA LoadCursorTyped ==
  ASSUME TypeInv, NEW s \in Session, LoadCursor(s)
  PROVE  /\ TypeInv' /\ Inside(s) /\ UNCHANGED <<work, locks, got, next, item>>
         /\ pc[s] \in Storing /\ pc'[s] \in Storing
<1>1. /\ pc[s] = "load_cursor" /\ GoTo(s, "store_cursor")
      /\ link' = [link EXCEPT ![s] = db[CursorRow(account[s])]]
      /\ UNCHANGED <<store, arrived, account, begun, status, next, got, item>>
  BY DEF LoadCursor
<1>2. db[CursorRow(account[s])] \in Position \cup {NoCursor}
  <2>1. account[s] \in Account
    BY DEF TypeInv, TypeOK, ControlTyped
  <2>2. db[CursorRow(account[s])] \in {NoCursor} \cup (0..arrived[account[s]])
    BY <2>1 DEF TypeInv, TypeOK, StoreTyped
  <2>3. QED
    BY <2>1, <2>2, Positions
<1>3. ControlTyped' /\ StoreTyped'
  BY SMTT(30), <1>1, <1>2 DEF GoTo, store, TypeInv, TypeOK, StoreTyped, ControlTyped, Labels, Position
<1>4. Alone(s) /\ pc'[s] = "store_cursor"
  BY <1>1 DEF GoTo, store, Alone, TypeInv, TypeOK, ControlTyped
<1>5. ControlInv(s)'
  BY <1>1, <1>4 DEF TypeInv, ControlInv, Rounds, Storing
<1>6. QED
  BY <1>1, <1>3, <1>4, <1>5, MoverTyped DEF Inside, store, Storing

\* Messages and cursor are committed.
LEMMA StoreCursorTyped ==
  ASSUME TypeInv, NEW s \in Session, StoreCursor(s)
  PROVE  /\ TypeInv' /\ Alone(s) /\ arrived' = arrived
         /\ pc[s] = "store_cursor" /\ pc'[s] = "idle" /\ got'[s] = <<>>
         /\ work'[s] = Nothing /\ locks'[s] = {}
         /\ \A m \in Message :
              db'[MessageRow(m)] = IF MessageRow(m) \in DOMAIN work[s] THEN TRUE
                                   ELSE db[MessageRow(m)]
         /\ \A o \in Account :
              \/ db'[CursorRow(o)] = db[CursorRow(o)]
              \/ o = account[s] /\ db'[CursorRow(o)] = next[s]
<1> DEFINE row == CursorRow(account[s])
           new == IF next[s] # link[s] THEN Write(row, next[s]) ELSE Nothing
<1>1. /\ pc[s] = "store_cursor" /\ End(s) /\ Answer(s) /\ arrived' = arrived
      /\ db' = Over(new, Over(work[s], db))
  BY DEF StoreCursor
<1>2. account[s] \in Account
  BY DEF TypeInv, TypeOK, ControlTyped
<1>3. row \in Row /\ \A o \in Account : CursorRow(o) = row => o = account[s]
  BY <1>2, RowTypes
<1>4. DOMAIN new \subseteq {row} /\ \A r \in DOMAIN new : new[r] = next[s]
  BY DEF Write, Nothing
<1>5. /\ DOMAIN work[s] \subseteq {MessageRow(m) : m \in Message}
      /\ \A r \in DOMAIN work[s] : work[s][r] = TRUE
      /\ DOMAIN db = Row
  BY DEF TypeInv, TypeOK, StoreTyped
<1> HIDE DEF new
<1>6. DOMAIN work[s] \subseteq Row
  BY <1>5, RowTypes
<1>7. /\ DOMAIN db' = Row
      /\ \A r \in Row : db'[r] = IF r \in DOMAIN new THEN new[r]
                                 ELSE IF r \in DOMAIN work[s] THEN work[s][r] ELSE db[r]
  BY <1>1, <1>3, <1>4, <1>5, <1>6 DEF Over
<1>8. \A o \in Account : db'[CredentialRow(o)] = db[CredentialRow(o)]
  BY <1>4, <1>5, <1>7, RowTypes
<1>9. \A o \in Account : \/ db'[CursorRow(o)] = db[CursorRow(o)]
                         \/ o = account[s] /\ db'[CursorRow(o)] = next[s]
  <2> SUFFICES ASSUME NEW o \in Account
               PROVE  \/ db'[CursorRow(o)] = db[CursorRow(o)]
                      \/ o = account[s] /\ db'[CursorRow(o)] = next[s]
    OBVIOUS
  <2>1. CursorRow(o) \in Row /\ CursorRow(o) \notin DOMAIN work[s]
    BY <1>5, RowTypes
  <2>2. CASE CursorRow(o) \in DOMAIN new
    BY <1>3, <1>4, <1>7, <2>1, <2>2
  <2>3. CASE CursorRow(o) \notin DOMAIN new
    BY <1>7, <2>1, <2>3
  <2>4. QED
    BY <2>2, <2>3
<1>10. \A m \in Message :
         db'[MessageRow(m)] = IF MessageRow(m) \in DOMAIN work[s] THEN TRUE
                              ELSE db[MessageRow(m)]
  <2> SUFFICES ASSUME NEW m \in Message
               PROVE  db'[MessageRow(m)] = IF MessageRow(m) \in DOMAIN work[s] THEN TRUE
                                           ELSE db[MessageRow(m)]
    OBVIOUS
  <2>1. MessageRow(m) \in Row /\ MessageRow(m) \notin DOMAIN new
    BY <1>4, RowTypes
  <2>2. QED
    BY <1>5, <1>7, <2>1
<1>11. next[s] \in 0..arrived[account[s]]
  <2>1. next[s] \in Position /\ next[s] <= arrived[account[s]]
    BY DEF TypeInv, TypeOK, ControlTyped, ControlInv
  <2>2. next[s] \in Nat /\ arrived[account[s]] \in Nat
    BY <1>2, <2>1, Positions DEF TypeInv, TypeOK, StoreTyped
  <2>3. QED
    BY <2>1, <2>2
<1>12. StoreTyped'
  <2>1. \A o \in Account :
          /\ db'[CredentialRow(o)] \in [status : CredentialStatus, fresh : BOOLEAN]
          /\ db'[CursorRow(o)] \in {NoCursor} \cup (0..arrived[o])
    BY <1>8, <1>9, <1>11 DEF TypeInv, TypeOK, StoreTyped
  <2>2. \A m \in Message : db'[MessageRow(m)] \in BOOLEAN
    BY <1>10 DEF TypeInv, TypeOK, StoreTyped
  <2>3. QED
    BY <1>1, <1>7, <2>1, <2>2, StoreEnded
<1>13. QED
  BY <1>1, <1>9, <1>10, <1>12, Answered, Ended, MoverTyped

\* Something happens in an inbox, or a token ages.
LEMMA WorldTyped ==
  ASSUME TypeInv, NEW o \in Account, Arrive(o) \/ Age(o)
  PROVE  /\ TypeInv' /\ MailKept /\ \A p \in Account : arrived'[p] >= arrived[p]
         /\ UNCHANGED <<work, locks, pc, account, begun, next, got, item>>
<1>1. CASE Arrive(o)
  <2>1. /\ arrived[o] < Len(Changes[o])
        /\ arrived' = [arrived EXCEPT ![o] = @ + 1]
        /\ UNCHANGED <<store, pc, account, begun, status, next, got, item, link>>
    BY <1>1 DEF Arrive
  <2>2. /\ arrived' \in [Account -> Nat]
        /\ \A p \in Account : /\ arrived'[p] >= arrived[p] /\ arrived'[p] \in Nat
                              /\ arrived[p] \in Nat
                              /\ arrived'[p] = arrived[p] \/ (p = o /\ arrived'[p] = arrived[p] + 1)
    BY <2>1 DEF TypeInv, TypeOK, StoreTyped
  <2>3. \A p \in Account : 0..arrived[p] \subseteq 0..arrived'[p]
    BY <2>2
  <2>4. Position \subseteq Position'
    BY <2>3 DEF Position
  <2>5. StoreTyped'
    BY <2>1, <2>2, <2>3 DEF store, TypeInv, TypeOK, StoreTyped
  <2>6. ControlTyped'
    BY <2>1, <2>4 DEF TypeInv, TypeOK, ControlTyped
  <2>7. ArrivedBounded'
    BY <2>1, <2>2, ChangesAssumption DEF TypeInv, ArrivedBounded
  <2>8. \A s \in Session : ControlInv(s)'
    <3> SUFFICES ASSUME NEW s \in Session PROVE ControlInv(s)'
      OBVIOUS
    <3>1. account[s] \in Account /\ next[s] \in Nat /\ begun[s] \in Nat
      BY Positions DEF TypeInv, TypeOK, ControlTyped
    <3>2. next[s] <= arrived'[account[s]] /\ begun[s] <= arrived'[account[s]]
      BY <2>2, <3>1 DEF TypeInv, ControlInv
    <3>3. QED
      BY <2>1, <3>2 DEF TypeInv, ControlInv
  <2>9. QED
    BY <2>1, <2>2, <2>5, <2>6, <2>7, <2>8 DEF TypeInv, TypeOK, store, MailKept
<1>2. CASE Age(o)
  <2>1. /\ db' = [db EXCEPT ![CredentialRow(o)].fresh = FALSE]
        /\ UNCHANGED <<work, locks, arrived, pc, account, begun, status, next, got, item, link>>
    BY <1>2 DEF Age
  <2>2. /\ DOMAIN db' = Row
        /\ db'[CredentialRow(o)] = [db[CredentialRow(o)] EXCEPT !.fresh = FALSE]
        /\ \A row \in Row : row # CredentialRow(o) => db'[row] = db[row]
    BY <2>1, RowTypes DEF TypeInv, TypeOK, StoreTyped
  <2>3. MailKept
    BY <2>2, RowTypes DEF MailKept
  <2>4. \A p \in Account : db'[CredentialRow(p)] \in [status : CredentialStatus, fresh : BOOLEAN]
    <3>1. \A p \in Account : db[CredentialRow(p)] \in [status : CredentialStatus, fresh : BOOLEAN]
      BY DEF TypeInv, TypeOK, StoreTyped
    <3>2. [db[CredentialRow(o)] EXCEPT !.fresh = FALSE] \in [status : CredentialStatus, fresh : BOOLEAN]
      BY <3>1
    <3>3. QED
      BY <2>2, <3>1, <3>2, RowTypes
  <2>5. StoreTyped'
    BY <2>1, <2>2, <2>3, <2>4 DEF MailKept, TypeInv, TypeOK, StoreTyped
  <2>6. ControlTyped' /\ ArrivedBounded' /\ \A s \in Session : ControlInv(s)'
    BY <2>1 DEF TypeInv, TypeOK, ControlTyped, ArrivedBounded, ControlInv, Position
  <2>7. \A p \in Account : arrived'[p] >= arrived[p]
    BY <2>1 DEF TypeInv, TypeOK, StoreTyped
  <2>8. QED
    BY <2>1, <2>3, <2>5, <2>6, <2>7 DEF TypeInv, TypeOK
<1>3. QED
  BY <1>1, <1>2

\* One case for each action.
LEMMA TypeStep == TypeInv /\ [Next]_vars => TypeInv'
<1> SUFFICES ASSUME TypeInv, [Next]_vars PROVE TypeInv'
  OBVIOUS
<1>1. CASE UNCHANGED vars
  BY <1>1 DEF vars, TypeInv, TypeOK, StoreTyped, ControlTyped, ArrivedBounded, ControlInv, Position
<1>2. ASSUME NEW o \in Account, Arrive(o) \/ Age(o)
      PROVE  TypeInv'
  BY <1>2, WorldTyped
<1>3. ASSUME NEW s \in Session, Begin(s) \/ Step(s) \/ Crash(s)
      PROVE  TypeInv'
  <2>1. CASE Fail(s) \/ Crash(s) \/ CursorConflict(s)
    BY <2>1, FailTyped DEF Crash, CursorConflict
  <2>2. CASE ReadCursor(s) \/ FetchPage(s) \/ FindMessage(s) \/ InsertMessage(s)
    BY <2>1, <2>2, ReadCursorTyped, FetchTyped, FindTyped, InsertTyped
  <2>3. CASE LoadCursor(s) \/ StoreCursor(s)
    BY <2>3, LoadCursorTyped, StoreCursorTyped
  <2>4. CASE \/ Begin(s) \/ ConnectLoad(s) \/ ConnectStore(s)
             \/ FindAccount(s) \/ LoadToken(s) \/ Refresh(s)
             \/ RefreshedLoad(s) \/ RefreshedStore(s) \/ RefusedLoad(s) \/ RefusedStore(s)
    BY <2>4, CredentialSteps
  <2>5. QED
    BY <1>3, <2>1, <2>2, <2>3, <2>4 DEF Step
<1>4. QED
  BY <1>1, <1>2, <1>3 DEF Next

\* Types and control, in every reachable state.
LEMMA TypeInvariant == Spec => []TypeInv
BY TypeInit, TypeStep, PTL DEF Spec

\* Columns keep their types, and no link is ahead of the inbox, however syncs
\* and sign-ins overlap, fail or crash (v1_features.py, microsoft_tokens.py).
THEOREM TypeCorrect == Spec => []TypeOK
BY TypeInvariant, PTL DEF TypeInv

----------------------------------------------------------------------------
(* Pages, locks and cursors.                                               *)

\* No message is lost.
MessagesStay ==
  \A m \in Message : db[MessageRow(m)] = TRUE => db'[MessageRow(m)] = TRUE

\* What session o has locked is as it was.
Untouched(o) == \A row \in locks[o] : db'[row] = db[row]

\* What is stored stays stored.
LEMMA StoredStays ==
  ASSUME TypeInv, MessagesStay, NEW m \in Message \cup {Deletion}, Stored(m)
  PROVE  Stored(m)'
<1>1. CASE m = Deletion
  BY <1>1 DEF Stored
<1>2. CASE m \in Message
  <2>1. db[MessageRow(m)] \in BOOLEAN /\ m # Deletion
    BY <1>2, ChangesAssumption DEF TypeInv, TypeOK, StoreTyped
  <2>2. db[MessageRow(m)] = TRUE
    BY <2>1 DEF Stored
  <2>3. db'[MessageRow(m)] = TRUE
    BY <1>2, <2>2 DEF MessagesStay
  <2>4. Stored(m)' <=> (m # Deletion => db'[MessageRow(m)])
    BY DEF Stored, MessageRow
  <2>5. QED
    BY <2>3, <2>4
<1>3. QED
  BY <1>1, <1>2

\* And a list of messages that stood for a part of the inbox still does.
LEMMA ReadsStay ==
  ASSUME TypeInv, MessagesStay, NEW o \in Account, NEW n \in Nat, n <= Len(Changes[o]),
         NEW list \in Seq(Message), Reads(o, n, list)
  PROVE  Reads(o, n, list)'
<1>1. \A i \in 1..n : Changes[o][i] \in Message \cup {Deletion}
  <2>1. Changes[o] \in Seq(Message \cup {Deletion})
    BY ChangesAssumption
  <2>2. \A i \in 1..n : i \in DOMAIN Changes[o]
    BY <2>1
  <2>3. QED
    BY <2>1, <2>2, ElementTyped
<1>2. \A i \in 1..n : Changes[o][i] \in ToSet(list) \/ Stored(Changes[o][i])'
  BY <1>1, StoredStays DEF Reads
<1>3. ASSUME NEW k \in DOMAIN list, NEW j \in 1..(k - 1)
      PROVE  Stored(list[j])' \/ Stored(list[k])' \/ Precedes(o, n, list[j], list[k])
  <2>1. j \in DOMAIN list
    OBVIOUS
  <2>2. list[j] \in Message /\ list[k] \in Message
    BY <2>1
  <2>3. Stored(list[j]) \/ Stored(list[k]) \/ Precedes(o, n, list[j], list[k])
    BY DEF Reads
  <2>4. QED
    BY <2>2, <2>3, StoredStays
<1>4. QED
  BY <1>2, <1>3 DEF Reads, Precedes, Stored

\* A session that does not move keeps its invariant while its rows stay.
LEMMA SessionKept ==
  ASSUME TypeInv, SyncInv, MessagesStay, NEW o \in Session, Untouched(o),
         pc'[o] = pc[o], account'[o] = account[o], next'[o] = next[o], got'[o] = got[o],
         item'[o] = item[o], work'[o] = work[o], locks'[o] = locks[o]
  PROVE  SessionInv(o)'
<1>1. SessionInv(o)
  BY DEF SyncInv
<1>2. /\ account[o] \in Account /\ next[o] \in Nat /\ next[o] <= Len(Changes[account[o]])
      /\ got[o] \in Seq(Message)
  <2>1. account[o] \in Account /\ next[o] \in Nat /\ got[o] \in Seq(Message)
    BY Positions DEF TypeInv, TypeOK, ControlTyped
  <2>2. /\ next[o] <= arrived[account[o]] /\ arrived[account[o]] <= Len(Changes[account[o]])
        /\ arrived[account[o]] \in Nat /\ Changes[account[o]] \in Seq(Message \cup {Deletion})
    BY <2>1, ChangesAssumption DEF TypeInv, TypeOK, StoreTyped, ControlInv, ArrivedBounded
  <2>3. QED
    BY <2>1, <2>2
<1>3. pc'[o] \in Rounds => Reads(account[o], next[o], got[o])'
  <2> SUFFICES ASSUME pc'[o] \in Rounds PROVE Reads(account[o], next[o], got[o])'
    OBVIOUS
  <2>1. PICK p \in Account, n \in Nat, list \in Seq(Message) :
          /\ p = account[o] /\ n = next[o] /\ list = got[o]
          /\ n <= Len(Changes[p])
    BY <1>2
  <2>2. Reads(p, n, list)
    BY <1>1, <2>1 DEF SessionInv
  <2>3. Reads(p, n, list)'
    BY <2>1, <2>2, ReadsStay
  <2>4. QED
    BY <2>1, <2>3
<1>4. ASSUME NEW k \in DOMAIN got'[o], k < item'[o]
      PROVE  (Seen(o, MessageRow(got[o][k])))' = TRUE
  <2>1. k \in DOMAIN got[o] /\ k < item[o] /\ got[o][k] \in Message
    BY <1>2, <1>4, ElementTyped
  <2>2. Seen(o, MessageRow(got[o][k])) = TRUE
    BY <1>1, <2>1 DEF SessionInv
  <2>3. PICK m \in Message : m = got[o][k] /\ m = got'[o][k]
    BY <2>1
  <2>4. Seen(o, MessageRow(m)) = TRUE
    BY <2>2, <2>3
  <2>5. (Seen(o, MessageRow(m)))' = TRUE
    BY <2>4 DEF Seen, MessagesStay, MessageRow
  <2>6. QED
    BY <2>3, <2>5
<1>5. \A row \in locks'[o] : db'[row] = FALSE /\ \E k : Dealt(o, k)' /\ row = MessageRow(got'[o][k])
  BY <1>1 DEF SessionInv, Untouched, Dealt
<1>6. QED
  BY <1>1, <1>3, <1>4, <1>5 DEF SessionInv, MessageRow

\* It is enough to look at the session that moves and at the cursors.
LEMMA MoverKeeps ==
  ASSUME TypeInv, SyncInv, MessagesStay, NEW s \in Session, Alone(s),
         \A o \in Session \ {s} : Untouched(o),
         \A row \in locks'[s] : row \in locks[s] \/ Free(s, row),
         SessionInv(s)', CursorCovered'
  PROVE  SyncInv'
<1>1. \A o \in Session : SessionInv(o)'
  BY SessionKept DEF Alone
<1>2. LocksExclusive'
  BY DEF LocksExclusive, SyncInv, Alone, Free
<1>3. QED
  BY <1>1, <1>2 DEF SyncInv

\* Cursors that stay are still behind stored messages.
LEMMA CursorsKept ==
  ASSUME TypeInv, CursorCovered, MessagesStay, NEW o \in Account,
         db'[CursorRow(o)] = db[CursorRow(o)]
  PROVE  \A i \in 1..db'[CursorRow(o)] : Stored(Changes[o][i])'
<1> SUFFICES ASSUME NEW i \in 1..db'[CursorRow(o)] PROVE Stored(Changes[o][i])'
  OBVIOUS
<1>1. /\ db[CursorRow(o)] \in {NoCursor} \cup (0..arrived[o])
      /\ arrived[o] \in Nat /\ arrived[o] <= Len(Changes[o])
      /\ Changes[o] \in Seq(Message \cup {Deletion})
  BY ChangesAssumption DEF TypeInv, TypeOK, StoreTyped, ArrivedBounded
<1>2. i \in DOMAIN Changes[o]
  BY <1>1 DEF NoCursor
<1>3. Stored(Changes[o][i])
  BY DEF CursorCovered
<1>4. Changes[o][i] \in Message \cup {Deletion}
  BY <1>1, <1>2, ElementTyped
<1>5. QED
  BY <1>3, <1>4, StoredStays

\* A step that leaves cursors and messages alone.
LEMMA MailSafe ==
  ASSUME TypeInv, SyncInv, MailKept
  PROVE  MessagesStay /\ CursorCovered' /\ \A o \in Session : Untouched(o)
<1>1. MessagesStay
  BY DEF MailKept, MessagesStay
<1>2. CursorCovered'
  BY <1>1, CursorsKept DEF MailKept, CursorCovered, SyncInv, CursorRow
<1>3. ASSUME NEW o \in Session, NEW row \in locks[o]
      PROVE  db'[row] = db[row]
  <2>1. PICK k : Dealt(o, k) /\ row = MessageRow(got[o][k])
    BY <1>3 DEF SyncInv, SessionInv
  <2>2. got[o] \in Seq(Message) /\ k \in DOMAIN got[o]
    BY <2>1 DEF Dealt, TypeInv, TypeOK, ControlTyped
  <2>3. QED
    BY <2>1, <2>2, ElementTyped DEF MailKept
<1>4. QED
  BY <1>1, <1>2, <1>3 DEF Untouched

\* Steps outside a round.
LEMMA OutsideKeeps ==
  ASSUME TypeInv, SyncInv, NEW s \in Session, Outside(s)
  PROVE  SyncInv'
<1>1. SessionInv(s)
  BY DEF SyncInv
<1>2. DOMAIN Nothing = {}
  BY DEF Nothing
<1>3. DOMAIN work'[s] \subseteq locks'[s] /\ locks'[s] = {}
  BY <1>1, <1>2 DEF Outside, SessionInv, Dealt
<1>4. SessionInv(s)'
  BY <1>3 DEF Outside, SessionInv
<1>5. QED
  BY <1>3, <1>4, MailSafe, MoverKeeps DEF Outside

\* A session of which nothing has been dealt with holds nothing.
LEMMA NothingHeld ==
  ASSUME SyncInv, NEW s \in Session, TypeInv, pc[s] \notin Storing
  PROVE  locks[s] = {} /\ DOMAIN work[s] = {}
<1>1. item[s] = 1 /\ got[s] \in Seq(Message)
  BY DEF TypeInv, TypeOK, ControlTyped, ControlInv
<1>2. ~ \E k : Dealt(s, k)
  BY <1>1 DEF Dealt
<1>3. QED
  BY <1>2 DEF SyncInv, SessionInv

\* Steps inside a round that commit nothing, for the session that moves.
LEMMA InsideKeeps ==
  ASSUME TypeInv, SyncInv, NEW s \in Session, Inside(s),
         \A row \in locks'[s] : row \in locks[s] \/ Free(s, row),
         SessionInv(s)'
  PROVE  SyncInv'
<1>1. MailKept
  BY DEF Inside, MailKept
<1>2. QED
  BY <1>1, MailSafe, MoverKeeps DEF Inside

\* The stored link: what is before it needs no list.
LEMMA ReadCursorKeeps ==
  ASSUME TypeInv, SyncInv, NEW s \in Session, ReadCursor(s)
  PROVE  SyncInv'
<1>1. /\ Inside(s) /\ UNCHANGED <<work, locks, got, item>>
      /\ got[s] = <<>>
      /\ LET stored == db[CursorRow(account[s])]
         IN  next'[s] = IF stored = NoCursor THEN 0 ELSE stored
  BY ReadCursorTyped
<1>2. pc[s] \notin Storing
  BY DEF ReadCursor, Storing
<1>3. PICK o \in Account : o = account[s] /\ o = account'[s]
  BY <1>1 DEF Inside, TypeInv, TypeOK, ControlTyped
<1>4. db' = db
  BY <1>1 DEF Inside
<1>5. \A i \in 1..next'[s] : Stored(Changes[o][i])
  BY <1>1, <1>3 DEF SyncInv, CursorCovered
<1>6. \A i \in 1..next'[s] : Stored(Changes[o][i])'
  BY <1>4, <1>5 DEF Stored, MessageRow
<1>7. DOMAIN got'[s] = {}
  BY <1>1
<1>8. Reads(account[s], next[s], got[s])'
  BY <1>3, <1>6, <1>7 DEF Reads
<1>9. SessionInv(s)'
  BY <1>1, <1>2, <1>7, <1>8, NothingHeld DEF SessionInv
<1>10. QED
  BY <1>1, <1>9, InsideKeeps

\* A page: the list stands for more of the inbox.
LEMMA FetchKeeps ==
  ASSUME TypeInv, SyncInv, NEW s \in Session, FetchPage(s), ~Fail(s)
  PROVE  SyncInv'
<1>1. /\ Inside(s) /\ UNCHANGED <<work, locks, item>>
      /\ pc[s] = "fetch"
      /\ Deletion \notin ToSet(Page(s))
      /\ got'[s] = Collected(s) /\ next'[s] = PageEnd(s)
  BY FetchTyped
<1>2. Reads(account[s], next[s], got[s]) /\ pc[s] \notin Storing
  BY <1>1 DEF SyncInv, SessionInv, Storing, Rounds
<1>3. Reads(account[s], PageEnd(s), Collected(s)) /\ Collected(s) \in Seq(Message)
  BY <1>1, <1>2, CollectedReads
<1>4. PICK o, n, list : o = account[s] /\ n = PageEnd(s) /\ list = Collected(s)
  OBVIOUS
<1>5. Reads(o, n, list)
  BY <1>3, <1>4
<1>6. o = account'[s] /\ n = next'[s] /\ list = got'[s] /\ db' = db
  BY <1>1, <1>4 DEF Inside
<1>7. Reads(o, n, list)'
  BY <1>5, <1>6 DEF Reads, Stored, Precedes, MessageRow
<1>8. Reads(account[s], next[s], got[s])'
  BY <1>6, <1>7
<1>9. item'[s] = 1 /\ list \in Seq(Message)
  BY <1>1, <1>2, <1>3, <1>4 DEF TypeInv, ControlInv
<1>10. \A k \in DOMAIN got'[s] : ~(k < item'[s])
  BY <1>6, <1>9
<1>11. SessionInv(s)'
  BY <1>1, <1>2, <1>8, <1>10, NothingHeld DEF SessionInv
<1>12. QED
  BY <1>1, <1>11, InsideKeeps

\* A step of a session that stores: what it read stays.
LEMMA StoringReads ==
  ASSUME TypeInv, SyncInv, NEW s \in Session, Inside(s), pc[s] \in Storing,
         UNCHANGED <<got, next>>
  PROVE  Reads(account[s], next[s], got[s])'
<1>1. Reads(account[s], next[s], got[s])
  BY DEF SyncInv, SessionInv, Rounds
<1>2. PICK o, n, list : /\ o = account[s] /\ n = next[s] /\ list = got[s]
                        /\ o = account'[s] /\ n = next'[s] /\ list = got'[s]
  BY DEF Inside
<1>3. Reads(o, n, list) /\ db' = db
  BY <1>1, <1>2 DEF Inside
<1>4. Reads(o, n, list)'
  BY <1>3 DEF Reads, Stored, Precedes, MessageRow
<1>5. QED
  BY <1>2, <1>4

\* A message is looked up, or the cursor is loaded.
LEMMA FindKeeps ==
  ASSUME TypeInv, SyncInv, NEW s \in Session, FindMessage(s) \/ LoadCursor(s)
  PROVE  SyncInv'
<1>1. /\ Inside(s) /\ UNCHANGED <<work, locks, got, next>>
      /\ pc[s] \in Storing /\ pc'[s] \in Storing
      /\ \/ item' = item
         \/ item'[s] = item[s] + 1 /\ Seen(s, MessageRow(got[s][item[s]]))
  BY FindTyped, LoadCursorTyped
<1>2. SessionInv(s) /\ db' = db
  BY <1>1 DEF SyncInv, Inside
<1>3. Reads(account[s], next[s], got[s])'
  BY <1>1, StoringReads
<1>4. item[s] \in Nat /\ got[s] \in Seq(Message) /\ item'[s] \in {item[s], item[s] + 1}
  BY <1>1 DEF TypeInv, TypeOK, ControlTyped
<1>5. \A row : (Seen(s, row))' = Seen(s, row)
  BY <1>1, <1>2 DEF Seen
<1>6. ASSUME NEW k \in DOMAIN got[s], k < item'[s]
      PROVE  Seen(s, MessageRow(got[s][k])) = TRUE
  <2>1. CASE k < item[s]
    BY <1>2, <2>1 DEF SessionInv
  <2>2. CASE k = item[s] /\ Seen(s, MessageRow(got[s][item[s]]))
    <3>1. PICK m \in Message : m = got[s][k]
      BY <1>4, ElementTyped
    <3>2. Seen(s, MessageRow(m)) \in BOOLEAN
      BY DEF Seen, TypeInv, TypeOK, StoreTyped
    <3>3. Seen(s, MessageRow(m))
      BY <2>2, <3>1
    <3>4. QED
      BY <3>1, <3>2, <3>3
  <2>3. k \in Nat
    BY <1>4
  <2>4. k < item[s] \/ (k = item[s] /\ item'[s] # item[s])
    BY <1>4, <1>6, <2>3
  <2>5. QED
    BY <1>1, <2>1, <2>2, <2>4
<1>7. \A k \in DOMAIN got'[s] : k < item'[s] => (Seen(s, MessageRow(got[s][k])))' = TRUE
  <2> SUFFICES ASSUME NEW k \in DOMAIN got'[s], k < item'[s]
               PROVE  (Seen(s, MessageRow(got[s][k])))' = TRUE
    OBVIOUS
  <2>1. Seen(s, MessageRow(got[s][k])) = TRUE
    BY <1>1, <1>6
  <2>2. (MessageRow(got[s][k]))' = MessageRow(got[s][k])
    BY <1>1 DEF MessageRow
  <2>3. QED
    BY <1>1, <1>2, <2>1, <2>2 DEF Seen
<1>8. \A k : Dealt(s, k) => Dealt(s, k)'
  BY <1>1, <1>4 DEF Dealt
<1>9. \A row \in locks'[s] : db'[row] = FALSE /\ \E k : Dealt(s, k)' /\ row = MessageRow(got'[s][k])
  BY <1>1, <1>2, <1>8 DEF SessionInv
<1>10. SessionInv(s)'
  BY <1>1, <1>2, <1>3, <1>7, <1>9 DEF SessionInv, MessageRow
<1>11. QED
  BY <1>1, <1>10, InsideKeeps

\* A message is inserted: it is seen, and its new row is locked.
LEMMA InsertKeeps ==
  ASSUME TypeInv, SyncInv, NEW s \in Session, InsertMessage(s), ~Fail(s)
  PROVE  SyncInv'
<1> PICK n \in Nat : n = item[s]
  BY DEF TypeInv, TypeOK, ControlTyped
<1> DEFINE row == MessageRow(got[s][n])
<1>1. /\ TypeInv' /\ Inside(s) /\ UNCHANGED <<got, next>>
      /\ pc[s] \in Storing /\ pc'[s] \in Storing
      /\ item'[s] = n + 1 /\ n \in DOMAIN got[s]
      /\ db[row] = FALSE /\ Free(s, row)
      /\ locks'[s] = locks[s] \cup {row}
      /\ DOMAIN work'[s] = DOMAIN work[s] \cup {row}
  BY InsertTyped
<1>2. SessionInv(s) /\ db' = db
  BY <1>1 DEF SyncInv, Inside
<1>3. Reads(account[s], next[s], got[s])'
  BY <1>1, StoringReads
<1>4. n \in Nat /\ got[s] \in Seq(Message)
  BY <1>1 DEF TypeInv, TypeOK, ControlTyped
<1>5. \A r \in DOMAIN work'[s] : work'[s][r] = TRUE
  BY <1>1 DEF TypeInv, TypeOK, StoreTyped
<1>6. ASSUME NEW k \in DOMAIN got'[s], k < item'[s]
      PROVE  (Seen(s, MessageRow(got[s][k])))' = TRUE
  <2>1. k \in DOMAIN got[s] /\ (k < n \/ k = n)
    BY <1>1, <1>4, <1>6
  <2>2. PICK r : r = MessageRow(got[s][k]) /\ r = MessageRow(got'[s][k])
    BY <1>1
  <2>3. CASE r \in DOMAIN work'[s]
    BY <1>5, <2>2, <2>3 DEF Seen, MessageRow
  <2>4. CASE r \notin DOMAIN work'[s]
    <3>1. r \notin DOMAIN work[s] /\ k < n
      BY <1>1, <2>1, <2>2, <2>4
    <3>2. Seen(s, MessageRow(got[s][k])) = TRUE
      BY <1>2, <2>1, <3>1 DEF SessionInv
    <3>3. db[r] = TRUE
      BY <2>2, <3>1, <3>2 DEF Seen
    <3>4. QED
      BY <1>2, <2>2, <2>4, <3>3 DEF Seen, MessageRow
  <2>5. QED
    BY <2>3, <2>4
<1>7. \A k : Dealt(s, k) => Dealt(s, k)'
  BY <1>1, <1>4 DEF Dealt
<1>8. Dealt(s, n)'
  BY <1>1, <1>4 DEF Dealt
<1>9. ASSUME NEW r \in locks'[s]
      PROVE  db'[r] = FALSE /\ \E k : Dealt(s, k)' /\ r = MessageRow(got'[s][k])
  <2>1. CASE r = row
    BY <1>1, <1>2, <1>8, <2>1
  <2>2. CASE r \in locks[s]
    BY <1>1, <1>2, <1>7, <2>2 DEF SessionInv
  <2>3. QED
    BY <1>1, <2>1, <2>2
<1>10. DOMAIN work'[s] \subseteq locks'[s]
  BY <1>1, <1>2 DEF SessionInv
<1>11. SessionInv(s)'
  BY <1>3, <1>6, <1>9, <1>10 DEF SessionInv, MessageRow
<1>12. QED
  BY <1>1, <1>11, InsideKeeps

\* When messages and cursor are committed, everything before the link is stored.
LEMMA StoresRound ==
  ASSUME TypeInv, SyncInv, NEW s \in Session, StoreCursor(s)
  PROVE  /\ MessagesStay
         /\ \A o \in Account : o = account[s] =>
              \A i \in 1..next[s] : Stored(Changes[o][i])'
<1>1. /\ pc[s] = "store_cursor"
      /\ \A m \in Message :
           db'[MessageRow(m)] = IF MessageRow(m) \in DOMAIN work[s] THEN TRUE
                                ELSE db[MessageRow(m)]
  BY StoreCursorTyped
<1>2. MessagesStay
  BY <1>1 DEF MessagesStay
<1>3. SessionInv(s) /\ Reads(account[s], next[s], got[s])
  BY <1>1 DEF SyncInv, SessionInv, Rounds, Storing
<1>4. got[s] \in Seq(Message) /\ item[s] = Len(got[s]) + 1
  BY <1>1 DEF TypeInv, TypeOK, ControlTyped, ControlInv
<1>5. ASSUME NEW k \in DOMAIN got[s]
      PROVE  db'[MessageRow(got[s][k])] = TRUE
  <2>1. k < item[s]
    BY <1>4
  <2>2. Seen(s, MessageRow(got[s][k])) = TRUE
    BY <1>3, <2>1 DEF SessionInv
  <2>3. PICK m \in Message : m = got[s][k]
    BY <1>4, ElementTyped
  <2>4. Seen(s, MessageRow(m)) = TRUE
    BY <2>2, <2>3
  <2>5. db'[MessageRow(m)] = TRUE
    BY <1>1, <2>4 DEF Seen
  <2>6. QED
    BY <2>3, <2>5
<1>6. ASSUME NEW o \in Account, o = account[s], NEW i \in 1..next[s]
      PROVE  Stored(Changes[o][i])'
  <2>1. Changes[o][i] \in ToSet(got[s]) \/ Stored(Changes[o][i])
    BY <1>3, <1>6 DEF Reads
  <2>2. /\ next[s] \in Nat /\ next[s] <= arrived[o] /\ arrived[o] \in Nat
        /\ arrived[o] <= Len(Changes[o]) /\ Changes[o] \in Seq(Message \cup {Deletion})
    BY <1>6, Positions, ChangesAssumption
    DEF TypeInv, TypeOK, StoreTyped, ControlTyped, ControlInv, ArrivedBounded
  <2>3. i \in DOMAIN Changes[o]
    BY <2>2
  <2>4. PICK m \in Message \cup {Deletion} : m = Changes[o][i]
    BY <2>2, <2>3, ElementTyped
  <2>5. CASE m \in ToSet(got[s])
    <3>1. db'[MessageRow(m)] = TRUE
      BY <1>5, <2>5 DEF ToSet
    <3>2. Stored(m)'
      BY <3>1 DEF Stored, MessageRow
    <3>3. QED
      BY <2>4, <3>2
  <2>6. CASE Stored(m)
    <3>1. Stored(m)'
      BY <1>2, <2>6, StoredStays
    <3>2. QED
      BY <2>4, <3>1
  <2>7. QED
    BY <2>1, <2>4, <2>5, <2>6
<1>7. QED
  BY <1>2, <1>6

\* The commit keeps the invariant.
LEMMA StoreCursorKeeps ==
  ASSUME TypeInv, SyncInv, NEW s \in Session, StoreCursor(s)
  PROVE  SyncInv'
<1>1. /\ Alone(s) /\ pc'[s] = "idle" /\ got'[s] = <<>>
      /\ work'[s] = Nothing /\ locks'[s] = {}
      /\ \A m \in Message :
           db'[MessageRow(m)] = IF MessageRow(m) \in DOMAIN work[s] THEN TRUE
                                ELSE db[MessageRow(m)]
      /\ \A o \in Account :
           \/ db'[CursorRow(o)] = db[CursorRow(o)]
           \/ o = account[s] /\ db'[CursorRow(o)] = next[s]
  BY StoreCursorTyped
<1>2. MessagesStay /\ CursorCovered
  BY StoresRound DEF SyncInv
<1>3. ASSUME NEW o \in Account
      PROVE  \A i \in 1..db'[CursorRow(o)] : Stored(Changes[o][i])'
  <2>1. CASE db'[CursorRow(o)] = db[CursorRow(o)]
    BY <1>2, <2>1, CursorsKept
  <2>2. CASE o = account[s] /\ db'[CursorRow(o)] = next[s]
    BY <2>2, StoresRound
  <2>3. QED
    BY <1>1, <2>1, <2>2
<1>4. CursorCovered'
  BY <1>3 DEF CursorCovered, CursorRow
<1>5. ASSUME NEW o \in Session \ {s}, NEW row \in locks[o]
      PROVE  db'[row] = db[row]
  <2>1. row \notin DOMAIN work[s]
    BY <1>5 DEF SyncInv, SessionInv, LocksExclusive
  <2>2. PICK k : Dealt(o, k) /\ row = MessageRow(got[o][k])
    BY <1>5 DEF SyncInv, SessionInv
  <2>3. got[o] \in Seq(Message) /\ k \in DOMAIN got[o]
    BY <2>2 DEF Dealt, TypeInv, TypeOK, ControlTyped
  <2>4. PICK m \in Message : row = MessageRow(m)
    BY <2>2, <2>3, ElementTyped
  <2>5. QED
    BY <1>1, <2>1, <2>4
<1>6. DOMAIN Nothing = {} /\ DOMAIN got'[s] = {}
  BY <1>1 DEF Nothing
<1>7. SessionInv(s)'
  BY <1>1, <1>6 DEF SessionInv, Rounds, Storing
<1>8. QED
  BY <1>1, <1>2, <1>4, <1>5, <1>7, MoverKeeps DEF Untouched

\* No session has begun and no cursor is stored.
LEMMA SyncInit == Init => SyncInv
<1> SUFFICES ASSUME Init PROVE SyncInv
  OBVIOUS
<1>1. \A o \in Account : db[CursorRow(o)] = NoCursor
  BY RowTypes DEF Init, InitialValue, CursorRow
<1>2. CursorCovered
  BY <1>1 DEF CursorCovered, NoCursor
<1>3. LocksExclusive
  BY DEF Init, LocksExclusive
<1>4. \A s \in Session : pc[s] = "idle" /\ got[s] = <<>> /\ work[s] = Nothing /\ locks[s] = {}
  BY DEF Init
<1>5. DOMAIN Nothing = {}
  BY DEF Nothing
<1>6. \A s \in Session : SessionInv(s)
  BY <1>4, <1>5 DEF SessionInv, Rounds, Storing
<1>7. QED
  BY <1>2, <1>3, <1>6 DEF SyncInv

\* One case for each action.
LEMMA SyncStep == TypeInv /\ SyncInv /\ [Next]_vars => SyncInv'
<1> SUFFICES ASSUME TypeInv, SyncInv, [Next]_vars PROVE SyncInv'
  OBVIOUS
<1>1. ASSUME MailKept, UNCHANGED <<work, locks, pc, account, next, got, item>>
      PROVE  SyncInv'
  <2>1. MessagesStay /\ CursorCovered' /\ \A o \in Session : Untouched(o)
    BY <1>1, MailSafe
  <2>2. \A o \in Session : SessionInv(o)'
    BY <1>1, <2>1, SessionKept
  <2>3. LocksExclusive'
    BY <1>1 DEF SyncInv, LocksExclusive
  <2>4. QED
    BY <2>1, <2>2, <2>3 DEF SyncInv
<1>2. CASE UNCHANGED vars
  BY <1>1, <1>2 DEF vars, MailKept
<1>3. ASSUME NEW o \in Account, Arrive(o) \/ Age(o)
      PROVE  SyncInv'
  BY <1>1, <1>3, WorldTyped
<1>4. ASSUME NEW s \in Session, Begin(s) \/ Step(s) \/ Crash(s)
      PROVE  SyncInv'
  <2>1. CASE Fail(s) \/ Crash(s) \/ CursorConflict(s)
    BY <2>1, FailOutside, OutsideKeeps DEF Crash, CursorConflict
  <2>2. CASE ReadCursor(s) \/ FetchPage(s)
    BY <2>1, <2>2, ReadCursorKeeps, FetchKeeps
  <2>3. CASE FindMessage(s) \/ InsertMessage(s)
    BY <2>1, <2>3, FindKeeps, InsertKeeps
  <2>4. CASE LoadCursor(s) \/ StoreCursor(s)
    BY <2>4, FindKeeps, StoreCursorKeeps
  <2>5. CASE \/ Begin(s) \/ ConnectLoad(s) \/ ConnectStore(s)
             \/ FindAccount(s) \/ LoadToken(s) \/ Refresh(s)
             \/ RefreshedLoad(s) \/ RefreshedStore(s) \/ RefusedLoad(s) \/ RefusedStore(s)
    BY <2>5, CredentialSteps, OutsideKeeps
  <2>6. QED
    BY <1>4, <2>1, <2>2, <2>3, <2>4, <2>5 DEF Step
<1>5. QED
  BY <1>2, <1>3, <1>4 DEF Next

\* What syncs have read and hold, in every reachable state.
LEMMA SyncInvariant == Spec => []SyncInv
BY SyncInit, TypeInvariant, SyncStep, PTL DEF Spec

\* No message is skipped: everything before the stored cursor is stored, however
\* many syncs overlap, whichever of them stores its link last, and wherever one
\* of them fails (v1_features.py outlook_manual_sync).
THEOREM CursorNeverSkips == Spec => []CursorCovered
BY SyncInvariant, PTL DEF SyncInv

\* A sync that reports success has stored all that was in the inbox when it
\* began: it follows the links to the end of the round, and a message it did not
\* insert was committed by somebody else (v1_features.py outlook_manual_sync,
\* v1_connectors.py sync_outlook).
THEOREM SuccessMeansStored == Spec => SyncedMeansStored
<1> DEFINE Synced ==
      \A s \in Session : StoreCursor(s) =>
        \A m \in Message :
          (\E i \in 1..begun[s] : Changes[account[s]][i] = m) => db'[MessageRow(m)]
<1>1. TypeInv /\ SyncInv /\ [Next]_vars => [Synced]_vars
  <2> SUFFICES ASSUME TypeInv, SyncInv, NEW s \in Session, StoreCursor(s),
                      NEW m \in Message, NEW i \in 1..begun[s], Changes[account[s]][i] = m
               PROVE  db'[MessageRow(m)]
    OBVIOUS
  <2>1. pc[s] = "store_cursor"
    BY DEF StoreCursor
  <2>2. account[s] \in Account /\ begun[s] \in Nat /\ next[s] \in Nat /\ begun[s] <= next[s]
    BY <2>1, Positions DEF TypeInv, TypeOK, ControlTyped, ControlInv, Storing
  <2>3. i \in 1..next[s]
    BY <2>2
  <2>4. PICK o \in Account : o = account[s]
    BY <2>2
  <2>5. Stored(Changes[o][i])' /\ Changes[o][i] = m
    BY <2>3, <2>4, StoresRound
  <2>6. Stored(m)' /\ m # Deletion
    BY <2>5, ChangesAssumption
  <2>7. QED
    BY <2>6 DEF Stored, MessageRow
<1>2. QED
  BY <1>1, TypeInvariant, SyncInvariant, PTL DEF Spec, SyncedMeansStored

----------------------------------------------------------------------------
(* Deadlock.                                                               *)

\* A message is in one inbox.
InboxesApart ==
  \A o, p \in Account : \A i \in DOMAIN Changes[o], j \in DOMAIN Changes[p] :
    Changes[o][i] = Changes[p][j] /\ Changes[o][i] # Deletion => o = p

\* Session x waits to insert message m.
Inserts(x, m) == pc[x] = "insert_message" /\ item[x] \in DOMAIN got[x] /\ m = got[x][item[x]]

\* A session that holds the message that another one waits for, and waits for a
\* message that somebody holds, read the first before the second.
LEMMA HolderIsAhead ==
  ASSUME TypeInv, SyncInv, InboxesApart,
         NEW x \in Session, NEW y \in Session, NEW z \in Session,
         NEW m \in Message, NEW n \in Message,
         Inserts(x, m), MessageRow(m) \in locks[y],
         Inserts(y, n), MessageRow(n) \in locks[z]
  PROVE  /\ account[y] = account[x]
         /\ Precedes(account[x], Len(Changes[account[x]]), m, n)
<1> DEFINE o == account[y]
           p == account[x]
           len == next[y]
<1>1. /\ o \in Account /\ p \in Account /\ len \in Nat /\ next[x] \in Nat
      /\ got[x] \in Seq(Message) /\ got[y] \in Seq(Message) /\ item[y] \in Nat
      /\ \A q \in Account : /\ arrived[q] \in Nat /\ arrived[q] <= Len(Changes[q])
                            /\ Changes[q] \in Seq(Message \cup {Deletion})
      /\ len <= arrived[o] /\ next[x] <= arrived[p]
  BY Positions, ChangesAssumption
  DEF TypeInv, TypeOK, StoreTyped, ControlTyped, ControlInv, ArrivedBounded
<1>2. len <= Len(Changes[o]) /\ next[x] <= Len(Changes[p])
  BY <1>1
<1>3. Reads(o, len, got[y]) /\ Reads(p, next[x], got[x])
  BY ZenonT(40) DEF SyncInv, SessionInv, Inserts, Rounds, Storing
<1>4. PICK j : Dealt(y, j) /\ MessageRow(m) = MessageRow(got[y][j])
  BY DEF SyncInv, SessionInv
<1>5. j \in DOMAIN got[y] /\ j \in 1..(item[y] - 1) /\ got[y][j] = m
  <2>1. j \in DOMAIN got[y] /\ j < item[y] /\ j \in Nat /\ j >= 1
    BY <1>1, <1>4 DEF Dealt
  <2>2. got[y][j] = m
    BY <1>4, RowTypes
  <2>3. QED
    BY <1>1, <2>1, <2>2
<1>6. item[y] \in DOMAIN got[y] /\ got[y][item[y]] = n
  BY DEF Inserts
<1>7. ~Stored(m) /\ ~Stored(n)
  <2>1. db[MessageRow(m)] = FALSE /\ db[MessageRow(n)] = FALSE
    BY DEF SyncInv, SessionInv
  <2>2. m # Deletion /\ n # Deletion
    BY ChangesAssumption
  <2>3. QED
    BY <2>1, <2>2 DEF Stored
<1>8. Precedes(o, len, m, n)
  BY <1>3, <1>5, <1>6, <1>7 DEF Reads
<1> HIDE DEF o, p, len
<1>9. PICK i \in 1..len : Changes[o][i] = m /\ \A h \in 1..i : Changes[o][h] # n
  BY <1>8 DEF Precedes
<1>10. PICK g \in 1..next[x] : Changes[p][g] = m
  BY <1>3 DEF Reads, Inserts
<1>11. i \in DOMAIN Changes[o] /\ g \in DOMAIN Changes[p] /\ m # Deletion
  BY <1>1, <1>2, <1>9, <1>10, ChangesAssumption
<1>12. o = p
  BY <1>1, <1>9, <1>10, <1>11 DEF InboxesApart
<1>13. i \in 1..Len(Changes[o])
  BY <1>1, <1>2, <1>9
<1>14. QED
  BY <1>9, <1>12, <1>13 DEF o, p, Precedes

\* A session that waits for a lock waits to insert a message.
LEMMA WaiterInserts ==
  ASSUME TypeInv, NEW x \in Session, NEW row \in Wants(x)
  PROVE  \E m \in Message : Inserts(x, m) /\ row = MessageRow(m)
<1>1. pc[x] = "insert_message" /\ row = MessageRow(got[x][item[x]])
  BY DEF Wants
<1>2. got[x] \in Seq(Message) /\ item[x] \in DOMAIN got[x]
  BY <1>1 DEF TypeInv, TypeOK, ControlTyped, ControlInv
<1>3. QED
  BY <1>1, <1>2, ElementTyped DEF Inserts

\* Sessions that wait in a circle all hold a message that was read before the
\* one they wait for: none of them can be the one whose message comes last.
LEMMA NoCircle ==
  ASSUME TypeInv, SyncInv, InboxesApart
  PROVE  SyncsNeverDeadlock
<1> SUFFICES ASSUME NEW S \in SUBSET Session, NEW s \in S,
                    \A x \in S : \E y \in S : Wants(x) \cap locks[y] # {}
             PROVE  FALSE
  <2> SUFFICES ASSUME NEW s \in Session, Deadlocked(s, Wants) PROVE FALSE
    BY Zenon DEF SyncsNeverDeadlock
  <2>1. PICK S \in SUBSET Session :
          /\ s \in S
          /\ \A x \in S : \E y \in S : x # y /\ Wants(x) \cap locks[y] # {}
    BY Zenon DEF Deadlocked
  <2>2. QED
    BY <2>1
<1>1. ASSUME NEW x \in S
      PROVE  \E y \in S, m \in Message : Inserts(x, m) /\ MessageRow(m) \in locks[y]
  <2>1. PICK y \in S, row \in Wants(x) : row \in locks[y]
    OBVIOUS
  <2>2. QED
    BY <2>1, WaiterInserts
<1> DEFINE o == account[s]
           len == Len(Changes[o])
           Late == {i \in 0..len : \E y \in S, m \in Message :
                      /\ account[y] = o /\ Inserts(y, m)
                      /\ \A h \in 1..i : Changes[o][h] # m}
<1>2. o \in Account /\ len \in Nat
  BY ChangesAssumption DEF TypeInv, TypeOK, ControlTyped
<1>3. 0 \in Late
  <2>1. PICK m \in Message : Inserts(s, m)
    BY <1>1
  <2>2. 0 \in 0..len /\ \A h \in 1..0 : Changes[o][h] # m
    BY <1>2
  <2>3. QED
    BY <2>1, <2>2
<1>4. PICK i \in Late : \A k \in Late : i >= k
  <2>1. Late \in SUBSET (0..len) /\ Late # {}
    BY <1>3
  <2> HIDE DEF Late
  <2>2. QED
    BY <1>2, <2>1, GreatestNat
<1>5. PICK x \in S, m \in Message :
        /\ account[x] = o /\ Inserts(x, m)
        /\ \A h \in 1..i : Changes[o][h] # m
  BY <1>4
<1>6. PICK y \in S : MessageRow(m) \in locks[y]
  <2>1. PICK y \in S, l \in Message : Inserts(x, l) /\ MessageRow(l) \in locks[y]
    BY <1>1
  <2>2. l = m
    BY <1>5, <2>1 DEF Inserts
  <2>3. QED
    BY <2>1, <2>2
<1>7. PICK z \in S, n \in Message : Inserts(y, n) /\ MessageRow(n) \in locks[z]
  BY <1>1
<1>8. /\ account[y] = o
      /\ \E k \in 1..len : Changes[o][k] = m /\ \A h \in 1..k : Changes[o][h] # n
  <2>1. x \in Session /\ y \in Session /\ z \in Session
    OBVIOUS
  <2> HIDE DEF o, len
  <2>2. /\ account[y] = account[x]
        /\ Precedes(account[x], Len(Changes[account[x]]), m, n)
    <3>1. /\ Inserts(x, m) /\ MessageRow(m) \in locks[y]
          /\ Inserts(y, n) /\ MessageRow(n) \in locks[z]
      BY <1>5, <1>6, <1>7
    <3>2. QED
      BY <2>1, <3>1, HolderIsAhead
  <2>3. QED
    BY <1>5, <2>2 DEF len, Precedes
<1>9. PICK k \in 1..len : Changes[o][k] = m /\ \A h \in 1..k : Changes[o][h] # n
  BY <1>8
<1>10. k \in Late
  BY <1>2, <1>7, <1>8, <1>9
<1>11. i \in 0..len /\ k > i
  <2>1. i \in 0..len /\ k \notin 1..i
    BY <1>4, <1>5, <1>9
  <2>2. QED
    BY <1>2, <2>1
<1>12. QED
  BY <1>2, <1>4, <1>10, <1>11

\* Overlapping syncs never wait for each other in a circle, as long as no message
\* is in two inboxes: each inserts in the order of its inbox, so whoever holds a
\* message is ahead of whoever waits for it (v1_features.py outlook_manual_sync).
THEOREM SyncsWaitInOrder == InboxesApart => (Spec => []SyncsNeverDeadlock)
<1> SUFFICES ASSUME InboxesApart PROVE Spec => []SyncsNeverDeadlock
  OBVIOUS
<1>1. TypeInv /\ SyncInv => SyncsNeverDeadlock
  BY NoCircle
<1>2. QED
  BY <1>1, TypeInvariant, SyncInvariant, PTL
=============================================================================
