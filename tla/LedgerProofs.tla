---------------------------- MODULE LedgerProofs ----------------------------
(***************************************************************************)
(* Proofs about the money of Reconciliation: it implements Ledger, and     *)
(* what Ledger promises about sums and statuses holds in it, for every set *)
(* of transactions, invoices, sessions and requests.                       *)
(***************************************************************************)
EXTENDS ReconciliationProofs, FiniteSetTheorems

----------------------------------------------------------------------------
(* What SumFunction and SumFunctionOnSet of the community modules compute  *)
(* on finite sets.                                                         *)

\* The element that the recursion takes from a set first.
First(s) == CHOOSE x \in s : TRUE

\* The recursive function behind SumFunctionOnSet(f, S), and its equation.
Entry(h, f, s) == IF s = {} THEN 0 ELSE f[First(s)] + h[s \ {First(s)}]
\* h is the table of the partial sums of f over the subsets of S.
IsTable(h, f, S) == h = [s \in SUBSET S |-> Entry(h, f, s)]
\* The table the fold computes.
Table(f, S) == CHOOSE h : IsTable(h, f, S)

\* A sum is the entry of the table for the whole set.
LEMMA SumIsEntry == \A f, S : SumFunctionOnSet(f, S) = Table(f, S)[S]
BY Zenon DEF SumFunctionOnSet, FoldFunctionOnSet, MapThenFoldSet, Table, IsTable, Entry, First

\* A nonempty set has a first element.
LEMMA FirstIn == \A s : s # {} => First(s) \in s
BY DEF First

\* A nonempty set of subsets of a finite set has a minimal member.
LEMMA MinimalSubset ==
  ASSUME NEW S, IsFiniteSet(S), NEW T \in SUBSET SUBSET S, T # {}
  PROVE  \E m \in T : \A y \in T : y \subseteq m => y = m
<1>1. IsWellFoundedOn(StrictSubsetOrdering(S), SUBSET S)
  BY FS_StrictSubsetOrderingWellFounded, FS_FiniteSubsetsOfFinite
<1>2. PICK m \in T : \A y \in T : ~(<<y, m>> \in StrictSubsetOrdering(S))
  BY <1>1, WFMin
<1>3. QED
  BY <1>2 DEF StrictSubsetOrdering

\* Tables of two sets agree on the subsets that both have.
LEMMA TablesAgree ==
  ASSUME NEW f, NEW S, NEW R \in SUBSET S, IsFiniteSet(R),
         NEW g, NEW h, IsTable(g, f, S), IsTable(h, f, R)
  PROVE  \A s \in SUBSET R : g[s] = h[s]
<1> DEFINE T == {s \in SUBSET R : g[s] # h[s]}
<1>1. SUFFICES ASSUME T # {} PROVE FALSE
  OBVIOUS
<1>2. PICK m \in T : \A y \in T : y \subseteq m => y = m
  <2>1. T \in SUBSET SUBSET R
    OBVIOUS
  <2> HIDE DEF T
  <2>2. QED
    BY <1>1, <2>1, MinimalSubset
<1>3. g[m] = Entry(g, f, m) /\ h[m] = Entry(h, f, m)
  BY DEF IsTable
<1>4. CASE m = {}
  BY <1>2, <1>3, <1>4 DEF Entry
<1>5. CASE m # {}
  <2>1. /\ m \ {First(m)} \subseteq m
        /\ m \ {First(m)} # m
    BY <1>5, FirstIn
  <2>2. g[m \ {First(m)}] = h[m \ {First(m)}]
    BY <1>2, <2>1
  <2>3. QED
    BY <1>2, <1>3, <1>5, <2>2 DEF Entry
<1>6. QED
  BY <1>4, <1>5

\* Every finite set has a table.
LEMMA TableExists ==
  ASSUME NEW f, NEW S, IsFiniteSet(S)
  PROVE  IsTable(Table(f, S), f, S)
<1> DEFINE T == {s \in SUBSET S : ~ \E h : IsTable(h, f, s)}
<1>1. SUFFICES ASSUME T # {} PROVE FALSE
  BY DEF Table
<1>2. PICK m \in T : \A y \in T : y \subseteq m => y = m
  <2>1. T \in SUBSET SUBSET S
    OBVIOUS
  <2> HIDE DEF T
  <2>2. QED
    BY <1>1, <2>1, MinimalSubset
<1> DEFINE v(s) == Table(f, s)[s]
           h == [s \in SUBSET m |->
                   IF s = {} THEN 0 ELSE f[First(s)] + v(s \ {First(s)})]
<1>3. \A s \in SUBSET m : s # m => IsTable(Table(f, s), f, s)
  BY <1>2 DEF Table
<1>4. \A s \in SUBSET m : s # m => h[s] = v(s)
  <2> SUFFICES ASSUME NEW s \in SUBSET m, s # m PROVE h[s] = v(s)
    OBVIOUS
  <2>1. v(s) = Entry(Table(f, s), f, s)
    BY <1>3 DEF IsTable
  <2>2. CASE s = {}
    BY <2>1, <2>2 DEF Entry
  <2>3. CASE s # {}
    <3> DEFINE r == s \ {First(s)}
    <3>1. r \in SUBSET s /\ r \in SUBSET m /\ r # m
      BY <2>3, FirstIn
    <3>2. IsTable(Table(f, s), f, s) /\ IsTable(Table(f, r), f, r)
      BY <1>3, <3>1
    <3>3. IsFiniteSet(r)
      BY <1>2, <3>1, FS_Subset
    <3>4. Table(f, s)[r] = v(r)
      BY <3>1, <3>2, <3>3, TablesAgree
    <3>5. QED
      BY <2>1, <2>3, <3>4 DEF Entry
  <2>4. QED
    BY <2>2, <2>3
<1>5. \A s \in SUBSET m : h[s] = Entry(h, f, s)
  <2> SUFFICES ASSUME NEW s \in SUBSET m PROVE h[s] = Entry(h, f, s)
    OBVIOUS
  <2>1. CASE s = {}
    BY <2>1 DEF Entry
  <2>2. CASE s # {}
    <3> DEFINE r == s \ {First(s)}
    <3>1. r \in SUBSET m /\ r # m
      BY <2>2, FirstIn
    <3>2. h[r] = v(r)
      BY <1>4, <3>1
    <3>3. h[s] = f[First(s)] + v(r)
      BY <2>2
    <3> HIDE DEF h
    <3>4. QED
      BY <2>2, <3>2, <3>3 DEF Entry
  <2>3. QED
    BY <2>1, <2>2
<1>6. IsTable(h, f, m)
  BY <1>5 DEF IsTable
<1>7. QED
  BY <1>2, <1>6

-----------------------------------------------------------------------------
\* Nothing sums to zero.
THEOREM SumEmpty == \A f : SumFunctionOnSet(f, {}) = 0
<1> TAKE f
<1>1. IsTable(Table(f, {}), f, {})
  BY TableExists, FS_EmptySet
<1>2. QED
  BY <1>1, SumIsEntry DEF IsTable, Entry

\* The recursion, as an equation about sums.
LEMMA SumFirst ==
  ASSUME NEW f, NEW S, IsFiniteSet(S), S # {}
  PROVE  SumFunctionOnSet(f, S) = f[First(S)] + SumFunctionOnSet(f, S \ {First(S)})
<1> DEFINE r == S \ {First(S)}
<1>1. IsFiniteSet(r) /\ r \in SUBSET S
  BY FS_Subset
<1>2. IsTable(Table(f, S), f, S) /\ IsTable(Table(f, r), f, r)
  BY <1>1, TableExists
<1>3. Table(f, S)[S] = f[First(S)] + Table(f, S)[r]
  BY <1>2 DEF IsTable, Entry
<1>4. Table(f, S)[r] = Table(f, r)[r]
  <2>1. r \in SUBSET r
    OBVIOUS
  <2> HIDE DEF r
  <2>2. QED
    BY <1>1, <1>2, <2>1, TablesAgree
<1>5. QED
  BY <1>3, <1>4, SumIsEntry

\* A sum of integers is one.
THEOREM SumType ==
  ASSUME NEW f, NEW S, IsFiniteSet(S), \A x \in S : f[x] \in Int
  PROVE  SumFunctionOnSet(f, S) \in Int
<1> DEFINE T == {s \in SUBSET S : SumFunctionOnSet(f, s) \notin Int}
<1>1. SUFFICES ASSUME T # {} PROVE FALSE
  OBVIOUS
<1>2. PICK m \in T : \A y \in T : y \subseteq m => y = m
  <2>1. T \in SUBSET SUBSET S
    OBVIOUS
  <2> HIDE DEF T
  <2>2. QED
    BY <1>1, <2>1, MinimalSubset
<1>3. IsFiniteSet(m)
  BY <1>2, FS_Subset
<1>4. m # {}
  BY SMTT(30), <1>2, SumEmpty
<1>5. First(m) \in m
  BY <1>4, FirstIn
<1>6. SumFunctionOnSet(f, m \ {First(m)}) \in Int
  BY <1>2, <1>5
<1>7. QED
  BY <1>2, <1>3, <1>4, <1>5, <1>6, SumFirst

\* Any element may be taken out first.
THEOREM SumRemove ==
  ASSUME NEW f, NEW S, IsFiniteSet(S), \A y \in S : f[y] \in Int, NEW x \in S
  PROVE  SumFunctionOnSet(f, S) = f[x] + SumFunctionOnSet(f, S \ {x})
<1> DEFINE Sum(s) == SumFunctionOnSet(f, s)
           T == {s \in SUBSET S : \E z \in s : Sum(s) # f[z] + Sum(s \ {z})}
<1>1. SUFFICES ASSUME T # {} PROVE FALSE
  OBVIOUS
<1>2. PICK m \in T : \A y \in T : y \subseteq m => y = m
  <2>1. T \in SUBSET SUBSET S
    OBVIOUS
  <2> HIDE DEF T
  <2>2. QED
    BY <1>1, <2>1, MinimalSubset
<1>3. PICK z \in m : Sum(m) # f[z] + Sum(m \ {z})
  BY <1>2
<1> DEFINE c == First(m)
           rest == (m \ {c}) \ {z}
<1>4. IsFiniteSet(m) /\ m \in SUBSET S
  BY <1>2, FS_Subset
<1>5. c \in m /\ Sum(m) = f[c] + Sum(m \ {c})
  BY <1>3, <1>4, FirstIn, SumFirst
<1>6. c # z
  BY <1>3, <1>5
<1>7. Sum(m \ {c}) = f[z] + Sum(rest)
  BY <1>2, <1>5, <1>6
<1>8. Sum(m \ {z}) = f[c] + Sum(rest)
  <2>1. m \ {z} \notin T /\ c \in m \ {z} /\ m \ {z} \in SUBSET S
    BY <1>2, <1>5, <1>6
  <2>2. (m \ {z}) \ {c} = rest
    OBVIOUS
  <2>3. QED
    BY <2>1, <2>2
<1>9. f[c] \in Int /\ f[z] \in Int /\ Sum(rest) \in Int
  <2>1. IsFiniteSet(rest) /\ rest \in SUBSET S
    BY <1>4, FS_Subset
  <2>2. \A y \in rest : f[y] \in Int
    BY <2>1
  <2> HIDE DEF rest
  <2>3. QED
    BY <1>3, <1>4, <1>5, <2>1, <2>2, SumType
<1>10. QED
  BY <1>3, <1>5, <1>7, <1>8, <1>9

\* The sum depends on the values of the summed elements only.
THEOREM SumEqual ==
  ASSUME NEW f, NEW g, NEW S, IsFiniteSet(S), \A x \in S : f[x] = g[x]
  PROVE  SumFunctionOnSet(f, S) = SumFunctionOnSet(g, S)
<1> DEFINE T == {s \in SUBSET S : SumFunctionOnSet(f, s) # SumFunctionOnSet(g, s)}
<1>1. SUFFICES ASSUME T # {} PROVE FALSE
  OBVIOUS
<1>2. PICK m \in T : \A y \in T : y \subseteq m => y = m
  <2>1. T \in SUBSET SUBSET S
    OBVIOUS
  <2> HIDE DEF T
  <2>2. QED
    BY <1>1, <2>1, MinimalSubset
<1>3. IsFiniteSet(m)
  BY <1>2, FS_Subset
<1>4. m # {}
  BY <1>2, SumEmpty
<1>5. First(m) \in m
  BY <1>4, FirstIn
<1>6. SumFunctionOnSet(f, m \ {First(m)}) = SumFunctionOnSet(g, m \ {First(m)})
  BY <1>2, <1>5
<1>7. QED
  BY <1>2, <1>3, <1>4, <1>5, <1>6, SumFirst

\* One value changes: the sum changes by the difference.
THEOREM SumChange ==
  ASSUME NEW f, NEW g, NEW S, IsFiniteSet(S), NEW x \in S,
         \A y \in S : f[y] \in Int /\ g[y] \in Int,
         \A y \in S \ {x} : f[y] = g[y]
  PROVE  SumFunctionOnSet(g, S) = SumFunctionOnSet(f, S) + g[x] - f[x]
<1> DEFINE r == S \ {x}
<1>1. IsFiniteSet(r) /\ r \in SUBSET S
  BY FS_Subset
<1>2. SumFunctionOnSet(f, r) = SumFunctionOnSet(g, r)
  BY <1>1, SumEqual
<1>3. SumFunctionOnSet(f, r) \in Int
  BY <1>1, SumType
<1>4. /\ SumFunctionOnSet(f, S) = f[x] + SumFunctionOnSet(f, r)
      /\ SumFunctionOnSet(g, S) = g[x] + SumFunctionOnSet(g, r)
  BY SumRemove
<1>5. QED
  BY <1>2, <1>3, <1>4

\* A sum of naturals is a natural that no summand exceeds.
THEOREM SumNatural ==
  ASSUME NEW f, NEW S, IsFiniteSet(S), \A x \in S : f[x] \in Nat
  PROVE  /\ SumFunctionOnSet(f, S) \in Nat
         /\ \A x \in S : f[x] <= SumFunctionOnSet(f, S)
<1>1. \A s \in SUBSET S : SumFunctionOnSet(f, s) \in Nat
  <2> DEFINE T == {s \in SUBSET S : SumFunctionOnSet(f, s) \notin Nat}
  <2>1. SUFFICES ASSUME T # {} PROVE FALSE
    OBVIOUS
  <2>2. PICK m \in T : \A y \in T : y \subseteq m => y = m
    <3>1. T \in SUBSET SUBSET S
      OBVIOUS
    <3> HIDE DEF T
    <3>2. QED
      BY <2>1, <3>1, MinimalSubset
  <2>3. IsFiniteSet(m)
    BY <2>2, FS_Subset
  <2>4. m # {}
    <3>1. SumFunctionOnSet(f, {}) \in Nat
      BY SumEmpty
    <3>2. QED
      BY <2>2, <3>1
  <2>5. First(m) \in m
    BY <2>4, FirstIn
  <2>6. SumFunctionOnSet(f, m \ {First(m)}) \in Nat
    BY <2>2, <2>5
  <2>7. QED
    BY <2>2, <2>3, <2>4, <2>5, <2>6, SumFirst
<1>2. \A x \in S : SumFunctionOnSet(f, S) = f[x] + SumFunctionOnSet(f, S \ {x})
  BY SumRemove
<1>3. ASSUME NEW x \in S
      PROVE  f[x] <= SumFunctionOnSet(f, S)
  <2>1. SumFunctionOnSet(f, S \ {x}) \in Nat
    BY <1>1
  <2>2. QED
    BY <1>2, <2>1
<1>4. QED
  BY <1>1, <1>3

\* Zeros sum to zero.
THEOREM SumZero ==
  ASSUME NEW f, NEW S, IsFiniteSet(S), \A x \in S : f[x] = 0
  PROVE  SumFunctionOnSet(f, S) = 0
<1> DEFINE T == {s \in SUBSET S : SumFunctionOnSet(f, s) # 0}
<1>1. SUFFICES ASSUME T # {} PROVE FALSE
  OBVIOUS
<1>2. PICK m \in T : \A y \in T : y \subseteq m => y = m
  <2>1. T \in SUBSET SUBSET S
    OBVIOUS
  <2> HIDE DEF T
  <2>2. QED
    BY <1>1, <2>1, MinimalSubset
<1>3. IsFiniteSet(m)
  BY <1>2, FS_Subset
<1>4. m # {}
  BY <1>2, SumEmpty
<1>5. First(m) \in m
  BY <1>4, FirstIn
<1>6. SumFunctionOnSet(f, m \ {First(m)}) = 0
  BY <1>2, <1>5
<1>7. QED
  BY <1>2, <1>3, <1>4, <1>5, <1>6, SumFirst

\* A set may be summed in two parts.
THEOREM SumSplit ==
  ASSUME NEW f, NEW S, IsFiniteSet(S), \A x \in S : f[x] \in Int, NEW R \in SUBSET S
  PROVE  SumFunctionOnSet(f, S) = SumFunctionOnSet(f, R) + SumFunctionOnSet(f, S \ R)
<1> DEFINE Sum(s) == SumFunctionOnSet(f, s)
           T == {s \in SUBSET R : Sum(S) # Sum(s) + Sum(S \ s)}
<1>1. SUFFICES ASSUME R \in T PROVE FALSE
  OBVIOUS
<1>2. IsFiniteSet(R)
  BY FS_Subset
<1>3. PICK m \in T : \A y \in T : y \subseteq m => y = m
  <2>1. T \in SUBSET SUBSET R /\ T # {}
    BY <1>1
  <2> HIDE DEF T
  <2>2. QED
    BY <1>2, <2>1, MinimalSubset
<1>4. Sum(S) \in Int
  BY SumType
<1>5. m # {}
  <2>1. Sum({}) = 0 /\ S \ {} = S
    BY SumEmpty
  <2>2. Sum(S) = Sum({}) + Sum(S \ {})
    BY <1>4, <2>1
  <2>3. QED
    BY <1>3, <2>2
<1>6. PICK x \in m : TRUE
  BY <1>5
<1> DEFINE r == m \ {x}
<1>7. Sum(S) = Sum(r) + Sum(S \ r)
  BY <1>3, <1>6
<1>8. Sum(m) = f[x] + Sum(r)
  <2>1. IsFiniteSet(m) /\ \A y \in m : f[y] \in Int
    BY <1>2, <1>3, FS_Subset
  <2>2. QED
    BY <1>6, <2>1, SumRemove
<1>9. Sum(S \ r) = f[x] + Sum(S \ m)
  <2>1. IsFiniteSet(S \ r) /\ (\A y \in S \ r : f[y] \in Int) /\ x \in S \ r
    BY <1>3, <1>6, FS_Subset
  <2>2. (S \ r) \ {x} = S \ m
    BY <1>6
  <2>3. QED
    BY <2>1, <2>2, SumRemove
<1>10. f[x] \in Int /\ Sum(r) \in Int /\ Sum(S \ m) \in Int
  <2>1. IsFiniteSet(r) /\ IsFiniteSet(S \ m) /\ r \in SUBSET S
    BY <1>2, <1>3, FS_Subset
  <2>2. (\A y \in r : f[y] \in Int) /\ (\A y \in S \ m : f[y] \in Int)
    BY <2>1
  <2>3. QED
    BY <1>3, <1>6, <2>1, <2>2, SumType
<1>11. QED
  BY <1>3, <1>7, <1>8, <1>9, <1>10

\* The summands may be counted under other names, one for each.
THEOREM SumRenamed ==
  ASSUME NEW f, NEW S, IsFiniteSet(S), \A x \in S : f[x] \in Int,
         NEW g, NEW T, NEW name \in Bijection(S, T),
         \A x \in S : g[name[x]] = f[x]
  PROVE  SumFunctionOnSet(g, T) = SumFunctionOnSet(f, S)
<1> DEFINE names(s) == {name[x] : x \in s}
           R == {s \in SUBSET S : SumFunctionOnSet(g, names(s)) # SumFunctionOnSet(f, s)}
<1>0. /\ \A x, y \in S : name[x] = name[y] => x = y
      /\ names(S) = T
  BY DEF Bijection, Injection, Surjection, IsInjective
<1>1. SUFFICES ASSUME S \in R PROVE FALSE
  BY <1>0
<1>2. PICK m \in R : \A y \in R : y \subseteq m => y = m
  <2>1. R \in SUBSET SUBSET S /\ R # {}
    BY <1>1
  <2> HIDE DEF R
  <2>2. QED
    BY <2>1, MinimalSubset
<1>3. m # {}
  <2>1. names({}) = {}
    OBVIOUS
  <2>2. QED
    BY <1>2, <2>1, SumEmpty
<1>4. PICK x \in m : TRUE
  BY <1>3
<1> DEFINE r == m \ {x}
<1>5. SumFunctionOnSet(g, names(r)) = SumFunctionOnSet(f, r)
  BY <1>2, <1>4
<1>6. SumFunctionOnSet(f, m) = f[x] + SumFunctionOnSet(f, r)
  <2>1. IsFiniteSet(m) /\ \A y \in m : f[y] \in Int
    BY <1>2, FS_Subset
  <2>2. QED
    BY <1>4, <2>1, SumRemove
<1>7. SumFunctionOnSet(g, names(m)) = g[name[x]] + SumFunctionOnSet(g, names(r))
  <2>1. IsFiniteSet(names(m))
    <3>1. IsFiniteSet(m)
      BY <1>2, FS_Subset
    <3> DEFINE h == [y \in m |-> name[y]]
    <3>2. h \in Surjection(m, names(m))
      BY DEF Surjection
    <3> HIDE DEF h, names
    <3>3. QED
      BY <3>1, <3>2, FS_Surjection
  <2>2. \A y \in names(m) : g[y] \in Int
    BY <1>2
  <2>3. names(m) \ {name[x]} = names(r)
    BY <1>0, <1>2, <1>4
  <2>4. name[x] \in names(m)
    BY <1>4
  <2> HIDE DEF names, r
  <2>5. QED
    BY <2>1, <2>2, <2>3, <2>4, SumRemove
<1>8. QED
  BY <1>2, <1>4, <1>5, <1>6, <1>7

----------------------------------------------------------------------------
(* What a session has written at each statement.                           *)

\* The invoices whose allocation the confirmation of s has inserted.
Done(s) == {req[s].items[k].invoice : k \in 1 .. item[s] - 1}

\* The confirmation has paid, of each, what was asked, once, and nothing else
\* has happened to the invoice or to the allocation.
PaymentsWritten(s) ==
  \A k \in 1 .. item[s] - 1 :
    LET x == req[s].items[k]
        row == InvoiceRow(x.invoice)
        allocation == AllocationRow(req[s].txn, x.invoice)
    IN  /\ row \in DOMAIN work[s]
        /\ work[s][row] = [db[row] EXCEPT !.outstanding = @ - x.amount]
        /\ allocation \in DOMAIN work[s]
        /\ work[s][allocation] = [status |-> "CONFIRMED", amount |-> x.amount]
        /\ db[allocation].status = "NONE"

\* Of the cases visited, those with nothing outstanding are written PAID.
CasesWritten(s) ==
  \A i \in Done(s) \ unsettled[s] :
    IF work[s][InvoiceRow(i)].outstanding = 0
    THEN CaseRow(i) \in DOMAIN work[s] /\ work[s][CaseRow(i)] = "PAID"
    ELSE CaseRow(i) \notin DOMAIN work[s]

\* The transaction is marked by its last statement.
MarkWritten(s) ==
  IF pc[s] \in {"settle", "commit"}
  THEN /\ TxnRow(req[s].txn) \in DOMAIN work[s]
       /\ work[s][TxnRow(req[s].txn)] = MarkOf(req[s])
  ELSE TxnRow(req[s].txn) \notin DOMAIN work[s]

\* Nothing else is in its write set.
OnlyPaymentWritten(s) ==
  \A row \in DOMAIN work[s] :
    \/ row = TxnRow(req[s].txn)
    \/ \E i \in Done(s) : row \in {InvoiceRow(i), AllocationRow(req[s].txn, i)}
    \/ \E i \in Done(s) \ unsettled[s] : row = CaseRow(i)

\* The room the transaction had when it was locked is still there.
ConfirmStage(s) ==
  /\ TxnRow(req[s].txn) \in locks[s]
  /\ Fits(req[s])
  /\ unsettled[s] \subseteq Done(s)
  /\ pc[s] \in {"allocate", "mark"} => unsettled[s] = Done(s)
  /\ pc[s] = "commit" => unsettled[s] = {}
  /\ pc[s] # "allocate" => item[s] = Len(req[s].items) + 1

\* A confirmation, from its first payment to its commit.
ConfirmWork(s) ==
  pc[s] \in {"allocate", "mark", "settle", "commit"} /\ req[s].kind = "confirm" =>
    /\ ConfirmStage(s)
    /\ PaymentsWritten(s)
    /\ CasesWritten(s)
    /\ MarkWritten(s)
    /\ OnlyPaymentWritten(s)

\* A reversal, from the statement that gives the money back.
ReverseWork(s) ==
  pc[s] \in {"unmatch", "reopen", "commit"} /\ req[s].kind = "reverse" =>
    LET t == req[s].txn
        i == req[s].invoice
        allocation == AllocationRow(t, i)
    IN  /\ {InvoiceRow(i), allocation} \subseteq DOMAIN work[s]
        /\ db[allocation].status = "CONFIRMED"
        /\ work[s][allocation] = [db[allocation] EXCEPT !.status = "REVERSED"]
        /\ work[s][InvoiceRow(i)]
             = [db[InvoiceRow(i)] EXCEPT !.outstanding = @ + db[allocation].amount]
        /\ DOMAIN work[s] \subseteq {InvoiceRow(i), allocation, TxnRow(t), CaseRow(i)}
        /\ IF pc[s] = "unmatch" THEN TxnRow(t) \notin DOMAIN work[s]
           ELSE TxnRow(t) \in DOMAIN work[s] /\ work[s][TxnRow(t)] = "REVERSED"
        /\ IF pc[s] # "commit" THEN CaseRow(i) \notin DOMAIN work[s]
           ELSE /\ CaseRow(i) \in DOMAIN work[s]
                /\ work[s][CaseRow(i)] = Reopened(db[CaseRow(i)])

\* A re-import writes invoices only.
FileWork(s) ==
  pc[s] \in {"select_row", "update_row", "commit"} /\ req[s].kind = "reimport" =>
    DOMAIN work[s] \subseteq {InvoiceRow(i) : i \in Invoice}

\* A session serves one of the three kinds of request.
SessionWork(s) == ConfirmWork(s) /\ ReverseWork(s) /\ FileWork(s)

\* Inductive: what every session has written so far.
WorkInv == \A s \in Session : SessionWork(s)

----------------------------------------------------------------------------
(* Sessions that do not move.                                              *)

\* What is allocated of a transaction depends on its allocations only.
LEMMA AllocatedKept ==
  ASSUME NEW t, \A i \in Invoice : db'[AllocationRow(t, i)] = db[AllocationRow(t, i)]
  PROVE  AllocatedOf(t)' = AllocatedOf(t)
<1> DEFINE f == [i \in Invoice |-> Confirmed(db[AllocationRow(t, i)])]
<1>1. f' = f
  BY DEF AllocationRow, Confirmed
<1>2. AllocatedOf(t) = SumFunction(f) /\ AllocatedOf(t)' = SumFunction(f')
  BY DEF AllocatedOf
<1> HIDE DEF f
<1>3. QED
  BY <1>1, <1>2

\* So does what is allocated to an invoice.
LEMMA ReceivedKept ==
  ASSUME NEW i, \A t \in Txn : db'[AllocationRow(t, i)] = db[AllocationRow(t, i)]
  PROVE  AllocatedTo(i)' = AllocatedTo(i)
<1> DEFINE f == [t \in Txn |-> Confirmed(db[AllocationRow(t, i)])]
<1>1. f' = f
  BY DEF AllocationRow, Confirmed
<1>2. AllocatedTo(i) = SumFunction(f) /\ AllocatedTo(i)' = SumFunction(f')
  BY DEF AllocatedTo
<1> HIDE DEF f
<1>3. QED
  BY <1>1, <1>2

\* What a confirmation is asked to pay.
LEMMA ItemTypes ==
  ASSUME TypeInv, NEW s \in Session, pc[s] # "idle", req[s].kind = "confirm"
  PROVE  /\ req[s].txn \in Txn
         /\ req[s].items \in Seq(AllocationItem)
         /\ \A k \in DOMAIN req[s].items :
              /\ req[s].items[k].invoice \in Invoice
              /\ req[s].items[k].amount \in Nat \ {0}
         /\ \A j, k \in DOMAIN req[s].items :
              req[s].items[j].invoice = req[s].items[k].invoice => j = k
         /\ req[s].items # <<>>
<1>1. req[s] \in Body /\ WellFormed(req[s])
  BY DEF TypeInv, ControlFollowsRequest
<1>2. req[s].txn \in Txn /\ req[s].items \in Seq(AllocationItem)
  BY <1>1, RequestTypes
<1>3. \A k \in DOMAIN req[s].items :
        req[s].items[k] \in AllocationItem /\ req[s].items[k].amount > 0
  BY <1>1, <1>2, ElementTyped DEF WellFormed
<1>4. QED
  BY <1>1, <1>2, <1>3 DEF WellFormed, AllocationItem

\* A step that touches none of the rows a confirmation has paid leaves them paid.
LEMMA PaymentsKept ==
  ASSUME NEW s \in Session, PaymentsWritten(s), req'[s] = req[s], item'[s] = item[s],
         \A k \in 1 .. item[s] - 1 :
           \A row \in {InvoiceRow(req[s].items[k].invoice),
                      AllocationRow(req[s].txn, req[s].items[k].invoice)} :
             /\ row \in DOMAIN work[s] => row \in DOMAIN work'[s] /\ work'[s][row] = work[s][row]
             /\ db'[row] = db[row]
  PROVE  PaymentsWritten(s)'
<1>1. ASSUME NEW k \in 1 .. item[s] - 1
      PROVE  LET x == req'[s].items[k]
                 row == InvoiceRow(x.invoice)
                 allocation == AllocationRow(req'[s].txn, x.invoice)
             IN  /\ row \in DOMAIN work'[s]
                 /\ work'[s][row] = [db'[row] EXCEPT !.outstanding = @ - x.amount]
                 /\ allocation \in DOMAIN work'[s]
                 /\ work'[s][allocation] = [status |-> "CONFIRMED", amount |-> x.amount]
                 /\ db'[allocation].status = "NONE"
  <2>1. PICK x : x = req[s].items[k]
    OBVIOUS
  <2>2. PICK row, allocation :
          row = InvoiceRow(x.invoice) /\ allocation = AllocationRow(req[s].txn, x.invoice)
    OBVIOUS
  <2>3. /\ row \in DOMAIN work[s]
        /\ work[s][row] = [db[row] EXCEPT !.outstanding = @ - x.amount]
        /\ allocation \in DOMAIN work[s]
        /\ work[s][allocation] = [status |-> "CONFIRMED", amount |-> x.amount]
        /\ db[allocation].status = "NONE"
    BY <2>1, <2>2 DEF PaymentsWritten
  <2>4. /\ row \in DOMAIN work'[s] /\ work'[s][row] = work[s][row] /\ db'[row] = db[row]
        /\ allocation \in DOMAIN work'[s] /\ work'[s][allocation] = work[s][allocation]
        /\ db'[allocation] = db[allocation]
    BY <2>1, <2>2, <2>3
  <2>5. QED
    BY <2>1, <2>2, <2>3, <2>4
<1>2. QED
  BY <1>1 DEF PaymentsWritten, InvoiceRow, AllocationRow

\* What a session has written stays as it was while others work, for the rows
\* it has locked, and the allocations of a transaction it has locked, do.
LEMMA WorkKept ==
  ASSUME TypeInv, LockInv, NEW o \in Session, SessionWork(o),
         pc'[o] = pc[o], req'[o] = req[o], item'[o] = item[o],
         unsettled'[o] = unsettled[o], work'[o] = work[o], locks'[o] = locks[o],
         \A row \in locks[o] : db'[row] = db[row],
         \A t \in Txn, i \in Invoice :
           TxnRow(t) \in locks[o] => db'[AllocationRow(t, i)] = db[AllocationRow(t, i)]
  PROVE  SessionWork(o)'
<1>1. DOMAIN work[o] \subseteq locks[o]
  BY DEF LockInv, WritersExclusive
<1>2. ConfirmWork(o)'
  <2> SUFFICES ASSUME pc[o] \in {"allocate", "mark", "settle", "commit"},
                      req[o].kind = "confirm"
               PROVE  /\ ConfirmStage(o)' /\ PaymentsWritten(o)' /\ CasesWritten(o)'
                      /\ MarkWritten(o)' /\ OnlyPaymentWritten(o)'
    BY DEF ConfirmWork
  <2>1. /\ ConfirmStage(o) /\ PaymentsWritten(o) /\ CasesWritten(o)
        /\ MarkWritten(o) /\ OnlyPaymentWritten(o)
    BY DEF SessionWork, ConfirmWork
  <2>2. req[o].txn \in Txn /\ TxnRow(req[o].txn) \in locks[o]
    BY <2>1, ItemTypes DEF ConfirmStage
  <2>3. PICK t \in Txn : t = req[o].txn
    BY <2>2
  <2>4. AllocatedOf(t)' = AllocatedOf(t)
    BY <2>2, <2>3, AllocatedKept
  <2>5. Fits(req[o])' /\ MarkOf(req[o])' = MarkOf(req[o])
    BY <2>1, <2>3, <2>4 DEF ConfirmStage, Fits, MarkOf
  <2>6. ConfirmStage(o)'
    BY <2>1, <2>5 DEF ConfirmStage, Done, TxnRow
  <2>7. PaymentsWritten(o)'
    <3>1. \A k \in 1 .. item[o] - 1 :
            /\ InvoiceRow(req[o].items[k].invoice) \in locks[o]
            /\ AllocationRow(req[o].txn, req[o].items[k].invoice) \in locks[o]
      BY <1>1, <2>1 DEF PaymentsWritten
    <3>2. QED
      BY <2>1, <3>1, PaymentsKept
  <2>8. CasesWritten(o)'
    BY <2>1 DEF CasesWritten, Done, InvoiceRow, CaseRow
  <2>9. MarkWritten(o)'
    BY <2>1, <2>5 DEF MarkWritten, TxnRow
  <2>10. OnlyPaymentWritten(o)'
    <3>1. Done(o)' = Done(o)
      BY DEF Done
    <3>2. QED
      BY <2>1, <3>1 DEF OnlyPaymentWritten, InvoiceRow, CaseRow, AllocationRow, TxnRow
  <2>11. QED
    BY <2>6, <2>7, <2>8, <2>9, <2>10
<1>3. ReverseWork(o)'
  <2> SUFFICES ASSUME pc[o] \in {"unmatch", "reopen", "commit"}, req[o].kind = "reverse"
               PROVE  ReverseWork(o)'
    BY DEF ReverseWork
  <2>1. /\ db'[InvoiceRow(req[o].invoice)] = db[InvoiceRow(req[o].invoice)]
        /\ db'[AllocationRow(req[o].txn, req[o].invoice)]
             = db[AllocationRow(req[o].txn, req[o].invoice)]
        /\ pc[o] = "commit" => db'[CaseRow(req[o].invoice)] = db[CaseRow(req[o].invoice)]
    BY <1>1 DEF SessionWork, ReverseWork
  <2>2. QED
    BY <2>1 DEF SessionWork, ReverseWork, Reopened, InvoiceRow, CaseRow, AllocationRow, TxnRow
<1>4. FileWork(o)'
  BY DEF SessionWork, FileWork, InvoiceRow
<1>5. QED
  BY <1>2, <1>3, <1>4 DEF SessionWork

\* A step of one session is of no other.
LEMMA OthersUntouched ==
  ASSUME TypeInv, NEW s \in Session, Begin(s) \/ Step(s) \/ Crash(s)
  PROVE  \A o \in Session \ {s} :
           /\ pc'[o] = pc[o] /\ req'[o] = req[o] /\ item'[o] = item[o]
           /\ unsettled'[o] = unsettled[o] /\ work'[o] = work[o] /\ locks'[o] = locks[o]
<1> SUFFICES ASSUME NEW o \in Session \ {s}
             PROVE  /\ pc'[o] = pc[o] /\ req'[o] = req[o] /\ item'[o] = item[o]
                    /\ unsettled'[o] = unsettled[o]
                    /\ work'[o] = work[o] /\ locks'[o] = locks[o]
  OBVIOUS
<1> USE DEF TypeInv, TypeOK, StoreTyped, ControlTyped, GoTo
<1>1. ASSUME Answer(s)
      PROVE  /\ pc'[o] = pc[o] /\ req'[o] = req[o] /\ item'[o] = item[o]
             /\ unsettled'[o] = unsettled[o]
  BY <1>1 DEF Answer
<1>2. ASSUME Commit(s) \/ Rollback(s)
      PROVE  work'[o] = work[o] /\ locks'[o] = locks[o]
  BY <1>2 DEF Commit, Rollback, End
<1>3. ASSUME NEW rows, NEW new, Statement(s, rows, new)
      PROVE  work'[o] = work[o] /\ locks'[o] = locks[o]
  BY <1>3 DEF Statement
<1>4. CASE Fail(s) \/ Crash(s) \/ DeadlockVictim(s) \/ CommitRequest(s)
  BY <1>1, <1>2, <1>4 DEF Fail, Crash, DeadlockVictim, CommitRequest
<1>5. CASE Begin(s)
  BY <1>5 DEF Begin
<1>6. CASE ConfirmLockTransaction(s) /\ ~Fail(s)
  BY <1>3, <1>6 DEF ConfirmLockTransaction
<1>7. CASE ConfirmAllocate(s) /\ ~Fail(s)
  BY <1>3, <1>7 DEF ConfirmAllocate
<1>8. CASE ConfirmMarkTransaction(s)
  BY <1>3, <1>8 DEF ConfirmMarkTransaction
<1>9. CASE ConfirmSettleCase(s)
  <2>1. PICK i \in unsettled[s] :
          /\ unsettled' = [unsettled EXCEPT ![s] = @ \ {i}]
          /\ \/ UNCHANGED store
             \/ Statement(s, {CaseRow(i)}, Write(CaseRow(i), "PAID"))
          /\ pc' = [pc EXCEPT ![s] = IF unsettled[s] = {i} THEN "commit" ELSE "settle"]
    BY <1>9 DEF ConfirmSettleCase
  <2>2. UNCHANGED <<req, item>>
    BY <1>9 DEF ConfirmSettleCase
  <2>3. QED
    BY <1>3, <2>1, <2>2 DEF store
<1>10. CASE (ReverseLockAllocation(s) \/ ReverseGiveBack(s)) /\ ~Fail(s)
  BY <1>3, <1>10 DEF ReverseLockAllocation, ReverseGiveBack
<1>11. CASE ReverseUnmatchTransaction(s) \/ ReverseReopenCase(s)
  BY <1>3, <1>11 DEF ReverseUnmatchTransaction, ReverseReopenCase
<1>12. CASE ReimportSelect(s)
  BY <1>12 DEF ReimportSelect
<1>13. CASE ReimportUpdate(s) /\ ~Fail(s)
  BY <1>3, <1>13 DEF ReimportUpdate, NextRow, store
<1>14. QED
  BY <1>4, <1>5, <1>6, <1>7, <1>8, <1>9, <1>10, <1>11, <1>12, <1>13 DEF Step

\* A session that commits an allocation has locked its transaction.
LEMMA CommitHoldsTransaction ==
  ASSUME TypeInv, LockInv, WorkInv, NEW s \in Session, pc[s] = "commit",
         NEW t \in Txn, NEW i \in Invoice, AllocationRow(t, i) \in DOMAIN work[s]
  PROVE  TxnRow(t) \in locks[s]
<1>1. req[s].kind \in {"confirm", "reverse", "reimport"}
  BY RequestTypes DEF TypeInv, ControlFollowsRequest
<1>2. DOMAIN work[s] \subseteq locks[s]
  BY DEF LockInv, WritersExclusive
<1>3. CASE req[s].kind = "confirm"
  <2>1. TxnRow(req[s].txn) \in locks[s] /\ OnlyPaymentWritten(s)
    BY <1>3 DEF WorkInv, SessionWork, ConfirmWork, ConfirmStage
  <2>2. t = req[s].txn
    BY <2>1, RowsDiffer DEF OnlyPaymentWritten
  <2>3. QED
    BY <2>1, <2>2
<1>4. CASE req[s].kind = "reverse"
  <2>1. /\ TxnRow(req[s].txn) \in DOMAIN work[s]
        /\ DOMAIN work[s] \subseteq
             {InvoiceRow(req[s].invoice), AllocationRow(req[s].txn, req[s].invoice),
              TxnRow(req[s].txn), CaseRow(req[s].invoice)}
    BY <1>4 DEF WorkInv, SessionWork, ReverseWork
  <2>2. t = req[s].txn
    BY <2>1, RowsDiffer
  <2>3. QED
    BY <1>2, <2>1, <2>2
<1>5. CASE req[s].kind = "reimport"
  BY <1>5, RowsDiffer DEF WorkInv, SessionWork, FileWork
<1>6. QED
  BY <1>1, <1>3, <1>4, <1>5

\* A session that does not move keeps its work: the rows it read are locked by it.
LEMMA OthersWork ==
  ASSUME TypeInv, LockInv, WorkInv, NEW s \in Session, Begin(s) \/ Step(s) \/ Crash(s),
         NEW o \in Session \ {s}
  PROVE  SessionWork(o)'
<1>1. db' = db \/ CommitRequest(s)
  BY DEF Step, Begin, ConfirmLockTransaction, ConfirmAllocate,
     ConfirmMarkTransaction, ConfirmSettleCase, ReverseLockAllocation, ReverseGiveBack,
     ReverseUnmatchTransaction, ReverseReopenCase, ReimportSelect, ReimportUpdate,
     DeadlockVictim, Crash, Fail, Rollback, Statement, store
<1>2. \A row \in Row : row \notin DOMAIN work[s] => db'[row] = db[row]
  BY <1>1, EndEffect DEF CommitRequest, TypeInv, TypeOK
<1>3. DOMAIN work[s] \subseteq locks[s] /\ locks[s] \cap locks[o] = {} /\ locks[o] \subseteq Row
  BY DEF LockInv, WritersExclusive, TypeInv, TypeOK, StoreTyped
<1>4. \A row \in locks[o] : db'[row] = db[row]
  BY <1>2, <1>3
<1>5. ASSUME NEW t \in Txn, NEW i \in Invoice, TxnRow(t) \in locks[o]
      PROVE  db'[AllocationRow(t, i)] = db[AllocationRow(t, i)]
  <2>1. CASE db' = db
    BY <2>1
  <2>2. CASE CommitRequest(s)
    <3>1. AllocationRow(t, i) \notin DOMAIN work[s]
      BY <1>3, <1>5, <2>2, CommitHoldsTransaction DEF CommitRequest
    <3>2. QED
      BY <1>2, <3>1, RowTypes
  <2>3. QED
    BY <1>1, <2>1, <2>2
<1>6. SessionWork(o)
  BY DEF WorkInv
<1>7. QED
  BY <1>4, <1>5, <1>6, OthersUntouched, WorkKept

----------------------------------------------------------------------------
(* The session that moves.                                                 *)

\* An answered request has written nothing.
LEMMA AnsweredWork ==
  ASSUME TypeInv, NEW s \in Session, Answer(s)
  PROVE  SessionWork(s)'
BY AnswerEffect DEF TypeInv, TypeOK, SessionWork, ConfirmWork, ReverseWork, FileWork

\* The effect of a statement on the session that executes it.
LEMMA OwnEffect ==
  ASSUME TypeInv, NEW s \in Session, NEW rows, NEW new, Statement(s, rows, new)
  PROVE  /\ db' = db
         /\ locks'[s] = locks[s] \cup rows
         /\ DOMAIN work'[s] = DOMAIN new \cup DOMAIN work[s]
         /\ \A r \in DOMAIN new : work'[s][r] = new[r]
         /\ \A r \in DOMAIN work[s] \ DOMAIN new : work'[s][r] = work[s][r]
<1>1. db' = db /\ locks'[s] = locks[s] \cup rows /\ work'[s] = Over(new, work[s])
  BY ZenonT(40), StatementEffect DEF TypeInv, TypeOK
<1>2. /\ DOMAIN Over(new, work[s]) = DOMAIN new \cup DOMAIN work[s]
      /\ \A r \in DOMAIN new : Over(new, work[s])[r] = new[r]
      /\ \A r \in DOMAIN work[s] \ DOMAIN new : Over(new, work[s])[r] = work[s][r]
  BY OverEffect
<1>3. QED
  BY <1>1, <1>2

\* No allocation changes: the room of a transaction and its mark do not.
LEMMA RoomKept ==
  ASSUME db' = db
  PROVE  \A b : Fits(b)' = Fits(b) /\ MarkOf(b)' = MarkOf(b)
<1> SUFFICES ASSUME NEW b PROVE Fits(b)' = Fits(b) /\ MarkOf(b)' = MarkOf(b)
  OBVIOUS
<1>1. AllocatedOf(b.txn)' = AllocatedOf(b.txn)
  BY AllocatedKept
<1>2. QED
  BY <1>1 DEF Fits, MarkOf

\* After the lock on the transaction the room for the request is checked, nothing is written.
LEMMA LockTransactionWork ==
  ASSUME TypeInv, LockInv, PayingInv, NEW s \in Session, ConfirmLockTransaction(s)
  PROVE  SessionWork(s)'
<1>1. CASE Fail(s)
  BY <1>1, AnsweredWork DEF Fail
<1>2. CASE /\ Fits(req[s])
           /\ Statement(s, {TxnRow(req[s].txn)}, Nothing)
           /\ GoTo(s, "allocate")
           /\ UNCHANGED <<req, item, unsettled, loaded>>
  <2>1. /\ req[s].kind = "confirm" /\ item[s] = 1 /\ unsettled[s] = {}
        /\ DOMAIN work[s] = {}
    BY DEF ConfirmLockTransaction, TypeInv, ControlFollowsRequest, ConfirmLabels,
       LockInv, NothingWrittenYet, PayingInv
  <2>2. DOMAIN Nothing = {}
    BY DEF Nothing
  <2>3. db' = db /\ TxnRow(req[s].txn) \in locks'[s] /\ DOMAIN work'[s] = {}
    BY <1>2, <2>1, <2>2, OwnEffect
  <2>4. pc'[s] = "allocate" /\ req'[s] = req[s] /\ item'[s] = 1 /\ unsettled'[s] = {}
    BY <1>2, <2>1 DEF GoTo, TypeInv, TypeOK, ControlTyped
  <2>5. Done(s)' = {}
    BY <2>4 DEF Done
  <2>6. Fits(req[s])'
    BY <1>2, <2>3, <2>4, RoomKept DEF Fits
  <2>7. ConfirmStage(s)'
    BY <2>3, <2>4, <2>5, <2>6 DEF ConfirmStage, TxnRow
  <2>8. PaymentsWritten(s)' /\ CasesWritten(s)' /\ MarkWritten(s)' /\ OnlyPaymentWritten(s)'
    BY <2>3, <2>4, <2>5 DEF PaymentsWritten, CasesWritten, MarkWritten, OnlyPaymentWritten
  <2>9. QED
    BY <2>1, <2>4, <2>7, <2>8 DEF SessionWork, ConfirmWork, ReverseWork, FileWork
<1>3. QED
  BY <1>1, <1>2 DEF ConfirmLockTransaction

\* The status written is the one of the sum the request leaves.
LEMMA MarkTransactionWork ==
  ASSUME TypeInv, LockInv, WorkInv, NEW s \in Session, ConfirmMarkTransaction(s)
  PROVE  SessionWork(s)'
<1> DEFINE row == TxnRow(req[s].txn)
           new == Write(row, MarkOf(req[s]))
<1>1. /\ req[s].kind = "confirm" /\ pc[s] = "mark" /\ pc'[s] = "settle"
      /\ UNCHANGED <<req, item, unsettled>> /\ Statement(s, {row}, new)
  BY DEF ConfirmMarkTransaction, GoTo, TypeInv, TypeOK, ControlTyped, ControlFollowsRequest,
     ConfirmLabels
<1>2. /\ ConfirmStage(s) /\ PaymentsWritten(s) /\ CasesWritten(s)
      /\ MarkWritten(s) /\ OnlyPaymentWritten(s)
  BY <1>1 DEF WorkInv, SessionWork, ConfirmWork
<1>3. DOMAIN new = {row} /\ new[row] = MarkOf(req[s])
  BY DEF Write
<1>4. /\ db' = db /\ locks'[s] = locks[s] \cup {row}
      /\ DOMAIN work'[s] = {row} \cup DOMAIN work[s]
      /\ work'[s][row] = MarkOf(req[s])
      /\ \A r \in DOMAIN work[s] \ {row} : work'[s][r] = work[s][r]
  <2> HIDE DEF row, new
  <2> QED
    BY <1>1, <1>3, OwnEffect
<1>5. Fits(req[s])' /\ MarkOf(req[s])' = MarkOf(req[s])
  BY <1>1, <1>2, <1>4, RoomKept DEF ConfirmStage, Fits, MarkOf
<1>6. Done(s)' = Done(s) /\ unsettled'[s] = Done(s)
  BY <1>1, <1>2 DEF Done, ConfirmStage
<1>7. ConfirmStage(s)'
  BY <1>1, <1>2, <1>4, <1>5, <1>6 DEF ConfirmStage, TxnRow
<1>8. PaymentsWritten(s)'
  <2>1. \A i : InvoiceRow(i) # row /\ AllocationRow(req[s].txn, i) # row
    BY RowsDiffer
  <2> HIDE DEF row
  <2>2. QED
    <3>1. \A r \in DOMAIN work[s] : r # row => r \in DOMAIN work'[s] /\ work'[s][r] = work[s][r]
      BY <1>4
    <3>2. QED
      BY <1>1, <1>2, <1>4, <2>1, <3>1, PaymentsKept
<1>9. CasesWritten(s)'
  BY <1>6 DEF CasesWritten
<1>10. MarkWritten(s)'
  BY <1>1, <1>4, <1>5 DEF MarkWritten, TxnRow
<1>11. OnlyPaymentWritten(s)'
  BY <1>1, <1>2, <1>4, <1>6 DEF OnlyPaymentWritten, InvoiceRow, AllocationRow, TxnRow, CaseRow
<1>12. QED
  BY <1>1, <1>7, <1>8, <1>9, <1>10, <1>11 DEF SessionWork, ConfirmWork, ReverseWork, FileWork

\* One payment more is written; the ones before it concern other invoices.
LEMMA AllocateWork ==
  ASSUME TypeInv, LockInv, WorkInv, NEW s \in Session, ConfirmAllocate(s)
  PROVE  SessionWork(s)'
<1> DEFINE x == Item(s)
           row == InvoiceRow(x.invoice)
           allocation == AllocationRow(req[s].txn, x.invoice)
           paid == [Seen(s, row) EXCEPT !.outstanding = @ - x.amount]
           confirmed == [status |-> "CONFIRMED", amount |-> x.amount]
           new == Over(Write(row, paid), Write(allocation, confirmed))
<1>1. CASE Fail(s)
  BY <1>1, AnsweredWork DEF Fail
<1>2. CASE /\ Allocatable(s, x)
           /\ Statement(s, {row, allocation}, new)
           /\ item' = [item EXCEPT ![s] = @ + 1]
           /\ GoTo(s, IF item[s] = Len(req[s].items) THEN "mark" ELSE "allocate")
           /\ unsettled' = [unsettled EXCEPT ![s] = @ \cup {x.invoice}]
           /\ UNCHANGED <<req, loaded>>
  <2>1. /\ pc[s] = "allocate" /\ req[s].kind = "confirm"
        /\ item[s] \in DOMAIN req[s].items /\ item[s] \in Nat
    BY DEF ConfirmAllocate, TypeInv, TypeOK, ControlTyped, ControlFollowsRequest, ConfirmLabels
  <2>2. /\ ConfirmStage(s) /\ PaymentsWritten(s) /\ MarkWritten(s) /\ OnlyPaymentWritten(s)
    BY <2>1 DEF WorkInv, SessionWork, ConfirmWork
  <2>3. /\ req[s].items \in Seq(AllocationItem)
        /\ \A j, k \in DOMAIN req[s].items :
             req[s].items[j].invoice = req[s].items[k].invoice => j = k
    BY <2>1, ItemTypes
  <2>4. x = req[s].items[item[s]] /\ x.invoice \notin Done(s)
    <3>1. \A k \in 1 .. item[s] - 1 : k \in DOMAIN req[s].items /\ k # item[s]
      BY <2>1, <2>3
    <3>2. QED
      BY <2>1, <2>3, <3>1 DEF Item, Done
  <2>5. row \notin DOMAIN work[s] /\ allocation \notin DOMAIN work[s]
    BY <2>2, <2>4, RowsDiffer DEF OnlyPaymentWritten
  <2>6. /\ paid = [db[row] EXCEPT !.outstanding = @ - x.amount]
        /\ db[allocation].status = "NONE"
    BY <1>2, <2>5 DEF Seen, Allocatable
  <2>7. row # allocation
    BY RowsDiffer
  <2>8. DOMAIN new = {row, allocation} /\ new[row] = paid /\ new[allocation] = confirmed
    BY <2>7 DEF Over, Write
  <2>9. /\ db' = db /\ locks'[s] = locks[s] \cup {row, allocation}
        /\ DOMAIN work'[s] = {row, allocation} \cup DOMAIN work[s]
        /\ work'[s][row] = paid /\ work'[s][allocation] = confirmed
        /\ \A r \in DOMAIN work[s] : work'[s][r] = work[s][r]
    <3> HIDE DEF row, allocation, new, paid, confirmed
    <3>1. QED
      BY <1>2, <2>5, <2>8, OwnEffect
  <2>10. /\ pc'[s] = IF item[s] = Len(req[s].items) THEN "mark" ELSE "allocate"
         /\ req'[s] = req[s] /\ item'[s] = item[s] + 1
         /\ unsettled'[s] = unsettled[s] \cup {x.invoice}
    BY <1>2 DEF GoTo, TypeInv, TypeOK, ControlTyped
  <2>11. 1 .. item'[s] - 1 = (1 .. item[s] - 1) \cup {item[s]}
    BY <2>1, <2>3, <2>10
  <2>12. Done(s)' = Done(s) \cup {x.invoice}
    BY ZenonT(40), <2>4, <2>10, <2>11 DEF Done
  <2>13. ConfirmStage(s)'
    <3>1. Fits(req[s])'
      BY <2>2, <2>9, <2>10, RoomKept DEF ConfirmStage, Fits
    <3>2. unsettled'[s] = Done(s)'
      BY <2>1, <2>2, <2>10, <2>12 DEF ConfirmStage
    <3> HIDE DEF row, allocation, x
    <3>3. QED
      BY <2>1, <2>2, <2>9, <2>10, <3>1, <3>2 DEF ConfirmStage, TxnRow
  <2>14. PaymentsWritten(s)'
    <3> SUFFICES ASSUME NEW k \in (1 .. item[s] - 1) \cup {item[s]}
                 PROVE  LET y == req[s].items[k]
                            r == InvoiceRow(y.invoice)
                            a == AllocationRow(req[s].txn, y.invoice)
                        IN  /\ r \in DOMAIN work'[s]
                            /\ work'[s][r] = [db[r] EXCEPT !.outstanding = @ - y.amount]
                            /\ a \in DOMAIN work'[s]
                            /\ work'[s][a] = [status |-> "CONFIRMED", amount |-> y.amount]
                            /\ db[a].status = "NONE"
      BY ZenonT(40), <2>9, <2>10, <2>11 DEF PaymentsWritten, InvoiceRow, AllocationRow
    <3>1. CASE k = item[s]
      BY <2>4, <2>6, <2>9, <3>1
    <3>2. CASE k \in 1 .. item[s] - 1
      <4> HIDE DEF row, allocation, x, paid, confirmed
      <4>1. QED
        BY <2>2, <2>9, <3>2 DEF PaymentsWritten
    <3>3. QED
      BY <3>1, <3>2
  <2>15. CasesWritten(s)' /\ MarkWritten(s)'
    <3>1. Done(s)' \ unsettled'[s] = {}
      BY <2>1, <2>2, <2>10, <2>12 DEF ConfirmStage
    <3>2. TxnRow(req[s].txn) \notin {row, allocation}
      BY RowsDiffer
    <3>3. TxnRow(req[s].txn) \notin DOMAIN work[s]
      BY <2>1, <2>2 DEF MarkWritten
    <3> HIDE DEF row, allocation, x
    <3>4. QED
      BY <2>9, <2>10, <3>1, <3>2, <3>3 DEF CasesWritten, MarkWritten, TxnRow
  <2>16. OnlyPaymentWritten(s)'
    <3>1. \A r \in DOMAIN work[s] :
            \/ r = TxnRow(req[s].txn)
            \/ \E i \in Done(s) : r \in {InvoiceRow(i), AllocationRow(req[s].txn, i)}
      BY <2>1, <2>2 DEF OnlyPaymentWritten, ConfirmStage
    <3>2. \A r \in DOMAIN work'[s] :
            \/ r = TxnRow(req[s].txn)
            \/ \E i \in Done(s)' : r \in {InvoiceRow(i), AllocationRow(req[s].txn, i)}
      BY <2>9, <2>12, <3>1
    <3>3. QED
      BY <2>10, <3>2 DEF OnlyPaymentWritten, TxnRow, InvoiceRow, AllocationRow
  <2>17. QED
    BY <2>1, <2>10, <2>13, <2>14, <2>15, <2>16 DEF SessionWork, ConfirmWork, ReverseWork, FileWork
<1>3. QED
  BY <1>1, <1>2 DEF ConfirmAllocate

\* One case more is visited, and written only when nothing is outstanding.
LEMMA SettleCaseWork ==
  ASSUME TypeInv, LockInv, WorkInv, NEW s \in Session, ConfirmSettleCase(s)
  PROVE  SessionWork(s)'
<1>1. PICK i \in unsettled[s] :
        /\ unsettled' = [unsettled EXCEPT ![s] = @ \ {i}]
        /\ \/ ~Settled(s, i) /\ UNCHANGED store
           \/ Settled(s, i) /\ Statement(s, {CaseRow(i)}, Write(CaseRow(i), "PAID"))
        /\ GoTo(s, IF unsettled[s] = {i} THEN "commit" ELSE "settle")
  BY DEF ConfirmSettleCase
<1>2. /\ pc[s] = "settle" /\ UNCHANGED <<req, item>> /\ req[s].kind = "confirm"
  BY DEF ConfirmSettleCase, TypeInv, ControlFollowsRequest, ConfirmLabels
<1>3. /\ ConfirmStage(s) /\ PaymentsWritten(s) /\ CasesWritten(s)
      /\ MarkWritten(s) /\ OnlyPaymentWritten(s)
  BY <1>2 DEF WorkInv, SessionWork, ConfirmWork
<1>4. /\ unsettled'[s] = unsettled[s] \ {i}
      /\ pc'[s] = IF unsettled'[s] = {} THEN "commit" ELSE "settle"
      /\ i \in Done(s) /\ Done(s)' = Done(s)
  BY <1>1, <1>2, <1>3 DEF GoTo, TypeInv, TypeOK, ControlTyped, ConfirmStage, Done
<1>5. InvoiceRow(i) \in DOMAIN work[s] /\ CaseRow(i) \notin DOMAIN work[s]
  <2>1. InvoiceRow(i) \in DOMAIN work[s]
    BY <1>3, <1>4 DEF PaymentsWritten, Done
  <2>2. CaseRow(i) \notin DOMAIN work[s]
    BY <1>1, <1>3, RowsDiffer DEF OnlyPaymentWritten
  <2>3. QED
    BY <2>1, <2>2
<1>6. Settled(s, i) <=> work[s][InvoiceRow(i)].outstanding = 0
  BY <1>5 DEF Settled, Seen
<1>7. /\ db' = db /\ locks[s] \subseteq locks'[s]
      /\ \A r \in DOMAIN work[s] : r \in DOMAIN work'[s] /\ work'[s][r] = work[s][r]
      /\ \A r \in DOMAIN work'[s] \ DOMAIN work[s] : r = CaseRow(i)
      /\ IF work[s][InvoiceRow(i)].outstanding = 0
         THEN CaseRow(i) \in DOMAIN work'[s] /\ work'[s][CaseRow(i)] = "PAID"
         ELSE CaseRow(i) \notin DOMAIN work'[s]
  <2>1. CASE ~Settled(s, i) /\ UNCHANGED store
    BY <1>5, <1>6, <2>1 DEF store
  <2>2. CASE Settled(s, i) /\ Statement(s, {CaseRow(i)}, Write(CaseRow(i), "PAID"))
    <3>1. /\ DOMAIN Write(CaseRow(i), "PAID") = {CaseRow(i)}
          /\ Write(CaseRow(i), "PAID")[CaseRow(i)] = "PAID"
      BY DEF Write
    <3>2. QED
      BY <1>5, <1>6, <2>2, <3>1, OwnEffect
  <2>3. QED
    BY <1>1, <2>1, <2>2
<1>8. Fits(req[s])' /\ MarkOf(req[s])' = MarkOf(req[s])
  BY <1>2, <1>3, <1>7, RoomKept DEF ConfirmStage, Fits, MarkOf
<1>9. ConfirmStage(s)'
  BY <1>2, <1>3, <1>4, <1>7, <1>8 DEF ConfirmStage, TxnRow
<1>10. PaymentsWritten(s)'
  BY <1>2, <1>3, <1>7, PaymentsKept
<1>11. CasesWritten(s)'
  <2> SUFFICES ASSUME NEW j \in Done(s), j \notin unsettled[s] \ {i}
               PROVE  IF work'[s][InvoiceRow(j)].outstanding = 0
                      THEN CaseRow(j) \in DOMAIN work'[s] /\ work'[s][CaseRow(j)] = "PAID"
                      ELSE CaseRow(j) \notin DOMAIN work'[s]
    BY <1>4 DEF CasesWritten, InvoiceRow, CaseRow
  <2>1. InvoiceRow(j) \in DOMAIN work[s]
    BY <1>3 DEF PaymentsWritten, Done
  <2>2. CASE j = i
    BY <1>5, <1>7, <2>2
  <2>3. CASE j # i
    BY <1>3, <1>7, <2>1, <2>3, RowsDiffer DEF CasesWritten
  <2>4. QED
    BY <2>2, <2>3
<1>12. MarkWritten(s)'
  BY <1>2, <1>3, <1>4, <1>7, <1>8 DEF MarkWritten, TxnRow
<1>13. OnlyPaymentWritten(s)'
  <2> SUFFICES ASSUME NEW r \in DOMAIN work'[s]
               PROVE  \/ r = TxnRow(req[s].txn)
                      \/ \E j \in Done(s) : r \in {InvoiceRow(j), AllocationRow(req[s].txn, j)}
                      \/ \E j \in Done(s) \ (unsettled[s] \ {i}) : r = CaseRow(j)
    BY <1>2, <1>4 DEF OnlyPaymentWritten, InvoiceRow, CaseRow, AllocationRow, TxnRow
  <2>1. r = CaseRow(i) \/ r \in DOMAIN work[s]
    BY <1>7
  <2>2. QED
    BY <1>3, <1>4, <2>1 DEF OnlyPaymentWritten
<1>14. QED
  BY <1>2, <1>4, <1>9, <1>10, <1>11, <1>12, <1>13 DEF SessionWork, ConfirmWork, ReverseWork, FileWork

\* The reversal reads invoice and allocation under its locks and rewrites both.
LEMMA GiveBackWork ==
  ASSUME TypeInv, LockInv, WorkInv, NEW s \in Session, ReverseGiveBack(s)
  PROVE  SessionWork(s)'
<1> DEFINE row == InvoiceRow(req[s].invoice)
           allocation == AllocationRow(req[s].txn, req[s].invoice)
           amount == Seen(s, allocation).amount
           back == [Seen(s, row) EXCEPT !.outstanding = @ + amount]
           reversed == [status |-> "REVERSED", amount |-> amount]
           new == Over(Write(row, back), Write(allocation, reversed))
<1>1. CASE Fail(s)
  BY <1>1, AnsweredWork DEF Fail
<1>2. CASE /\ Statement(s, {row, allocation}, new)
           /\ GoTo(s, "unmatch")
           /\ UNCHANGED <<req, item, unsettled, loaded>>
  <2>1. /\ pc[s] = "give_back" /\ req[s].kind = "reverse"
        /\ req[s].txn \in Txn /\ req[s].invoice \in Invoice
    BY RequestTypes DEF ReverseGiveBack, TypeInv, ControlFollowsRequest, ReverseLabels
  <2>2. DOMAIN work[s] = {} /\ db[allocation].status = "CONFIRMED"
    BY <2>1 DEF LockInv, NothingWrittenYet, AllocationHeld
  <2>3. /\ back = [db[row] EXCEPT !.outstanding = @ + db[allocation].amount]
        /\ amount = db[allocation].amount
    BY <2>2 DEF Seen
  <2>4. reversed = [db[allocation] EXCEPT !.status = "REVERSED"]
    <3>1. db[allocation] \in AllocationValue
      BY <2>1, RowTypes DEF TypeInv, TypeOK, StoreTyped
    <3>2. QED
      BY <2>3, <3>1 DEF AllocationValue
  <2>5. row # allocation
    BY RowsDiffer
  <2>6. DOMAIN new = {row, allocation} /\ new[row] = back /\ new[allocation] = reversed
    BY <2>5 DEF Over, Write
  <2>7. /\ db' = db /\ DOMAIN work'[s] = {row, allocation}
        /\ work'[s][row] = back /\ work'[s][allocation] = reversed
    <3> HIDE DEF row, allocation, new, back, reversed
    <3>1. QED
      BY <1>2, <2>2, <2>6, OwnEffect
  <2>8. pc'[s] = "unmatch" /\ req' = req
    BY <1>2 DEF GoTo, TypeInv, TypeOK, ControlTyped
  <2>9. TxnRow(req[s].txn) \notin {row, allocation} /\ CaseRow(req[s].invoice) \notin {row, allocation}
    BY RowsDiffer
  <2>10. ReverseWork(s)'
    <3> HIDE DEF back, reversed, amount
    <3>1. QED
      BY <2>1, <2>2, <2>3, <2>4, <2>7, <2>8, <2>9
         DEF ReverseWork, InvoiceRow, AllocationRow, CaseRow, TxnRow
  <2>11. QED
    BY <2>1, <2>8, <2>10 DEF SessionWork, ConfirmWork, FileWork
<1>3. QED
  BY <1>1, <1>2 DEF ReverseGiveBack

\* The transaction of the allocation is written REVERSED.
LEMMA UnmatchTransactionWork ==
  ASSUME TypeInv, WorkInv, NEW s \in Session, ReverseUnmatchTransaction(s)
  PROVE  SessionWork(s)'
<1> DEFINE row == TxnRow(req[s].txn)
           new == Write(row, "REVERSED")
<1>1. /\ pc[s] = "unmatch" /\ pc'[s] = "reopen" /\ req' = req /\ Statement(s, {row}, new)
      /\ req[s].kind = "reverse"
  BY DEF ReverseUnmatchTransaction, GoTo, TypeInv, TypeOK, ControlTyped,
     ControlFollowsRequest, ReverseLabels
<1>2. DOMAIN new = {row} /\ new[row] = "REVERSED"
  BY DEF Write
<1>3. /\ db' = db /\ DOMAIN work'[s] = {row} \cup DOMAIN work[s] /\ work'[s][row] = "REVERSED"
      /\ \A r \in DOMAIN work[s] \ {row} : work'[s][r] = work[s][r]
  <2> HIDE DEF row, new
  <2> QED
    BY <1>1, <1>2, OwnEffect
<1>4. row \notin {InvoiceRow(req[s].invoice), AllocationRow(req[s].txn, req[s].invoice),
                  CaseRow(req[s].invoice)}
  BY RowsDiffer
<1>5. ReverseWork(s)'
  <2> DEFINE i == req[s].invoice
             allocation == AllocationRow(req[s].txn, i)
  <2>1. /\ {InvoiceRow(i), allocation} \subseteq DOMAIN work[s]
        /\ db[allocation].status = "CONFIRMED"
        /\ work[s][allocation] = [db[allocation] EXCEPT !.status = "REVERSED"]
        /\ work[s][InvoiceRow(i)]
             = [db[InvoiceRow(i)] EXCEPT !.outstanding = @ + db[allocation].amount]
        /\ DOMAIN work[s] \subseteq {InvoiceRow(i), allocation, row, CaseRow(i)}
        /\ CaseRow(i) \notin DOMAIN work[s]
    BY <1>1 DEF WorkInv, SessionWork, ReverseWork
  <2>2. /\ {InvoiceRow(i), allocation} \subseteq DOMAIN work'[s]
        /\ work'[s][allocation] = work[s][allocation]
        /\ work'[s][InvoiceRow(i)] = work[s][InvoiceRow(i)]
        /\ DOMAIN work'[s] \subseteq {InvoiceRow(i), allocation, row, CaseRow(i)}
        /\ CaseRow(i) \notin DOMAIN work'[s]
        /\ row \in DOMAIN work'[s]
    BY <1>3, <1>4, <2>1
  <2>3. QED
    BY <1>1, <1>3, <2>1, <2>2 DEF ReverseWork, InvoiceRow, AllocationRow, CaseRow, TxnRow
<1>6. QED
  BY <1>1, <1>5 DEF SessionWork, ConfirmWork, FileWork

\* A PAID case is reopened, any other keeps its status.
LEMMA ReopenCaseWork ==
  ASSUME TypeInv, WorkInv, NEW s \in Session, ReverseReopenCase(s)
  PROVE  SessionWork(s)'
<1> DEFINE row == CaseRow(req[s].invoice)
           new == Write(row, Reopened(Seen(s, row)))
<1>1. /\ pc[s] = "reopen" /\ pc'[s] = "commit" /\ req' = req /\ Statement(s, {row}, new)
      /\ req[s].kind = "reverse"
  BY DEF ReverseReopenCase, GoTo, TypeInv, TypeOK, ControlTyped,
     ControlFollowsRequest, ReverseLabels
<1>2. row \notin DOMAIN work[s]
  BY <1>1 DEF WorkInv, SessionWork, ReverseWork
<1>3. DOMAIN new = {row} /\ new[row] = Reopened(db[row])
  BY <1>2 DEF Write, Seen
<1>4. /\ db' = db /\ DOMAIN work'[s] = {row} \cup DOMAIN work[s]
      /\ work'[s][row] = Reopened(db[row])
      /\ \A r \in DOMAIN work[s] : work'[s][r] = work[s][r]
  <2> HIDE DEF row, new
  <2> QED
    BY <1>1, <1>2, <1>3, OwnEffect
<1>5. ReverseWork(s)'
  <2> DEFINE i == req[s].invoice
             txn == TxnRow(req[s].txn)
             allocation == AllocationRow(req[s].txn, i)
  <2>1. /\ {InvoiceRow(i), allocation} \subseteq DOMAIN work[s]
        /\ db[allocation].status = "CONFIRMED"
        /\ work[s][allocation] = [db[allocation] EXCEPT !.status = "REVERSED"]
        /\ work[s][InvoiceRow(i)]
             = [db[InvoiceRow(i)] EXCEPT !.outstanding = @ + db[allocation].amount]
        /\ DOMAIN work[s] \subseteq {InvoiceRow(i), allocation, txn, row}
        /\ txn \in DOMAIN work[s] /\ work[s][txn] = "REVERSED"
    BY <1>1 DEF WorkInv, SessionWork, ReverseWork
  <2>2. /\ {InvoiceRow(i), allocation} \subseteq DOMAIN work'[s]
        /\ work'[s][allocation] = work[s][allocation]
        /\ work'[s][InvoiceRow(i)] = work[s][InvoiceRow(i)]
        /\ DOMAIN work'[s] \subseteq {InvoiceRow(i), allocation, txn, row}
        /\ txn \in DOMAIN work'[s] /\ work'[s][txn] = "REVERSED"
        /\ row \in DOMAIN work'[s]
    BY <1>4, <2>1
  <2>3. QED
    BY <1>1, <1>4, <2>1, <2>2
       DEF ReverseWork, Reopened, InvoiceRow, AllocationRow, CaseRow, TxnRow
<1>6. QED
  BY <1>1, <1>5 DEF SessionWork, ConfirmWork, FileWork

\* Each row of a file rewrites an invoice.
LEMMA ReimportWork ==
  ASSUME TypeInv, WorkInv, NEW s \in Session, ReimportSelect(s) \/ ReimportUpdate(s)
  PROVE  SessionWork(s)'
<1> DEFINE row == InvoiceRow(FileRowOf(s).invoice)
           new == Write(row, Overwritten(Seen(s, row), loaded[s], FileRowOf(s)))
<1>1. CASE Fail(s)
  BY <1>1, AnsweredWork DEF Fail
<1>2. CASE ~Fail(s)
  <2>1. /\ pc[s] \in {"select_row", "update_row"} /\ req' = req
        /\ pc'[s] \in {"select_row", "update_row", "commit"}
        /\ work' = work \/ Statement(s, {row}, new)
    BY <1>2 DEF ReimportSelect, ReimportUpdate, NextRow, store, GoTo, TypeInv, TypeOK,
       ControlTyped
  <2>2. /\ req[s].kind = "reimport" /\ item[s] \in DOMAIN req[s].rows
        /\ req[s].rows \in Seq(FileRow)
    BY <2>1, RequestTypes DEF TypeInv, ControlFollowsRequest, FileLabels
  <2>3. FileRowOf(s).invoice \in Invoice
    <3>1. req[s].rows[item[s]] \in FileRow
      BY <2>2, ElementTyped
    <3>2. QED
      BY <3>1 DEF FileRowOf, FileRow
  <2>4. DOMAIN new = {row}
    BY DEF Write
  <2>5. DOMAIN work'[s] \subseteq {row} \cup DOMAIN work[s]
    <3> HIDE DEF row, new
    <3>1. QED
      BY <2>1, <2>4, OwnEffect
  <2>6. FileWork(s)'
    BY <2>1, <2>2, <2>3, <2>5 DEF WorkInv, SessionWork, FileWork, InvoiceRow
  <2>7. QED
    BY <2>1, <2>2, <2>6 DEF SessionWork, ConfirmWork, ReverseWork
<1>3. QED
  BY <1>1, <1>2

\* Every action keeps the work of every session: its own by the lemma of the
\* action, the others' because they do not move.
LEMMA WorkStep == TypeInv /\ LockInv /\ PayingInv /\ WorkInv /\ [Next]_vars => WorkInv'
<1> SUFFICES ASSUME TypeInv, LockInv, PayingInv, WorkInv, [Next]_vars
             PROVE  WorkInv'
  OBVIOUS
<1>1. CASE UNCHANGED vars
  <2>1. \A o \in Session : SessionWork(o)'
    BY <1>1, WorkKept DEF vars, WorkInv
  <2>2. QED
    BY <2>1 DEF WorkInv
<1>2. ASSUME NEW s \in Session, Begin(s) \/ Step(s) \/ Crash(s)
      PROVE  WorkInv'
  <2>1. SessionWork(s)'
    <3>1. CASE Begin(s)
      <4>1. PICK b \in Body : req' = [req EXCEPT ![s] = b] /\ GoTo(s, FirstLabel(b))
        BY <3>1 DEF Begin
      <4>2. pc[s] = "idle" /\ work' = work
        BY <3>1 DEF Begin
      <4>3. pc'[s] \in {"lock_transaction", "lock_allocation", "select_row"}
        BY <4>1, RequestTypes DEF GoTo, FirstLabel, TypeInv, TypeOK, ControlTyped
      <4>4. DOMAIN work'[s] = {}
        BY <4>2 DEF LockInv, NothingWrittenYet
      <4>5. QED
        BY <4>3, <4>4 DEF SessionWork, ConfirmWork, ReverseWork, FileWork
    <3>2. CASE ConfirmLockTransaction(s)
      BY <3>2, LockTransactionWork
    <3>3. CASE ConfirmAllocate(s)
      BY <3>3, AllocateWork
    <3>4. CASE ConfirmMarkTransaction(s)
      BY <3>4, MarkTransactionWork
    <3>5. CASE ConfirmSettleCase(s)
      BY <3>5, SettleCaseWork
    <3>6. CASE ReverseLockAllocation(s)
      <4>1. CASE Fail(s)
        BY <4>1, AnsweredWork DEF Fail
      <4>2. CASE GoTo(s, "give_back")
        <5>1. pc'[s] = "give_back"
          BY <4>2 DEF GoTo, TypeInv, TypeOK, ControlTyped
        <5>2. QED
          BY <5>1 DEF SessionWork, ConfirmWork, ReverseWork, FileWork
      <4>3. QED
        BY <3>6, <4>1, <4>2 DEF ReverseLockAllocation
    <3>7. CASE ReverseGiveBack(s)
      BY <3>7, GiveBackWork
    <3>8. CASE ReverseUnmatchTransaction(s)
      BY <3>8, UnmatchTransactionWork
    <3>9. CASE ReverseReopenCase(s)
      BY <3>9, ReopenCaseWork
    <3>10. CASE ReimportSelect(s) \/ ReimportUpdate(s)
      BY <3>10, ReimportWork
    <3>11. CASE CommitRequest(s) \/ DeadlockVictim(s) \/ Crash(s)
      BY <3>11, AnsweredWork DEF CommitRequest, DeadlockVictim, Crash, Fail
    <3>12. QED
      BY <1>2, <3>1, <3>2, <3>3, <3>4, <3>5, <3>6, <3>7, <3>8, <3>9, <3>10, <3>11 DEF Step
  <2>2. \A o \in Session \ {s} : SessionWork(o)'
    BY <1>2, OthersWork
  <2>3. QED
    BY <2>1, <2>2 DEF WorkInv
<1>3. QED
  BY <1>1, <1>2 DEF Next

\* WorkInv holds in every reachable state.
LEMMA WorkInvariant == Spec => []WorkInv
<1>1. Init => WorkInv
  BY DEF Init, WorkInv, SessionWork, ConfirmWork, ReverseWork, FileWork
<1>2. QED
  BY <1>1, TypeInvariant, LockInvariant, PayingInvariant, WorkStep, PTL DEF Spec

----------------------------------------------------------------------------
(* What the three kinds of commit do to the committed rows.                *)

\* What the sums are proved from.
MoneyInv == TypeInv /\ LockInv /\ PayingInv /\ WorkInv

\* Transaction t pays paid[i] of each invoice i in the domain of paid.
Pays(t, paid) ==
  /\ TxnType[t] = "CREDIT"
  /\ AllocatedOf(t) + SumFunction(paid) <= TxnAmount[t]
  /\ \A i \in DOMAIN paid : /\ db[AllocationRow(t, i)].status = "NONE"
                            /\ paid[i] <= db[InvoiceRow(i)].outstanding
  /\ \A i \in Invoice :
       /\ db'[InvoiceRow(i)] = IF i \in DOMAIN paid
                               THEN [db[InvoiceRow(i)] EXCEPT !.outstanding = @ - paid[i]]
                               ELSE db[InvoiceRow(i)]
       /\ db'[CaseRow(i)] = IF i \in DOMAIN paid /\ paid[i] = db[InvoiceRow(i)].outstanding
                            THEN "PAID" ELSE db[CaseRow(i)]
       /\ \A u \in Txn :
            db'[AllocationRow(u, i)] = IF u = t /\ i \in DOMAIN paid
                                       THEN [status |-> "CONFIRMED", amount |-> paid[i]]
                                       ELSE db[AllocationRow(u, i)]
  /\ \A u \in Txn :
       db'[TxnRow(u)] =
         IF u # t THEN db[TxnRow(u)]
         ELSE IF AllocatedOf(t) + SumFunction(paid) = TxnAmount[t] THEN "MATCHED"
         ELSE "PARTIALLY_MATCHED"

\* The payment of invoice i by transaction t is taken back.
TakesBack(t, i) ==
  /\ db[AllocationRow(t, i)].status = "CONFIRMED"
  /\ db[InvoiceRow(i)].outstanding + db[AllocationRow(t, i)].amount <= db[InvoiceRow(i)].amount
  /\ \A j \in Invoice :
       /\ db'[InvoiceRow(j)] =
            IF j = i THEN [db[InvoiceRow(i)] EXCEPT !.outstanding = @ + db[AllocationRow(t, i)].amount]
            ELSE db[InvoiceRow(j)]
       /\ db'[CaseRow(j)] = IF j = i THEN Reopened(db[CaseRow(i)]) ELSE db[CaseRow(j)]
       /\ \A u \in Txn :
            db'[AllocationRow(u, j)] = IF u = t /\ j = i
                                       THEN [db[AllocationRow(t, i)] EXCEPT !.status = "REVERSED"]
                                       ELSE db[AllocationRow(u, j)]
  /\ \A u \in Txn : db'[TxnRow(u)] = IF u = t THEN "REVERSED" ELSE db[TxnRow(u)]

\* Only invoices change.
Rewrites ==
  /\ \A t \in Txn : db'[TxnRow(t)] = db[TxnRow(t)]
  /\ \A i \in Invoice : db'[CaseRow(i)] = db[CaseRow(i)]
  /\ \A t \in Txn, i \in Invoice : db'[AllocationRow(t, i)] = db[AllocationRow(t, i)]

\* A commit installs the rows of the write set and leaves the others alone.
LEMMA CommittedRows ==
  ASSUME TypeInv, NEW s \in Session, CommitRequest(s)
  PROVE  \A row \in Row : db'[row] = IF row \in DOMAIN work[s] THEN work[s][row] ELSE db[row]
BY DEF CommitRequest, Commit, Over, TypeInv, TypeOK, StoreTyped

\* The committed amounts of allocations are natural, and so are their sums.
LEMMA AllocatedNatural ==
  ASSUME TypeInv
  PROVE  /\ \A t \in Txn, i \in Invoice :
              /\ db[AllocationRow(t, i)] \in AllocationValue
              /\ Confirmed(db[AllocationRow(t, i)]) \in Nat
         /\ \A t \in Txn : AllocatedOf(t) \in Nat
         /\ \A i \in Invoice : AllocatedTo(i) \in Nat
<1>1. \A t \in Txn, i \in Invoice :
        /\ db[AllocationRow(t, i)] \in AllocationValue
        /\ Confirmed(db[AllocationRow(t, i)]) \in Nat
  <2>1. \A t \in Txn, i \in Invoice : db[AllocationRow(t, i)] \in AllocationValue
    BY RowTypes DEF TypeInv, TypeOK, StoreTyped
  <2>2. \A a \in AllocationValue : Confirmed(a) \in Nat
    BY DEF AllocationValue, Confirmed
  <2>3. QED
    BY <2>1, <2>2
<1>2. ASSUME NEW t \in Txn PROVE AllocatedOf(t) \in Nat
  <2> DEFINE f == [i \in Invoice |-> Confirmed(db[AllocationRow(t, i)])]
  <2>1. DOMAIN f = Invoice /\ \A i \in Invoice : f[i] \in Nat
    BY <1>1
  <2>2. AllocatedOf(t) = SumFunctionOnSet(f, Invoice)
    BY DEF AllocatedOf, SumFunction
  <2> HIDE DEF f
  <2>3. QED
    BY <2>1, <2>2, FiniteAssumption, SumNatural
<1>3. ASSUME NEW i \in Invoice PROVE AllocatedTo(i) \in Nat
  <2> DEFINE f == [t \in Txn |-> Confirmed(db[AllocationRow(t, i)])]
  <2>1. DOMAIN f = Txn /\ \A t \in Txn : f[t] \in Nat
    BY <1>1
  <2>2. AllocatedTo(i) = SumFunctionOnSet(f, Txn)
    BY DEF AllocatedTo, SumFunction
  <2> HIDE DEF f
  <2>3. QED
    BY <2>1, <2>2, FiniteAssumption, SumNatural
<1>4. QED
  BY <1>1, <1>2, <1>3

\* A confirmation is to pay what its items add up to, item by item or invoice by
\* invoice, and no item is above the sum.
LEMMA RequestedPaid ==
  ASSUME TypeInv, NEW s \in Session, pc[s] # "idle", req[s].kind = "confirm",
         item[s] = Len(req[s].items) + 1,
         NEW paid, DOMAIN paid = Done(s),
         \A k \in DOMAIN req[s].items : paid[req[s].items[k].invoice] = req[s].items[k].amount
  PROVE  /\ SumFunction(paid) = Requested(req[s])
         /\ Requested(req[s]) \in Nat
         /\ \A i \in Done(s) : paid[i] \in 1 .. Requested(req[s])
<1> DEFINE S == DOMAIN req[s].items
           f == [k \in S |-> req[s].items[k].amount]
           name == [k \in S |-> req[s].items[k].invoice]
<1>1. S = 1 .. Len(req[s].items) /\ Len(req[s].items) \in Nat
  BY ItemTypes
<1>2. IsFiniteSet(S)
  BY <1>1, FS_Interval
<1>3. \A k \in S : f[k] \in Nat /\ f[k] > 0
  BY ItemTypes
<1>4. /\ name \in Bijection(S, Done(s))
      /\ \A x \in S : paid[name[x]] = f[x]
  <2>1. 1 .. item[s] - 1 = S
    BY <1>1
  <2>2. Done(s) = {name[x] : x \in S}
    BY <2>1 DEF Done
  <2>3. \A x, y \in S : name[x] = name[y] => x = y
    BY ItemTypes
  <2>4. QED
    BY <2>2, <2>3 DEF Bijection, Injection, Surjection, IsInjective
<1>5. /\ Requested(req[s]) = SumFunctionOnSet(f, S)
      /\ SumFunction(paid) = SumFunctionOnSet(paid, Done(s))
  BY DEF Requested, SumFunction
<1> HIDE DEF S, f, name
<1>6. SumFunctionOnSet(paid, Done(s)) = SumFunctionOnSet(f, S)
  <2>1. \A k \in S : f[k] \in Int
    BY <1>3
  <2>2. QED
    BY <1>2, <1>4, <2>1, SumRenamed
<1>7. SumFunctionOnSet(f, S) \in Nat /\ \A k \in S : f[k] <= SumFunctionOnSet(f, S)
  BY <1>2, <1>3, SumNatural
<1>8. \A i \in Done(s) : paid[i] \in 1 .. Requested(req[s])
  <2> SUFFICES ASSUME NEW i \in Done(s) PROVE paid[i] \in 1 .. Requested(req[s])
    OBVIOUS
  <2>1. PICK k \in S : name[k] = i
    BY <1>4 DEF Bijection, Surjection
  <2>2. paid[i] = f[k]
    BY <1>4, <2>1
  <2>3. QED
    BY <1>3, <1>5, <1>7, <2>2
<1>9. QED
  BY <1>4, <1>5, <1>6, <1>7, <1>8

\* The commit of a confirmation is one payment of all its items.
LEMMA ConfirmCommits ==
  ASSUME MoneyInv, NEW s \in Session, CommitRequest(s), req[s].kind = "confirm"
  PROVE  \E t \in Txn, S \in (SUBSET Invoice) \ {{}} :
           \E paid \in [S -> 1 .. TxnAmount[t]] : Pays(t, paid)
<1> DEFINE t == req[s].txn
           paid == [i \in Done(s) |-> work[s][AllocationRow(t, i)].amount]
<1>1. /\ pc[s] = "commit" /\ unsettled[s] = {} /\ item[s] = Len(req[s].items) + 1
      /\ Fits(req[s]) /\ PaymentsWritten(s) /\ CasesWritten(s)
      /\ MarkWritten(s) /\ OnlyPaymentWritten(s)
  BY DEF CommitRequest, MoneyInv, WorkInv, SessionWork, ConfirmWork, ConfirmStage
<1>2. /\ t \in Txn /\ req[s].items \in Seq(AllocationItem) /\ req[s].items # <<>>
      /\ \A k \in DOMAIN req[s].items : req[s].items[k].invoice \in Invoice
  BY <1>1, ItemTypes DEF MoneyInv
<1>3. 1 .. item[s] - 1 = DOMAIN req[s].items
  BY <1>1, <1>2
<1>4. Done(s) \in (SUBSET Invoice) \ {{}}
  <2>1. 1 \in DOMAIN req[s].items
    BY <1>2
  <2>2. QED
    BY <1>2, <1>3, <2>1 DEF Done
<1>5. ASSUME NEW i \in Done(s)
      PROVE  /\ InvoiceRow(i) \in DOMAIN work[s]
             /\ work[s][InvoiceRow(i)] = [db[InvoiceRow(i)] EXCEPT !.outstanding = @ - paid[i]]
             /\ AllocationRow(t, i) \in DOMAIN work[s]
             /\ work[s][AllocationRow(t, i)] = [status |-> "CONFIRMED", amount |-> paid[i]]
             /\ db[AllocationRow(t, i)].status = "NONE"
  <2>1. PICK k \in 1 .. item[s] - 1 : i = req[s].items[k].invoice
    BY DEF Done
  <2>2. work[s][AllocationRow(t, i)]
          = [status |-> "CONFIRMED", amount |-> req[s].items[k].amount]
    BY <1>1, <2>1 DEF PaymentsWritten
  <2>3. paid[i] = req[s].items[k].amount
    BY <2>2
  <2>4. QED
    BY <1>1, <2>1, <2>2, <2>3 DEF PaymentsWritten
<1>6. \A k \in DOMAIN req[s].items : paid[req[s].items[k].invoice] = req[s].items[k].amount
  <2> SUFFICES ASSUME NEW k \in DOMAIN req[s].items
               PROVE  paid[req[s].items[k].invoice] = req[s].items[k].amount
    OBVIOUS
  <2>1. req[s].items[k].invoice \in Done(s)
    BY <1>3 DEF Done
  <2>2. work[s][AllocationRow(t, req[s].items[k].invoice)]
          = [status |-> "CONFIRMED", amount |-> req[s].items[k].amount]
    BY <1>1, <1>3 DEF PaymentsWritten
  <2>3. QED
    BY <2>1, <2>2
<1>7. DOMAIN paid = Done(s)
  OBVIOUS
<1>8. /\ SumFunction(paid) = Requested(req[s]) /\ Requested(req[s]) \in Nat
      /\ \A i \in Done(s) : paid[i] \in 1 .. Requested(req[s])
  <2>1. TypeInv /\ pc[s] # "idle"
    BY <1>1 DEF MoneyInv
  <2> HIDE DEF paid, t
  <2>2. QED
    BY <1>1, <1>6, <1>7, <2>1, RequestedPaid
<1>9. /\ TxnType[t] = "CREDIT" /\ AllocatedOf(t) + SumFunction(paid) <= TxnAmount[t]
      /\ TxnAmount[t] \in Nat /\ AllocatedOf(t) \in Nat
  <2>1. AllocatedOf(t) \in Nat
    BY <1>2, AllocatedNatural DEF MoneyInv
  <2>2. QED
    BY <1>1, <1>2, <1>8, <2>1, TxnAssumption DEF Fits
<1>10. paid \in [Done(s) -> 1 .. TxnAmount[t]]
  <2>1. \A i \in Done(s) : paid[i] \in 1 .. TxnAmount[t]
    BY <1>8, <1>9
  <2>2. QED
    BY <2>1
<1> HIDE DEF paid
<1>11. ASSUME NEW i \in Done(s)
       PROVE  paid[i] <= db[InvoiceRow(i)].outstanding
  <2>1. work[s][InvoiceRow(i)] \in InvoiceValue /\ db[InvoiceRow(i)] \in InvoiceValue
    <3>1. InvoiceRow(i) \in Row /\ ValueSet(InvoiceRow(i)) = InvoiceValue
      BY <1>4, RowTypes
    <3>2. InvoiceRow(i) \in DOMAIN work[s]
      BY <1>5
    <3>3. QED
      BY <3>1, <3>2 DEF MoneyInv, TypeInv, TypeOK, StoreTyped
  <2>2. work[s][InvoiceRow(i)].outstanding = db[InvoiceRow(i)].outstanding - paid[i]
    BY <1>5, <2>1 DEF InvoiceValue
  <2>3. QED
    BY <1>10, <1>9, <2>1, <2>2 DEF InvoiceValue
<1>12. \A row \in Row : db'[row] = IF row \in DOMAIN work[s] THEN work[s][row] ELSE db[row]
  BY CommittedRows DEF MoneyInv
<1>13. ASSUME NEW i \in Invoice, NEW u \in Txn
       PROVE  db'[AllocationRow(u, i)] = IF u = t /\ i \in Done(s)
                                         THEN [status |-> "CONFIRMED", amount |-> paid[i]]
                                         ELSE db[AllocationRow(u, i)]
  <2>1. AllocationRow(u, i) \in DOMAIN work[s] => u = t /\ i \in Done(s)
    <3>1. /\ \A j : AllocationRow(u, i) = AllocationRow(t, j) => u = t /\ i = j
          /\ \A j : AllocationRow(u, i) # InvoiceRow(j) /\ AllocationRow(u, i) # CaseRow(j)
          /\ AllocationRow(u, i) # TxnRow(t)
      BY RowsDiffer
    <3>2. QED
      BY <1>1, <3>1 DEF OnlyPaymentWritten
  <2>2. AllocationRow(u, i) \in Row
    BY RowTypes
  <2>3. CASE u = t /\ i \in Done(s)
    BY <1>5, <1>12, <2>2, <2>3
  <2>4. CASE ~(u = t /\ i \in Done(s))
    BY <1>12, <2>1, <2>2, <2>4
  <2>5. QED
    BY <2>3, <2>4
<1>14. ASSUME NEW i \in Invoice
       PROVE  db'[InvoiceRow(i)] = IF i \in Done(s)
                                   THEN [db[InvoiceRow(i)] EXCEPT !.outstanding = @ - paid[i]]
                                   ELSE db[InvoiceRow(i)]
  <2>1. InvoiceRow(i) \in DOMAIN work[s] => i \in Done(s)
    BY <1>1, RowsDiffer DEF OnlyPaymentWritten
  <2>2. QED
    BY <1>5, <1>12, <2>1, RowTypes
<1>15. ASSUME NEW i \in Invoice
       PROVE  db'[CaseRow(i)] = IF i \in Done(s) /\ paid[i] = db[InvoiceRow(i)].outstanding
                                THEN "PAID" ELSE db[CaseRow(i)]
  <2>1. CaseRow(i) \in DOMAIN work[s] => i \in Done(s)
    BY SMTT(30), <1>1, RowsDiffer DEF OnlyPaymentWritten
  <2>2. ASSUME i \in Done(s)
        PROVE  work[s][InvoiceRow(i)].outstanding = 0 <=> paid[i] = db[InvoiceRow(i)].outstanding
    <3>1. db[InvoiceRow(i)] \in InvoiceValue
      BY RowTypes DEF MoneyInv, TypeInv, TypeOK, StoreTyped
    <3>2. work[s][InvoiceRow(i)].outstanding = db[InvoiceRow(i)].outstanding - paid[i]
      BY <1>5, <2>2, <3>1 DEF InvoiceValue
    <3>3. QED
      BY <1>9, <1>10, <2>2, <3>1, <3>2 DEF InvoiceValue
  <2>3. i \in Done(s) =>
          IF work[s][InvoiceRow(i)].outstanding = 0
          THEN CaseRow(i) \in DOMAIN work[s] /\ work[s][CaseRow(i)] = "PAID"
          ELSE CaseRow(i) \notin DOMAIN work[s]
    BY <1>1 DEF CasesWritten
  <2>4. QED
    BY <1>12, <2>1, <2>2, <2>3, RowTypes
<1>16. ASSUME NEW u \in Txn
       PROVE  db'[TxnRow(u)] =
                IF u # t THEN db[TxnRow(u)]
                ELSE IF AllocatedOf(t) + SumFunction(paid) = TxnAmount[t] THEN "MATCHED"
                ELSE "PARTIALLY_MATCHED"
  <2>1. TxnRow(u) \in DOMAIN work[s] <=> u = t
    BY <1>1, RowsDiffer DEF OnlyPaymentWritten, MarkWritten
  <2>2. work[s][TxnRow(t)] = MarkOf(req[s])
    BY <1>1 DEF MarkWritten
  <2>3. QED
    BY <1>8, <1>12, <2>1, <2>2, RowTypes DEF MarkOf
<1> HIDE DEF t
<1>17. Pays(t, paid)
  BY <1>5, <1>7, <1>9, <1>11, <1>13, <1>14, <1>15, <1>16 DEF Pays
<1>18. QED
  BY <1>2, <1>4, <1>10, <1>17

\* The commit of a reversal takes back one payment.
LEMMA ReverseCommits ==
  ASSUME MoneyInv, NEW s \in Session, CommitRequest(s), req[s].kind = "reverse"
  PROVE  \E t \in Txn, i \in Invoice : TakesBack(t, i)
<1> DEFINE t == req[s].txn
           i == req[s].invoice
           allocation == AllocationRow(t, i)
<1>1. pc[s] = "commit" /\ t \in Txn /\ i \in Invoice
  BY RequestTypes DEF CommitRequest, MoneyInv, TypeInv, ControlFollowsRequest
<1>2. /\ DOMAIN work[s] = {InvoiceRow(i), allocation, TxnRow(t), CaseRow(i)}
      /\ db[allocation].status = "CONFIRMED"
      /\ work[s][allocation] = [db[allocation] EXCEPT !.status = "REVERSED"]
      /\ work[s][InvoiceRow(i)]
           = [db[InvoiceRow(i)] EXCEPT !.outstanding = @ + db[allocation].amount]
      /\ work[s][TxnRow(t)] = "REVERSED"
      /\ work[s][CaseRow(i)] = Reopened(db[CaseRow(i)])
  BY <1>1 DEF MoneyInv, WorkInv, SessionWork, ReverseWork
<1>3. db[InvoiceRow(i)].outstanding + db[allocation].amount <= db[InvoiceRow(i)].amount
  <2>1. work[s][InvoiceRow(i)] \in InvoiceValue /\ db[InvoiceRow(i)] \in InvoiceValue
    BY <1>1, <1>2, RowTypes DEF MoneyInv, TypeInv, TypeOK, StoreTyped
  <2>2. QED
    BY <1>2, <2>1 DEF InvoiceValue
<1>4. \A row \in Row : db'[row] = IF row \in DOMAIN work[s] THEN work[s][row] ELSE db[row]
  BY CommittedRows DEF MoneyInv
<1>5. ASSUME NEW j \in Invoice
      PROVE  /\ db'[InvoiceRow(j)] = IF j = i THEN work[s][InvoiceRow(i)] ELSE db[InvoiceRow(j)]
             /\ db'[CaseRow(j)] = IF j = i THEN work[s][CaseRow(i)] ELSE db[CaseRow(j)]
             /\ \A u \in Txn :
                  db'[AllocationRow(u, j)] = IF u = t /\ j = i THEN work[s][allocation]
                                             ELSE db[AllocationRow(u, j)]
  <2>1. /\ InvoiceRow(j) \in DOMAIN work[s] <=> j = i
        /\ CaseRow(j) \in DOMAIN work[s] <=> j = i
        /\ \A u \in Txn : AllocationRow(u, j) \in DOMAIN work[s] <=> u = t /\ j = i
    BY <1>2, RowsDiffer
  <2> HIDE DEF t, i
  <2>2. QED
    BY <1>4, <2>1, RowTypes
<1>6. ASSUME NEW u \in Txn
      PROVE  db'[TxnRow(u)] = IF u = t THEN "REVERSED" ELSE db[TxnRow(u)]
  <2>1. TxnRow(u) \in DOMAIN work[s] <=> u = t
    BY <1>2, RowsDiffer
  <2>2. QED
    BY <1>2, <1>4, <2>1, RowTypes
<1> HIDE DEF t, i
<1>7. TakesBack(t, i)
  BY <1>2, <1>3, <1>5, <1>6 DEF TakesBack
<1>8. QED
  BY <1>1, <1>7

\* The commit of a file changes invoices only.
LEMMA FileCommits ==
  ASSUME MoneyInv, NEW s \in Session, CommitRequest(s), req[s].kind = "reimport"
  PROVE  Rewrites
<1>1. DOMAIN work[s] \subseteq {InvoiceRow(i) : i \in Invoice}
  BY DEF CommitRequest, MoneyInv, WorkInv, SessionWork, FileWork
<1>2. \A row \in Row : row \notin DOMAIN work[s] => db'[row] = db[row]
  BY CommittedRows DEF MoneyInv
<1>3. /\ \A t \in Txn : TxnRow(t) \notin DOMAIN work[s]
      /\ \A i \in Invoice : CaseRow(i) \notin DOMAIN work[s]
      /\ \A t \in Txn, i \in Invoice : AllocationRow(t, i) \notin DOMAIN work[s]
  BY <1>1, RowsDiffer
<1>4. QED
  BY <1>2, <1>3, RowTypes DEF Rewrites

\* Every step of the program is one of four to the ledger.
LEMMA LedgerSteps ==
  ASSUME MoneyInv, [Next]_vars
  PROVE  \/ db' = db
         \/ \E t \in Txn, S \in (SUBSET Invoice) \ {{}} :
              \E paid \in [S -> 1 .. TxnAmount[t]] : Pays(t, paid)
         \/ \E t \in Txn, i \in Invoice : TakesBack(t, i)
         \/ Rewrites /\ \E s \in Session : CommitsFile(s)
<1>1. CASE db' = db
  BY <1>1
<1>2. ASSUME NEW s \in Session, CommitRequest(s)
      PROVE  \/ \E t \in Txn, S \in (SUBSET Invoice) \ {{}} :
                   \E paid \in [S -> 1 .. TxnAmount[t]] : Pays(t, paid)
             \/ \E t \in Txn, i \in Invoice : TakesBack(t, i)
             \/ Rewrites /\ CommitsFile(s)
  <2>1. req[s].kind \in {"confirm", "reverse", "reimport"}
    BY <1>2, RequestTypes DEF CommitRequest, MoneyInv, TypeInv, ControlFollowsRequest
  <2>2. CASE req[s].kind = "confirm"
    BY <1>2, <2>2, ConfirmCommits
  <2>3. CASE req[s].kind = "reverse"
    BY <1>2, <2>3, ReverseCommits
  <2>4. CASE req[s].kind = "reimport"
    <3>1. pc[s] = "commit" /\ pc'[s] = "idle"
      BY <1>2, AnswerEffect DEF CommitRequest, MoneyInv, TypeInv, TypeOK
    <3>2. QED
      BY <1>2, <2>4, <3>1, FileCommits DEF CommitsFile
  <2>5. QED
    BY <2>1, <2>2, <2>3, <2>4
<1>3. QED
  BY <1>1, <1>2, OnlyCommitsChange

----------------------------------------------------------------------------
(* Sums before and after a commit.                                         *)

\* A payment adds what it pays to its transaction, and to each invoice.
LEMMA PaysAdds ==
  ASSUME MoneyInv, NEW t \in Txn, NEW S \in (SUBSET Invoice) \ {{}},
         NEW paid \in [S -> 1 .. TxnAmount[t]], Pays(t, paid)
  PROVE  /\ \A u \in Txn : AllocatedOf(u)' = IF u = t THEN AllocatedOf(t) + SumFunction(paid)
                                              ELSE AllocatedOf(u)
         /\ SumFunction(paid) \in Nat \ {0}
         /\ \A i \in Invoice : AllocatedTo(i)' = IF i \in S THEN AllocatedTo(i) + paid[i]
                                                  ELSE AllocatedTo(i)
<1>0. DOMAIN paid = S /\ \A i \in S : paid[i] \in Nat /\ paid[i] > 0
  BY TxnAssumption
<1>1. \A u \in Txn, i \in Invoice :
        Confirmed(db'[AllocationRow(u, i)]) = IF u = t /\ i \in S THEN paid[i]
                                              ELSE Confirmed(db[AllocationRow(u, i)])
  <2> SUFFICES ASSUME NEW u \in Txn, NEW i \in Invoice
               PROVE  Confirmed(db'[AllocationRow(u, i)]) =
                        IF u = t /\ i \in S THEN paid[i] ELSE Confirmed(db[AllocationRow(u, i)])
    OBVIOUS
  <2>1. db'[AllocationRow(u, i)] = IF u = t /\ i \in S
                                   THEN [status |-> "CONFIRMED", amount |-> paid[i]]
                                   ELSE db[AllocationRow(u, i)]
    BY <1>0 DEF Pays
  <2>2. QED
    BY <2>1 DEF Confirmed
<1>2. \A i \in S : Confirmed(db[AllocationRow(t, i)]) = 0
  BY <1>0 DEF Pays, Confirmed
<1>3. \A u \in Txn, i \in Invoice :
        Confirmed(db[AllocationRow(u, i)]) \in Nat /\ Confirmed(db'[AllocationRow(u, i)]) \in Nat
  BY <1>0, <1>1, AllocatedNatural DEF MoneyInv
<1>4. IsFiniteSet(S) /\ IsFiniteSet(Invoice \ S) /\ S \in SUBSET Invoice
  BY FiniteAssumption, FS_Subset
<1>5. AllocatedOf(t)' = AllocatedOf(t) + SumFunction(paid)
  <2> DEFINE old == [i \in Invoice |-> Confirmed(db[AllocationRow(t, i)])]
             new == [i \in Invoice |-> Confirmed(db'[AllocationRow(t, i)])]
  <2>1. /\ AllocatedOf(t) = SumFunctionOnSet(old, Invoice)
        /\ AllocatedOf(t)' = SumFunctionOnSet(new, Invoice)
        /\ SumFunction(paid) = SumFunctionOnSet(paid, S)
    BY <1>0 DEF AllocatedOf, SumFunction, AllocationRow
  <2>2. /\ \A i \in Invoice : old[i] \in Int /\ new[i] \in Int
        /\ \A i \in S : old[i] = 0 /\ new[i] = paid[i]
        /\ \A i \in Invoice \ S : new[i] = old[i]
    BY <1>1, <1>2, <1>3
  <2> HIDE DEF old, new
  <2>3. /\ SumFunctionOnSet(old, Invoice)
             = SumFunctionOnSet(old, S) + SumFunctionOnSet(old, Invoice \ S)
        /\ SumFunctionOnSet(new, Invoice)
             = SumFunctionOnSet(new, S) + SumFunctionOnSet(new, Invoice \ S)
    BY <1>4, <2>2, FiniteAssumption, SumSplit
  <2>4. SumFunctionOnSet(old, S) = 0
    BY <1>4, <2>2, SumZero
  <2>5. SumFunctionOnSet(new, S) = SumFunctionOnSet(paid, S)
    BY <1>4, <2>2, SumEqual
  <2>6. SumFunctionOnSet(new, Invoice \ S) = SumFunctionOnSet(old, Invoice \ S)
    BY <1>4, <2>2, SumEqual
  <2>7. SumFunctionOnSet(paid, S) \in Int /\ SumFunctionOnSet(old, Invoice \ S) \in Int
    <3>1. \A i \in S : paid[i] \in Int
      BY <1>0
    <3>2. \A i \in Invoice \ S : old[i] \in Int
      BY <2>2
    <3>3. QED
      BY <1>4, <3>1, <3>2, SumType
  <2>8. QED
    BY <2>1, <2>3, <2>4, <2>5, <2>6, <2>7
<1>6. SumFunction(paid) \in Nat \ {0}
  <2>1. SumFunction(paid) = SumFunctionOnSet(paid, S)
    BY <1>0 DEF SumFunction
  <2>2. SumFunctionOnSet(paid, S) \in Nat /\ \A i \in S : paid[i] <= SumFunctionOnSet(paid, S)
    BY <1>0, <1>4, SumNatural
  <2>3. QED
    BY <1>0, <2>1, <2>2
<1>7. ASSUME NEW u \in Txn, u # t
      PROVE  AllocatedOf(u)' = AllocatedOf(u)
  BY <1>7, AllocatedKept DEF Pays
<1>8. ASSUME NEW i \in Invoice
      PROVE  AllocatedTo(i)' = IF i \in S THEN AllocatedTo(i) + paid[i] ELSE AllocatedTo(i)
  <2> DEFINE old == [u \in Txn |-> Confirmed(db[AllocationRow(u, i)])]
             new == [u \in Txn |-> Confirmed(db'[AllocationRow(u, i)])]
  <2>1. /\ AllocatedTo(i) = SumFunctionOnSet(old, Txn)
        /\ AllocatedTo(i)' = SumFunctionOnSet(new, Txn)
    BY DEF AllocatedTo, SumFunction, AllocationRow
  <2>2. /\ \A u \in Txn : old[u] \in Int /\ new[u] \in Int
        /\ \A u \in Txn \ {t} : old[u] = new[u]
        /\ IF i \in S THEN old[t] = 0 /\ new[t] = paid[i] ELSE new[t] = old[t]
    BY <1>1, <1>2, <1>3
  <2> HIDE DEF old, new
  <2>3. SumFunctionOnSet(new, Txn) = SumFunctionOnSet(old, Txn) + new[t] - old[t]
    BY <2>2, FiniteAssumption, SumChange
  <2>4. SumFunctionOnSet(old, Txn) \in Int
    BY <2>2, FiniteAssumption, SumType
  <2>5. QED
    BY <1>0, <2>1, <2>2, <2>3, <2>4
<1>9. QED
  BY <1>5, <1>6, <1>7, <1>8

\* Taking a payment back takes its amount from its transaction and its invoice.
LEMMA TakesBackSubtracts ==
  ASSUME MoneyInv, NEW t \in Txn, NEW i \in Invoice, TakesBack(t, i)
  PROVE  LET amount == db[AllocationRow(t, i)].amount
         IN  /\ amount \in Nat
             /\ \A u \in Txn : AllocatedOf(u)' = IF u = t THEN AllocatedOf(t) - amount
                                                  ELSE AllocatedOf(u)
             /\ \A j \in Invoice : AllocatedTo(j)' = IF j = i THEN AllocatedTo(i) - amount
                                                      ELSE AllocatedTo(j)
<1> DEFINE amount == db[AllocationRow(t, i)].amount
<1>1. /\ amount \in Nat
      /\ \A u \in Txn, j \in Invoice : Confirmed(db[AllocationRow(u, j)]) \in Nat
      /\ Confirmed(db[AllocationRow(t, i)]) = amount
  <2>1. db[AllocationRow(t, i)] \in AllocationValue
    BY AllocatedNatural DEF MoneyInv
  <2>2. amount \in Nat
    BY <2>1 DEF AllocationValue
  <2>3. QED
    BY <2>2, AllocatedNatural DEF MoneyInv, TakesBack, Confirmed
<1>2. /\ Confirmed(db'[AllocationRow(t, i)]) = 0
      /\ \A u \in Txn, j \in Invoice : u # t \/ j # i =>
           db'[AllocationRow(u, j)] = db[AllocationRow(u, j)]
  <2>1. db'[AllocationRow(t, i)] = [db[AllocationRow(t, i)] EXCEPT !.status = "REVERSED"]
    BY DEF TakesBack
  <2>2. db[AllocationRow(t, i)] \in AllocationValue
    BY AllocatedNatural DEF MoneyInv
  <2>3. Confirmed(db'[AllocationRow(t, i)]) = 0
    BY <2>1, <2>2 DEF Confirmed, AllocationValue
  <2>4. QED
    BY <2>3 DEF TakesBack
<1>3. AllocatedOf(t)' = AllocatedOf(t) - amount
  <2> DEFINE old == [j \in Invoice |-> Confirmed(db[AllocationRow(t, j)])]
             new == [j \in Invoice |-> Confirmed(db'[AllocationRow(t, j)])]
  <2>1. /\ AllocatedOf(t) = SumFunctionOnSet(old, Invoice)
        /\ AllocatedOf(t)' = SumFunctionOnSet(new, Invoice)
    BY DEF AllocatedOf, SumFunction, AllocationRow
  <2>2. \A j \in Invoice \ {i} : old[j] = new[j]
    BY <1>2
  <2>3. old[i] = amount /\ new[i] = 0
    BY <1>1, <1>2
  <2>4. \A j \in Invoice : old[j] \in Int /\ new[j] \in Int
    <3>1. \A j \in Invoice : old[j] \in Int
      BY <1>1
    <3> HIDE DEF old, new
    <3>2. QED
      BY <2>2, <2>3, <3>1
  <2> HIDE DEF old, new
  <2>5. SumFunctionOnSet(new, Invoice) = SumFunctionOnSet(old, Invoice) + new[i] - old[i]
    BY <2>2, <2>4, FiniteAssumption, SumChange
  <2>6. SumFunctionOnSet(old, Invoice) \in Int
    BY <2>4, FiniteAssumption, SumType
  <2>7. QED
    BY <1>1, <2>1, <2>3, <2>5, <2>6
<1>4. AllocatedTo(i)' = AllocatedTo(i) - amount
  <2> DEFINE old == [u \in Txn |-> Confirmed(db[AllocationRow(u, i)])]
             new == [u \in Txn |-> Confirmed(db'[AllocationRow(u, i)])]
  <2>1. /\ AllocatedTo(i) = SumFunctionOnSet(old, Txn)
        /\ AllocatedTo(i)' = SumFunctionOnSet(new, Txn)
    BY DEF AllocatedTo, SumFunction, AllocationRow
  <2>2. \A u \in Txn \ {t} : old[u] = new[u]
    BY <1>2
  <2>3. old[t] = amount /\ new[t] = 0
    BY <1>1, <1>2
  <2>4. \A u \in Txn : old[u] \in Int /\ new[u] \in Int
    <3>1. \A u \in Txn : old[u] \in Int
      BY <1>1
    <3> HIDE DEF old, new
    <3>2. QED
      BY <2>2, <2>3, <3>1
  <2> HIDE DEF old, new
  <2>5. SumFunctionOnSet(new, Txn) = SumFunctionOnSet(old, Txn) + new[t] - old[t]
    BY <2>2, <2>4, FiniteAssumption, SumChange
  <2>6. SumFunctionOnSet(old, Txn) \in Int
    BY <2>4, FiniteAssumption, SumType
  <2>7. QED
    BY <1>1, <2>1, <2>3, <2>5, <2>6
<1>5. \A u \in Txn : u # t => AllocatedOf(u)' = AllocatedOf(u)
  BY <1>2, AllocatedKept
<1>6. ASSUME NEW j \in Invoice, j # i
      PROVE  AllocatedTo(j)' = AllocatedTo(j)
  BY <1>2, <1>6, ReceivedKept
<1>7. QED
  BY <1>1, <1>3, <1>4, <1>5, <1>6

----------------------------------------------------------------------------
(* Transactions.                                                           *)

\* An allocation that counts has an amount, so that taking it back leaves a
\* transaction with less than its amount allocated.
ConfirmedPositive ==
  \A t \in Txn, i \in Invoice :
    db[AllocationRow(t, i)].status = "CONFIRMED" => db[AllocationRow(t, i)].amount > 0

\* What the committed sums satisfy, inductive together with MoneyInv.
LedgerInv == TransactionCovered /\ TransactionStatusAgrees /\ ConfirmedPositive

\* Nothing is allocated at the start.
LEMMA InitialSums ==
  ASSUME Init
  PROVE  /\ \A t \in Txn, i \in Invoice : db[AllocationRow(t, i)] = NoAllocation
         /\ \A t \in Txn : AllocatedOf(t) = 0 /\ db[TxnRow(t)] = "UNMATCHED"
         /\ \A i \in Invoice : /\ AllocatedTo(i) = 0
                               /\ db[InvoiceRow(i)] = Opening[i]
                               /\ db[CaseRow(i)] = "IMPORTED"
<1>1. \A t \in Txn, i \in Invoice : db[AllocationRow(t, i)] = NoAllocation
  <2>1. \A t \in Txn, i \in Invoice : InitialValue(AllocationRow(t, i)) = NoAllocation
    BY DEF InitialValue, AllocationRow
  <2>2. QED
    BY <2>1, RowTypes DEF Init
<1>2. \A t \in Txn : db[TxnRow(t)] = "UNMATCHED"
  <2>1. \A t \in Txn : InitialValue(TxnRow(t)) = "UNMATCHED"
    BY DEF InitialValue, TxnRow
  <2>2. QED
    BY <2>1, RowTypes DEF Init
<1>3. \A i \in Invoice : db[InvoiceRow(i)] = Opening[i] /\ db[CaseRow(i)] = "IMPORTED"
  <2>1. \A i \in Invoice : /\ InitialValue(InvoiceRow(i)) = Opening[i]
                           /\ InitialValue(CaseRow(i)) = "IMPORTED"
    BY DEF InitialValue, InvoiceRow, CaseRow
  <2>2. QED
    BY <2>1, RowTypes DEF Init
<1>4. \A t \in Txn, i \in Invoice : Confirmed(db[AllocationRow(t, i)]) = 0
  BY <1>1 DEF Confirmed, NoAllocation
<1>5. ASSUME NEW t \in Txn PROVE AllocatedOf(t) = 0
  <2> DEFINE f == [i \in Invoice |-> Confirmed(db[AllocationRow(t, i)])]
  <2>1. AllocatedOf(t) = SumFunctionOnSet(f, Invoice) /\ \A i \in Invoice : f[i] = 0
    BY <1>4 DEF AllocatedOf, SumFunction
  <2> HIDE DEF f
  <2>2. QED
    BY <2>1, FiniteAssumption, SumZero
<1>6. ASSUME NEW i \in Invoice PROVE AllocatedTo(i) = 0
  <2> DEFINE f == [t \in Txn |-> Confirmed(db[AllocationRow(t, i)])]
  <2>1. AllocatedTo(i) = SumFunctionOnSet(f, Txn) /\ \A t \in Txn : f[t] = 0
    BY <1>4 DEF AllocatedTo, SumFunction
  <2> HIDE DEF f
  <2>2. QED
    BY <2>1, FiniteAssumption, SumZero
<1>7. QED
  BY <1>1, <1>2, <1>3, <1>5, <1>6

\* The money agrees with the status, for one transaction.
StatusAgrees(t) ==
  CASE db[TxnRow(t)] = "UNMATCHED" -> AllocatedOf(t) = 0
    [] db[TxnRow(t)] = "MATCHED" -> AllocatedOf(t) = TxnAmount[t]
    [] OTHER -> AllocatedOf(t) < TxnAmount[t]

\* A payment stays within the transaction it was checked against; taking one back
\* lowers the sum and marks the transaction; a file changes no sum.
LEMMA LedgerInvStep == MoneyInv /\ LedgerInv /\ [Next]_vars => LedgerInv'
<1> SUFFICES ASSUME MoneyInv, LedgerInv, [Next]_vars PROVE LedgerInv'
  OBVIOUS
<1>1. ASSUME NEW t \in Txn
      PROVE  /\ TxnAmount[t] \in Nat /\ AllocatedOf(t) \in Nat
             /\ AllocatedOf(t) <= TxnAmount[t] /\ StatusAgrees(t)
  <2>1. AllocatedOf(t) <= TxnAmount[t] /\ StatusAgrees(t)
    BY DEF LedgerInv, TransactionCovered, TransactionStatusAgrees, StatusAgrees
  <2>2. QED
    BY <2>1, TxnAssumption, AllocatedNatural DEF MoneyInv
<1>2. SUFFICES /\ \A t \in Txn : AllocatedOf(t)' <= TxnAmount[t] /\ StatusAgrees(t)'
               /\ ConfirmedPositive'
  BY DEF LedgerInv, TransactionCovered, TransactionStatusAgrees, StatusAgrees, AllocatedOf,
     TxnRow, AllocationRow
<1>3. ASSUME \A t \in Txn : db'[TxnRow(t)] = db[TxnRow(t)],
             \A t \in Txn, i \in Invoice : db'[AllocationRow(t, i)] = db[AllocationRow(t, i)]
      PROVE  /\ \A t \in Txn : AllocatedOf(t)' <= TxnAmount[t] /\ StatusAgrees(t)'
             /\ ConfirmedPositive'
  <2>1. \A t \in Txn : AllocatedOf(t)' = AllocatedOf(t)
    BY <1>3, AllocatedKept
  <2>2. QED
    BY <1>1, <1>3, <2>1 DEF StatusAgrees, LedgerInv, ConfirmedPositive, TxnRow, AllocationRow
<1>4. ASSUME NEW t \in Txn, NEW S \in (SUBSET Invoice) \ {{}},
             NEW paid \in [S -> 1 .. TxnAmount[t]], Pays(t, paid)
      PROVE  /\ \A u \in Txn : AllocatedOf(u)' <= TxnAmount[u] /\ StatusAgrees(u)'
             /\ ConfirmedPositive'
  <2>1. /\ \A u \in Txn : AllocatedOf(u)' = IF u = t THEN AllocatedOf(t) + SumFunction(paid)
                                             ELSE AllocatedOf(u)
        /\ SumFunction(paid) \in Nat
    BY <1>4, PaysAdds
  <2>2. /\ AllocatedOf(t) + SumFunction(paid) <= TxnAmount[t]
        /\ \A u \in Txn :
             db'[TxnRow(u)] =
               IF u # t THEN db[TxnRow(u)]
               ELSE IF AllocatedOf(t) + SumFunction(paid) = TxnAmount[t] THEN "MATCHED"
               ELSE "PARTIALLY_MATCHED"
    BY <1>4 DEF Pays
  <2>3. ASSUME NEW u \in Txn
        PROVE  AllocatedOf(u)' <= TxnAmount[u] /\ StatusAgrees(u)'
    <3>1. CASE u = t
      BY <1>1, <2>1, <2>2, <3>1 DEF StatusAgrees, TxnRow
    <3>2. CASE u # t
      BY <1>1, <2>1, <2>2, <3>2 DEF StatusAgrees, TxnRow
    <3>3. QED
      BY <3>1, <3>2
  <2>4. ConfirmedPositive'
    <3> SUFFICES ASSUME NEW u \in Txn, NEW i \in Invoice,
                        db'[AllocationRow(u, i)].status = "CONFIRMED"
                 PROVE  db'[AllocationRow(u, i)].amount > 0
      BY DEF ConfirmedPositive, AllocationRow
    <3>1. db'[AllocationRow(u, i)] = IF u = t /\ i \in S
                                     THEN [status |-> "CONFIRMED", amount |-> paid[i]]
                                     ELSE db[AllocationRow(u, i)]
      BY <1>4 DEF Pays
    <3>2. i \in S => paid[i] > 0
      BY <1>1
    <3>3. QED
      BY <3>1, <3>2 DEF LedgerInv, ConfirmedPositive
  <2>5. QED
    BY <2>3, <2>4
<1>5. ASSUME NEW t \in Txn, NEW i \in Invoice, TakesBack(t, i)
      PROVE  /\ \A u \in Txn : AllocatedOf(u)' <= TxnAmount[u] /\ StatusAgrees(u)'
             /\ ConfirmedPositive'
  <2> DEFINE amount == db[AllocationRow(t, i)].amount
  <2>1. /\ amount \in Nat
        /\ \A u \in Txn : AllocatedOf(u)' = IF u = t THEN AllocatedOf(t) - amount
                                             ELSE AllocatedOf(u)
    BY <1>5, TakesBackSubtracts
  <2>2. amount > 0
    BY <1>5 DEF TakesBack, LedgerInv, ConfirmedPositive
  <2>3. \A u \in Txn : db'[TxnRow(u)] = IF u = t THEN "REVERSED" ELSE db[TxnRow(u)]
    BY <1>5 DEF TakesBack
  <2>4. ASSUME NEW u \in Txn
        PROVE  AllocatedOf(u)' <= TxnAmount[u] /\ StatusAgrees(u)'
    <3> HIDE DEF amount
    <3>1. CASE u = t
      BY <1>1, <2>1, <2>2, <2>3, <3>1 DEF StatusAgrees, TxnRow
    <3>2. CASE u # t
      BY <1>1, <2>1, <2>3, <3>2 DEF StatusAgrees, TxnRow
    <3>3. QED
      BY <3>1, <3>2
  <2>5. ConfirmedPositive'
    <3> SUFFICES ASSUME NEW u \in Txn, NEW j \in Invoice,
                        db'[AllocationRow(u, j)].status = "CONFIRMED"
                 PROVE  db'[AllocationRow(u, j)].amount > 0
      BY DEF ConfirmedPositive, AllocationRow
    <3>1. db'[AllocationRow(u, j)] = IF u = t /\ j = i
                                     THEN [db[AllocationRow(t, i)] EXCEPT !.status = "REVERSED"]
                                     ELSE db[AllocationRow(u, j)]
      BY <1>5 DEF TakesBack
    <3>2. db[AllocationRow(t, i)] \in AllocationValue
      BY AllocatedNatural DEF MoneyInv
    <3>3. QED
      BY <3>1, <3>2 DEF LedgerInv, ConfirmedPositive, AllocationValue
  <2>6. QED
    BY <2>4, <2>5
<1>6. QED
  BY <1>3, <1>4, <1>5, LedgerSteps DEF Rewrites

\* LedgerInv holds in every reachable state.
LEMMA LedgerInvariant == Spec => []LedgerInv
<1>1. Init => LedgerInv
  <2> SUFFICES ASSUME Init PROVE LedgerInv
    OBVIOUS
  <2>1. /\ \A t \in Txn : AllocatedOf(t) = 0 /\ db[TxnRow(t)] = "UNMATCHED"
        /\ \A t \in Txn, i \in Invoice : db[AllocationRow(t, i)].status = "NONE"
    BY InitialSums DEF NoAllocation
  <2>2. \A t \in Txn : 0 <= TxnAmount[t]
    BY TxnAssumption
  <2>3. QED
    BY <2>1, <2>2 DEF LedgerInv, TransactionCovered, TransactionStatusAgrees, ConfirmedPositive
<1>2. QED
  BY <1>1, TypeInvariant, LockInvariant, PayingInvariant, WorkInvariant, LedgerInvStep, PTL
     DEF Spec, MoneyInv

\* No transaction is allocated beyond its amount, for any requests that overlap
\* (reconciliation.py lines 41-60).
THEOREM TransactionsCovered == Spec => []TransactionCovered
BY LedgerInvariant, PTL DEF LedgerInv

\* The status of a transaction agrees with what is confirmed on it, although it
\* is computed before statements that wait and committed after them
\* (reconciliation.py lines 91-93, 149-155).
THEOREM TransactionStatusesAgree == Spec => []TransactionStatusAgrees
BY LedgerInvariant, PTL DEF LedgerInv

----------------------------------------------------------------------------
(* Invoices and cases.                                                     *)

\* What an invoice is owed and has been given.
Worth(i) == db[InvoiceRow(i)].outstanding + AllocatedTo(i)

\* Payments and their reversal move money between the two.
LEMMA WorthKept ==
  ASSUME MoneyInv, [Next]_vars, NEW i \in Invoice
  PROVE  Worth(i)' = Worth(i) \/ \E s \in Session : CommitsFile(s)
<1>1. /\ db[InvoiceRow(i)] \in InvoiceValue /\ AllocatedTo(i) \in Nat
      /\ db[InvoiceRow(i)].outstanding \in Nat
  <2>1. db[InvoiceRow(i)] \in InvoiceValue
    BY RowTypes DEF MoneyInv, TypeInv, TypeOK, StoreTyped
  <2>2. QED
    BY <2>1, AllocatedNatural DEF MoneyInv, InvoiceValue
<1>2. Worth(i)' = db'[InvoiceRow(i)].outstanding + AllocatedTo(i)'
  BY DEF Worth, InvoiceRow
<1>3. CASE db' = db
  <2>1. AllocatedTo(i)' = AllocatedTo(i)
    BY <1>3, ReceivedKept
  <2>2. QED
    BY <1>2, <1>3, <2>1 DEF Worth
<1>4. ASSUME NEW t \in Txn, NEW S \in (SUBSET Invoice) \ {{}},
             NEW paid \in [S -> 1 .. TxnAmount[t]], Pays(t, paid)
      PROVE  Worth(i)' = Worth(i)
  <2>1. AllocatedTo(i)' = IF i \in S THEN AllocatedTo(i) + paid[i] ELSE AllocatedTo(i)
    BY <1>4, PaysAdds
  <2>2. db'[InvoiceRow(i)] = IF i \in S
                             THEN [db[InvoiceRow(i)] EXCEPT !.outstanding = @ - paid[i]]
                             ELSE db[InvoiceRow(i)]
    BY <1>4 DEF Pays
  <2>3. db'[InvoiceRow(i)].outstanding = IF i \in S THEN db[InvoiceRow(i)].outstanding - paid[i]
                                         ELSE db[InvoiceRow(i)].outstanding
    BY <1>1, <2>2 DEF InvoiceValue
  <2>4. i \in S => paid[i] \in Nat
    BY TxnAssumption
  <2>5. QED
    BY <1>1, <1>2, <2>1, <2>3, <2>4 DEF Worth
<1>5. ASSUME NEW t \in Txn, NEW j \in Invoice, TakesBack(t, j)
      PROVE  Worth(i)' = Worth(i)
  <2> DEFINE amount == db[AllocationRow(t, j)].amount
  <2>1. /\ amount \in Nat
        /\ AllocatedTo(i)' = IF i = j THEN AllocatedTo(j) - amount ELSE AllocatedTo(i)
    BY <1>5, TakesBackSubtracts
  <2>2. db'[InvoiceRow(i)] = IF i = j
                             THEN [db[InvoiceRow(j)] EXCEPT !.outstanding = @ + amount]
                             ELSE db[InvoiceRow(i)]
    BY <1>5 DEF TakesBack
  <2>3. db'[InvoiceRow(i)].outstanding = IF i = j THEN db[InvoiceRow(i)].outstanding + amount
                                         ELSE db[InvoiceRow(i)].outstanding
    BY <1>1, <2>2 DEF InvoiceValue
  <2> HIDE DEF amount
  <2>4. QED
    BY <1>1, <1>2, <2>1, <2>3 DEF Worth
<1>6. QED
  BY <1>3, <1>4, <1>5, LedgerSteps

\* No overlap of payments, reversals and re-imports loses an update of an
\* outstanding: only the commit of a file changes what an invoice is worth
\* (reconciliation.py lines 61-90, 140-143; imports.py).
THEOREM MoneyConserved == Spec => AllocationsConserved
<1> DEFINE Conserves ==
      \A i \in Invoice :
        \/ (db[InvoiceRow(i)].outstanding + AllocatedTo(i))'
             = db[InvoiceRow(i)].outstanding + AllocatedTo(i)
        \/ \E s \in Session : CommitsFile(s)
<1>1. MoneyInv /\ [Next]_vars => Conserves
  BY WorthKept DEF Worth
<1>2. QED
  BY <1>1, TypeInvariant, LockInvariant, PayingInvariant, WorkInvariant, PTL
     DEF Spec, MoneyInv, AllocationsConserved

\* A case is PAID exactly when its invoice has nothing outstanding and is not
\* imported that way, for what it is worth is what it was imported with.
InvoiceSettled ==
  \A i \in Invoice :
    /\ Worth(i) = Opening[i].outstanding
    /\ db[CaseRow(i)] = "PAID" <=> db[InvoiceRow(i)].outstanding = 0 /\ AllocatedTo(i) > 0

\* Payments and reversals keep what an invoice is worth, and its case PAID exactly
\* while nothing is outstanding.
LEMMA SettledStep ==
  ASSUME \A b \in Body : b.kind # "reimport", MoneyInv, LedgerInv, InvoiceSettled, [Next]_vars
  PROVE  InvoiceSettled'
<1>1. \A s \in Session : ~CommitsFile(s)
  BY DEF CommitsFile, MoneyInv, TypeInv, ControlFollowsRequest
<1>2. SUFFICES ASSUME NEW i \in Invoice
               PROVE  /\ Worth(i)' = Opening[i].outstanding
                      /\ db'[CaseRow(i)] = "PAID" <=>
                           db'[InvoiceRow(i)].outstanding = 0 /\ AllocatedTo(i)' > 0
  BY DEF InvoiceSettled, CaseRow, InvoiceRow
<1>3. Worth(i)' = Opening[i].outstanding
  BY <1>1, WorthKept DEF InvoiceSettled
<1>4. /\ db[InvoiceRow(i)] \in InvoiceValue /\ AllocatedTo(i) \in Nat
      /\ db[InvoiceRow(i)].outstanding \in Nat
      /\ db[CaseRow(i)] = "PAID" <=> db[InvoiceRow(i)].outstanding = 0 /\ AllocatedTo(i) > 0
  <2>1. db[InvoiceRow(i)] \in InvoiceValue
    BY RowTypes DEF MoneyInv, TypeInv, TypeOK, StoreTyped
  <2>2. QED
    BY <2>1, AllocatedNatural DEF MoneyInv, InvoiceValue, InvoiceSettled
<1>5. CASE db' = db
  <2>1. AllocatedTo(i)' = AllocatedTo(i)
    BY <1>5, ReceivedKept
  <2>2. QED
    BY <1>3, <1>4, <1>5, <2>1
<1>6. ASSUME NEW t \in Txn, NEW S \in (SUBSET Invoice) \ {{}},
             NEW paid \in [S -> 1 .. TxnAmount[t]], Pays(t, paid)
      PROVE  db'[CaseRow(i)] = "PAID" <=>
               db'[InvoiceRow(i)].outstanding = 0 /\ AllocatedTo(i)' > 0
  <2>1. AllocatedTo(i)' = IF i \in S THEN AllocatedTo(i) + paid[i] ELSE AllocatedTo(i)
    BY <1>6, PaysAdds
  <2>2. /\ db'[InvoiceRow(i)] = IF i \in S
                                THEN [db[InvoiceRow(i)] EXCEPT !.outstanding = @ - paid[i]]
                                ELSE db[InvoiceRow(i)]
        /\ db'[CaseRow(i)] = IF i \in S /\ paid[i] = db[InvoiceRow(i)].outstanding
                             THEN "PAID" ELSE db[CaseRow(i)]
        /\ i \in S => paid[i] <= db[InvoiceRow(i)].outstanding
    BY <1>6 DEF Pays
  <2>3. db'[InvoiceRow(i)].outstanding = IF i \in S THEN db[InvoiceRow(i)].outstanding - paid[i]
                                         ELSE db[InvoiceRow(i)].outstanding
    BY <1>4, <2>2 DEF InvoiceValue
  <2>4. i \in S => paid[i] \in Nat /\ paid[i] > 0
    BY TxnAssumption
  <2>5. CASE i \in S
    BY <1>4, <2>1, <2>2, <2>3, <2>4, <2>5
  <2>6. CASE i \notin S
    BY <1>4, <2>1, <2>2, <2>3, <2>6
  <2>7. QED
    BY <2>5, <2>6
<1>7. ASSUME NEW t \in Txn, NEW j \in Invoice, TakesBack(t, j)
      PROVE  db'[CaseRow(i)] = "PAID" <=>
               db'[InvoiceRow(i)].outstanding = 0 /\ AllocatedTo(i)' > 0
  <2> DEFINE amount == db[AllocationRow(t, j)].amount
  <2>1. /\ amount \in Nat
        /\ AllocatedTo(i)' = IF i = j THEN AllocatedTo(j) - amount ELSE AllocatedTo(i)
    BY <1>7, TakesBackSubtracts
  <2>2. /\ db'[InvoiceRow(i)] = IF i = j
                                THEN [db[InvoiceRow(j)] EXCEPT !.outstanding = @ + amount]
                                ELSE db[InvoiceRow(i)]
        /\ db'[CaseRow(i)] = IF i = j THEN Reopened(db[CaseRow(i)]) ELSE db[CaseRow(i)]
        /\ amount > 0
    BY <1>7 DEF TakesBack, LedgerInv, ConfirmedPositive
  <2>3. db'[InvoiceRow(i)].outstanding = IF i = j THEN db[InvoiceRow(i)].outstanding + amount
                                         ELSE db[InvoiceRow(i)].outstanding
    BY <1>4, <2>2 DEF InvoiceValue
  <2>4. \A status : Reopened(status) # "PAID"
    BY DEF Reopened
  <2> HIDE DEF amount
  <2>5. CASE i = j
    BY <1>4, <2>1, <2>2, <2>3, <2>4, <2>5
  <2>6. CASE i # j
    BY <1>4, <2>1, <2>2, <2>3, <2>6
  <2>7. QED
    BY <2>5, <2>6
<1>8. QED
  BY <1>1, <1>3, <1>5, <1>6, <1>7, LedgerSteps

\* "False PAID impossible": where no file is re-imported, a case is PAID exactly
\* when confirmed allocations cover what its invoice was imported with
\* (reconciliation.py lines 94-107, 156-168).
THEOREM PaidExactly ==
  ASSUME \A b \in Body : b.kind # "reimport"
  PROVE  Spec => []PaidExactlyWhenCovered
<1>1. Init => InvoiceSettled
  <2> SUFFICES ASSUME Init, NEW i \in Invoice
               PROVE  /\ Worth(i) = Opening[i].outstanding
                      /\ db[CaseRow(i)] = "PAID" <=>
                           db[InvoiceRow(i)].outstanding = 0 /\ AllocatedTo(i) > 0
    BY DEF InvoiceSettled
  <2>1. /\ AllocatedTo(i) = 0 /\ db[InvoiceRow(i)] = Opening[i]
        /\ db[CaseRow(i)] = "IMPORTED" /\ Opening[i].outstanding \in Nat
    BY InitialSums, OpeningAssumption
  <2>2. QED
    BY <2>1 DEF Worth
<1>2. MoneyInv /\ LedgerInv /\ InvoiceSettled /\ [Next]_vars => InvoiceSettled'
  BY SettledStep
<1>3. MoneyInv /\ InvoiceSettled => PaidExactlyWhenCovered
  <2> SUFFICES ASSUME MoneyInv, InvoiceSettled, NEW i \in Invoice
               PROVE  db[CaseRow(i)] = "PAID"
                        <=> AllocatedTo(i) > 0 /\ AllocatedTo(i) = Opening[i].outstanding
    BY DEF PaidExactlyWhenCovered
  <2>1. db[InvoiceRow(i)] \in InvoiceValue
    BY RowTypes DEF MoneyInv, TypeInv, TypeOK, StoreTyped
  <2>2. AllocatedTo(i) \in Nat /\ db[InvoiceRow(i)].outstanding \in Nat
    BY <2>1, AllocatedNatural DEF MoneyInv, InvoiceValue
  <2>3. QED
    BY <2>2 DEF InvoiceSettled, Worth
<1>4. QED
  BY <1>1, <1>2, <1>3, TypeInvariant, LockInvariant, PayingInvariant, WorkInvariant,
     LedgerInvariant, PTL DEF Spec, MoneyInv

----------------------------------------------------------------------------
(* Reconciliation implements Ledger.                                       *)

\* Ledger adds with the same function as Reconciliation.
LEMMA AbstractSum == \A f : Abstract!SumFunction(f) = SumFunction(f)
  BY Zenon DEF Abstract!SumFunction, Abstract!SumFunctionOnSet, Abstract!FoldFunctionOnSet,
     Abstract!MapThenFoldSet, SumFunction, SumFunctionOnSet, FoldFunctionOnSet, MapThenFoldSet

\* What Ledger adds up is what Reconciliation does.
LEMMA SpentIsAllocated ==
  ASSUME NEW t \in Txn
  PROVE  Abstract!Spent([i \in Invoice |-> db[AllocationRow(t, i)]]) = AllocatedOf(t)
<1> DEFINE row == [i \in Invoice |-> db[AllocationRow(t, i)]]
           spent == [i \in Invoice |-> IF row[i].status = "CONFIRMED" THEN row[i].amount ELSE 0]
<1>1. spent = [i \in Invoice |-> Confirmed(db[AllocationRow(t, i)])]
  BY DEF Confirmed
<1>2. Abstract!Spent(row) = SumFunction(spent)
  BY AbstractSum, Zenon DEF Abstract!Spent
<1>3. QED
  BY <1>1, <1>2 DEF AllocatedOf

\* A payment is a Confirm of Ledger,
LEMMA PaysIsConfirm ==
  ASSUME MoneyInv, NEW t \in Txn, NEW S \in (SUBSET Invoice) \ {{}},
         NEW paid \in [S -> 1 .. TxnAmount[t]], Pays(t, paid)
  PROVE  Abstract!Confirm(t, paid)
<1> DEFINE invoice == [i \in Invoice |-> db[InvoiceRow(i)]]
           allocation == [u \in Txn |-> [i \in Invoice |-> db[AllocationRow(u, i)]]]
           total == AllocatedOf(t) + SumFunction(paid)
<1>1. DOMAIN paid = S /\ S \subseteq Invoice /\ \A i \in S : paid[i] \in Nat
  BY TxnAssumption
<1>2. \A i \in Invoice : db[InvoiceRow(i)].outstanding \in Nat
  <2>1. \A i \in Invoice : db[InvoiceRow(i)] \in InvoiceValue
    BY RowTypes DEF MoneyInv, TypeInv, TypeOK, StoreTyped
  <2>2. QED
    BY <2>1 DEF InvoiceValue
<1>3. Abstract!Spent(allocation[t]) = AllocatedOf(t)
  BY SpentIsAllocated
<1>4. TxnType[t] = "CREDIT" /\ total <= TxnAmount[t]
  BY DEF Pays
<1>5. \A i \in DOMAIN paid : /\ allocation[t][i].status = "NONE"
                             /\ invoice[i].outstanding - paid[i] >= 0
  BY <1>1, <1>2 DEF Pays
<1>6. [i \in Invoice |-> db[InvoiceRow(i)]]'
        = [i \in Invoice |-> IF i \in DOMAIN paid
                             THEN [invoice[i] EXCEPT !.outstanding = invoice[i].outstanding - paid[i]]
                             ELSE invoice[i]]
  BY DEF Pays, InvoiceRow
<1>7. [u \in Txn |-> [i \in Invoice |-> db[AllocationRow(u, i)]]]'
        = [allocation EXCEPT ![t] = [i \in Invoice |->
             IF i \in DOMAIN paid THEN [status |-> "CONFIRMED", amount |-> paid[i]]
             ELSE allocation[t][i]]]
  <2> DEFINE later == [u \in Txn |-> [i \in Invoice |-> db'[AllocationRow(u, i)]]]
             wanted == [allocation EXCEPT ![t] = [i \in Invoice |->
               IF i \in DOMAIN paid THEN [status |-> "CONFIRMED", amount |-> paid[i]]
               ELSE allocation[t][i]]]
  <2>1. [u \in Txn |-> [i \in Invoice |-> db[AllocationRow(u, i)]]]' = later
    BY DEF AllocationRow
  <2>2. ASSUME NEW u \in Txn
        PROVE  later[u] = wanted[u]
    <3>1. CASE u = t
      <4>1. wanted[u] = [i \in Invoice |->
              IF i \in DOMAIN paid THEN [status |-> "CONFIRMED", amount |-> paid[i]]
              ELSE allocation[t][i]]
        BY <3>1
      <4>2. \A i \in Invoice : db'[AllocationRow(u, i)]
              = IF i \in DOMAIN paid THEN [status |-> "CONFIRMED", amount |-> paid[i]]
                ELSE db[AllocationRow(t, i)]
        BY <3>1 DEF Pays
      <4>3. QED
        BY ZenonT(40), <4>1, <4>2
    <3>2. CASE u # t
      <4>1. wanted[u] = [i \in Invoice |-> db[AllocationRow(u, i)]]
        BY <3>2
      <4>2. \A i \in Invoice : db'[AllocationRow(u, i)] = db[AllocationRow(u, i)]
        BY <3>2 DEF Pays
      <4>3. QED
        BY <4>1, <4>2
    <3>3. QED
      BY <3>1, <3>2
  <2>3. later = wanted
    BY <2>2
  <2>4. QED
    BY <2>1, <2>3
<1>8. [u \in Txn |-> db[TxnRow(u)]]'
        = [[u \in Txn |-> db[TxnRow(u)]] EXCEPT ![t] =
             IF total = TxnAmount[t] THEN "MATCHED" ELSE "PARTIALLY_MATCHED"]
  BY DEF Pays, TxnRow
<1>9. [i \in Invoice |-> db[CaseRow(i)]]'
        = [i \in Invoice |-> IF i \in DOMAIN paid /\ invoice[i].outstanding - paid[i] = 0
                             THEN "PAID" ELSE [j \in Invoice |-> db[CaseRow(j)]][i]]
  <2>1. \A i \in S : db[InvoiceRow(i)].outstanding - paid[i] = 0
                      <=> paid[i] = db[InvoiceRow(i)].outstanding
    BY <1>1, <1>2
  <2>2. QED
    BY <1>1, <2>1 DEF Pays, CaseRow
<1>10. Abstract!Spent(allocation[t]) + Abstract!SumFunction(paid) = total
  BY <1>3, AbstractSum
<1>11. QED
  BY <1>4, <1>5, <1>6, <1>7, <1>8, <1>9, <1>10 DEF Abstract!Confirm

\* taking one back is a Reverse,
LEMMA TakesBackIsReverse ==
  ASSUME NEW t \in Txn, NEW i \in Invoice, TakesBack(t, i)
  PROVE  Abstract!Reverse(t, i)
<1> DEFINE invoice == [j \in Invoice |-> db[InvoiceRow(j)]]
           allocation == [u \in Txn |-> [j \in Invoice |-> db[AllocationRow(u, j)]]]
           caseStatus == [j \in Invoice |-> db[CaseRow(j)]]
           back == invoice[i].outstanding + allocation[t][i].amount
<1>1. allocation[t][i].status = "CONFIRMED" /\ back <= invoice[i].amount
  BY DEF TakesBack
<1>2. [j \in Invoice |-> db[InvoiceRow(j)]]' = [invoice EXCEPT ![i].outstanding = back]
  BY DEF TakesBack, InvoiceRow
<1>3. [u \in Txn |-> [j \in Invoice |-> db[AllocationRow(u, j)]]]'
        = [allocation EXCEPT ![t][i].status = "REVERSED"]
  <2> DEFINE later == [u \in Txn |-> [j \in Invoice |-> db'[AllocationRow(u, j)]]]
             wanted == [allocation EXCEPT ![t][i].status = "REVERSED"]
  <2>1. [u \in Txn |-> [j \in Invoice |-> db[AllocationRow(u, j)]]]' = later
    BY DEF AllocationRow
  <2>2. \A u \in Txn : later[u] = wanted[u]
    BY DEF TakesBack
  <2>3. later = wanted
    BY <2>2
  <2>4. QED
    BY <2>1, <2>3
<1>4. [u \in Txn |-> db[TxnRow(u)]]' = [[u \in Txn |-> db[TxnRow(u)]] EXCEPT ![t] = "REVERSED"]
  BY DEF TakesBack, TxnRow
<1>5. [j \in Invoice |-> db[CaseRow(j)]]'
        = [caseStatus EXCEPT ![i] = IF caseStatus[i] = "PAID" THEN "PAYMENT_REVERSED"
                                    ELSE caseStatus[i]]
  BY DEF TakesBack, CaseRow, Reopened
<1>6. QED
  BY <1>1, <1>2, <1>3, <1>4, <1>5 DEF Abstract!Reverse

\* and a file is a Reimport.
LEMMA RewritesIsReimport ==
  ASSUME TypeInv', Rewrites
  PROVE  Abstract!Reimport
<1>1. \A i \in Invoice : db'[InvoiceRow(i)] \in InvoiceValue
  BY RowTypes DEF TypeInv, TypeOK, StoreTyped
<1>2. QED
  BY <1>1 DEF Rewrites, Abstract!Reimport, InvoiceValue, InvoiceRow, CaseRow, TxnRow,
     AllocationRow

\* The initial states map to the initial state of Ledger,
LEMMA LedgerInit == Init => Abstract!Init
<1> SUFFICES ASSUME Init PROVE Abstract!Init
  OBVIOUS
<1>1. [i \in Invoice |-> db[InvoiceRow(i)]] = Opening
  BY InitialSums, OpeningAssumption
<1>2. QED
  BY <1>1, InitialSums DEF Abstract!Init, NoAllocation

\* and every step to a step of Ledger or to a stutter.
LEMMA LedgerStep ==
  MoneyInv /\ TypeInv' /\ [Next]_vars => [Abstract!Next]_(Abstract!vars)
<1> SUFFICES ASSUME MoneyInv, TypeInv', [Next]_vars
             PROVE  [Abstract!Next]_(Abstract!vars)
  OBVIOUS
<1>1. CASE db' = db
  BY <1>1 DEF Abstract!vars, InvoiceRow, CaseRow, TxnRow, AllocationRow
<1>2. ASSUME NEW t \in Txn, NEW S \in (SUBSET Invoice) \ {{}},
             NEW paid \in [S -> 1 .. TxnAmount[t]], Pays(t, paid)
      PROVE  Abstract!Next
  <2>1. paid \in Abstract!Payments(t)
    BY DEF Abstract!Payments
  <2>2. Abstract!Confirm(t, paid)
    BY <1>2, PaysIsConfirm
  <2>3. QED
    BY <2>1, <2>2 DEF Abstract!Next
<1>3. ASSUME NEW t \in Txn, NEW i \in Invoice, TakesBack(t, i)
      PROVE  Abstract!Next
  BY <1>3, TakesBackIsReverse DEF Abstract!Next
<1>4. CASE Rewrites
  BY <1>4, RewritesIsReimport DEF Abstract!Next
<1>5. QED
  BY <1>1, <1>2, <1>3, <1>4, LedgerSteps

\* Confirmations, reversals and re-imports of any number of sessions, with their
\* statements, locks, crashes and deadlock victims, look to everybody else as if
\* each happened at the instant of its commit (reconciliation.py, imports.py).
THEOREM LedgerImplemented == Spec => ImplementsLedger
<1>1. MoneyInv /\ MoneyInv' /\ [Next]_vars => [Abstract!Next]_(Abstract!vars)
  BY LedgerStep DEF MoneyInv
<1>2. QED
  BY <1>1, LedgerInit, TypeInvariant, LockInvariant, PayingInvariant, WorkInvariant, PTL
     DEF Spec, MoneyInv, ImplementsLedger, Abstract!Spec
=============================================================================
