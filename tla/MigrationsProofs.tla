-------------------------- MODULE MigrationsProofs ---------------------------
(***************************************************************************)
(* Theorems about the migrations and the deletion of a tenant: every       *)
(* script leads from its revision to the next, whatever rows there are.    *)
(***************************************************************************)
EXTENDS SchemaProofs

\* The place of each table of the first version.
V1Place(j) == IF j <= 9 THEN 24 + j ELSE 25 + j

\* The tables that revision 9 isolates, by place: all it creates but the price list.
LEMMA V1Names == \A j \in 1..11 : S!V1Tables[j] = Name(V1Place(j)) /\ V1Place(j) \in 25..36
  /\ V1Place(j) # 34
<1>1. \A j \in 1..9 : S!V1Tables[j] = Name(24 + j)
  BY Named DEF S!V1Tables
<1>2. S!V1Tables[10] = Name(35) /\ S!V1Tables[11] = Name(36)
  BY Named DEF S!V1Tables
<1>3. \A j \in 1..11 : j \in 1..9 \/ j = 10 \/ j = 11
  OBVIOUS
<1>4. QED
  BY <1>1, <1>2, <1>3 DEF V1Place

\* They are a list of tables that can be isolated.
LEMMA V1GuardList == GuardList(S!V1Tables, 11, 24, 36)
<1>1. \A j \in 1..11 : S!V1Tables[j] \in Names /\ Place[S!V1Tables[j]] = V1Place(j)
  BY V1Names, NamesListed
<1>2. \A i, j \in 1..11 : V1Place(i) = V1Place(j) => i = j
  BY DEF V1Place
<1>3. \A i, j \in 1..11 : S!V1Tables[i] = S!V1Tables[j] => i = j
  BY <1>1, <1>2
<1>4. \A t : t \in Above(24, 36) <=> t \in Names /\ 24 < Place[t] /\ Place[t] <= 36
  <2>1. 24 \in 0..49 /\ 36 \in 0..49
    OBVIOUS
  <2>2. QED
    BY <2>1, AboveByPlace, Zenon
<1>5. \A t \in Names : 24 < Place[t] /\ Place[t] <= 36 => (t \in Unguarded <=> Place[t] = 34)
  <2>1. Name(34) = "llm_pricing"
    BY Named
  <2>2. \A t \in Names : Place[t] = 34 => t = "llm_pricing"
    BY <2>1, NamesListed
  <2>3. QED
    BY <2>2, PlacesKnown DEF Unguarded
<1>6. \A t \in FirstOf(S!V1Tables, 11) : t \in Above(24, 36) \ Unguarded
  BY <1>1, <1>4, <1>5, V1Names DEF FirstOf
<1>7. \A p \in 25..36 : p # 34 => \E j \in 1..11 : V1Place(j) = p
  <2> SUFFICES ASSUME NEW p \in 25..36, p # 34 PROVE \E j \in 1..11 : V1Place(j) = p
    OBVIOUS
  <2>1. CASE p <= 33
    <3>1. p - 24 \in 1..11 /\ V1Place(p - 24) = p
      BY <2>1 DEF V1Place
    <3>2. QED
      BY <3>1
  <2>2. CASE p > 33
    <3>1. p - 25 \in 1..11 /\ V1Place(p - 25) = p
      BY <2>2 DEF V1Place
    <3>2. QED
      BY <3>1
  <2>3. QED
    BY <2>1, <2>2
<1>8. \A t \in Above(24, 36) \ Unguarded : t \in FirstOf(S!V1Tables, 11)
  <2> SUFFICES ASSUME NEW t \in Above(24, 36), t \notin Unguarded PROVE \E j \in 1..11 : t = S!V1Tables[j]
    BY DEF FirstOf
  <2>1. t \in Names /\ Place[t] \in 25..36 /\ Place[t] # 34 /\ Name(Place[t]) = t
    BY <1>4, <1>5, NamesListed
  <2>2. PICK j \in 1..11 : V1Place(j) = Place[t]
    BY <1>7, <2>1
  <2>3. QED
    BY <2>1, <2>2, V1Names
<1>9. QED
  BY <1>3, <1>6, <1>8 DEF GuardList

\* The tables that the downgrade of revision 9 drops, by place.
LEMMA V1DropNames ==
  /\ \A j \in 1..11 : V1Drops[j] \in Names /\ Place[V1Drops[j]] = V1Place(12 - j)
  /\ V1Drops[12] \in Names /\ Place[V1Drops[12]] = 34
<1>1. \A j \in 1..11 : 12 - j \in 1..11
  OBVIOUS
<1>2. \A j \in 1..11 : V1Drops[j] \in Names /\ Place[V1Drops[j]] = V1Place(12 - j)
  <2> SUFFICES ASSUME NEW j \in 1..11 PROVE V1Drops[j] \in Names /\ Place[V1Drops[j]] = V1Place(12 - j)
    OBVIOUS
  <2>1. PICK p \in 25..36 : p = V1Place(12 - j) /\ V1Drops[j] = Name(p)
    BY <1>1, V1DownList, V1Names
  <2>2. QED
    BY <2>1, NamesListed
<1>3. QED
  BY <1>2, V1DownList, PlacesKnown

\* They are a list in which tables can be dropped.
LEMMA V1DropList == DropList(V1Drops, 12, 24, 36)
<1>1. \A j \in 1..12 : j \in 1..11 \/ j = 12
  OBVIOUS
<1>2. \A j \in 1..11 : 12 - j \in 1..11 /\ 12 - (12 - j) = j
  OBVIOUS
<1>3. /\ \A i, j \in 1..11 : V1Place(12 - i) = V1Place(12 - j) => i = j
      /\ \A j \in 1..11 : V1Place(12 - j) \in 25..36 /\ V1Place(12 - j) # 34
      /\ \A i, j \in 1..11 : V1Place(12 - j) < V1Place(12 - i) => i \in 1..(j - 1)
  BY DEF V1Place
<1>4. \A i, j \in 1..12 : V1Drops[i] = V1Drops[j] => i = j
  BY <1>1, <1>3, V1DropNames
<1>5. \A t : t \in Above(24, 36) <=> t \in Names /\ 24 < Place[t] /\ Place[t] <= 36
  <2>1. 24 \in 0..49 /\ 36 \in 0..49
    OBVIOUS
  <2>2. QED
    BY <2>1, AboveByPlace, Zenon
<1>6. \A t \in FirstOf(V1Drops, 12) : t \in Above(24, 36)
  BY <1>1, <1>3, <1>5, V1DropNames DEF FirstOf
<1>7. ASSUME NEW t \in Names, 24 < Place[t], Place[t] <= 36, Place[t] # 34
      PROVE  \E i \in 1..11 : t = V1Drops[i] /\ Place[t] = V1Place(12 - i)
  <2>1. t \in Above(24, 36) \ Unguarded
    <3>1. /\ Place["tenants"] = 1 /\ Place["users"] = 2 /\ Place["llm_pricing"] = 34
          /\ Place["portfolio_sessions"] = 49
      BY PlacesKnown
    <3>2. QED
      BY <1>5, <1>7, <3>1 DEF Unguarded
  <2>2. PICK j \in 1..11 : t = S!V1Tables[j]
    BY <2>1, V1GuardList DEF GuardList, FirstOf
  <2>3. PICK i \in 1..11 : i = 12 - j /\ 12 - i = j
    OBVIOUS
  <2>4. t = V1Drops[i]
    BY <2>2, <2>3, V1DownList
  <2>5. QED
    BY <2>4, V1DropNames
<1>8. \A t \in Above(24, 36) : t \in FirstOf(V1Drops, 12)
  <2> SUFFICES ASSUME NEW t \in Above(24, 36) PROVE \E j \in 1..12 : t = V1Drops[j]
    BY DEF FirstOf
  <2>1. CASE Place[t] = 34
    <3>1. t = V1Drops[12]
      BY <1>5, <2>1, V1DropNames, NamesListed
    <3>2. QED
      BY <3>1
  <2>2. CASE Place[t] # 34
    <3>1. \E i \in 1..11 : t = V1Drops[i]
      BY <1>5, <1>7, <2>2
    <3>2. QED
      BY <3>1
  <2>3. QED
    BY <2>1, <2>2
<1>9. ASSUME NEW j \in 1..12, NEW t \in Names, Place[V1Drops[j]] < Place[t], Place[t] <= 36, Place[t] # 34,
             Place[V1Drops[j]] # 34
      PROVE  \E i \in 1..(j - 1) : t = V1Drops[i]
  <2>1. j \in 1..11 /\ Place[V1Drops[j]] = V1Place(12 - j)
    BY <1>1, <1>9, V1DropNames
  <2>2. 24 < Place[t]
    <3>1. Place[t] \in 1..49 /\ V1Place(12 - j) \in 25..36
      BY <1>3, <2>1, NamesListed
    <3>2. QED
      BY <1>9, <2>1, <3>1
  <2>3. PICK i \in 1..11 : t = V1Drops[i] /\ Place[t] = V1Place(12 - i)
    BY <1>7, <1>9, <2>2
  <2>4. i \in 1..(j - 1)
    BY <1>3, <1>9, <2>1, <2>3
  <2>5. QED
    BY <2>3, <2>4
<1>10. QED
  BY <1>4, <1>6, <1>8, <1>9 DEF DropList

\* The scripts of revision 9 lead there and back.
LEMMA V1Moves ==
  /\ Leads(S!Upgrades[9], 29, 8, 9) /\ Leads(S!Downgrades[9], 18, 9, 8)
  /\ IsList(S!Upgrades[9], 29) /\ IsList(S!Downgrades[9], 18)
<1>1. PICK up, down : up = S!V1Up /\ down = S!V1Down
  OBVIOUS
<1>2. S!Upgrades[9] = up /\ S!Downgrades[9] = down
  BY <1>1 DEF S!Upgrades, S!Downgrades
<1>3. IsList(up, 29) /\ IsList(down, 18)
  BY <1>1, V1List, V1DownList
<1>4. PICK lo, hi, q, c, g, six \in Nat : lo = 24 /\ hi = 36 /\ q = 9 /\ c = 12 /\ g = 11 /\ six = 6
  OBVIOUS
<1>5. /\ CountAt(8) = lo /\ CountAt(9) = hi /\ Span(lo, hi, c) /\ Kept(q, lo) /\ q \in 1..12 /\ 0 \in Nat
      /\ six + c = 18 /\ six + c + g = 29 /\ c + six = 18 /\ c + g = 23 /\ c + g \in Nat
  BY <1>4, Counts DEF Span, Kept
<1>6. Creates(up, six, c, lo)
  <2>1. \A i \in 1..4 : up[6 + i] = Creation[24 + i]
    BY <1>1, V1List, CreationBlocks
  <2>2. \A i \in 1..8 : up[10 + i] = Creation[28 + i]
    BY <1>1, V1List, CreationBlocks
  <2>3. \A j \in 1..12 : j \in 1..4 \/ (j - 4 \in 1..8 /\ 10 + (j - 4) = 6 + j /\ 28 + (j - 4) = 24 + j)
    OBVIOUS
  <2>4. QED
    BY <1>4, <2>1, <2>2, <2>3 DEF Creates
<1>7. Isolates(up, six + c, g, S!V1Tables)
  BY <1>1, <1>4, <1>5, V1List DEF Isolates
<1>8. GuardList(S!V1Tables, g, lo, hi)
  BY <1>4, V1GuardList
<1>9. Removes(down, 0, c, V1Drops)
  <2>1. \A j \in 1..12 : 0 + j = j
    OBVIOUS
  <2>2. QED
    BY <1>1, <1>4, <2>1, V1DownList DEF Removes
<1>10. DropList(V1Drops, c, lo, hi)
  BY <1>4, V1DropList
<1>11. ASSUME NEW d, IsAt(d[0], 8), Steps(d, 0, 29, up)
       PROVE  IsAt(d[29], 9) /\ Fitting(d, 0, 29, up)
  <2>1. Steps(d, 0, six, up) /\ Steps(d, six, c + g, up)
    <3>1. Steps(d, 0, six + (c + g), up)
      BY <1>4, <1>11
    <3>2. 0 + six = six
      BY <1>4
    <3>3. Steps(d, 0, six, up) /\ Steps(d, 0 + six, c + g, up)
      BY <1>5, <3>1, StepsSplit, Zenon
    <3>4. QED
      BY <3>2, <3>3
  <2>2. PICK x0, x1, x2, x3, x4, x5, x6 :
          x0 = d[0] /\ x1 = d[1] /\ x2 = d[2] /\ x3 = d[3] /\ x4 = d[4] /\ x5 = d[5] /\ x6 = d[6]
    OBVIOUS
  <2>3. PICK s1, s2, s3, s4, s5, s6 :
          s1 = up[1] /\ s2 = up[2] /\ s3 = up[3] /\ s4 = up[4] /\ s5 = up[5] /\ s6 = up[6]
    OBVIOUS
  <2>4. /\ s1 = S!Column("add", Bank, "transaction_type") /\ s2 = S!Column("add", Bank, "reversal_of_id")
        /\ s3 = S!Link("refer", Bank, "reversal_of_id", Bank, "id")
        /\ s4 = S!Column("add", Bank, "correction_version") /\ s5 = S!Column("add", Paid, "reversed_by")
        /\ s6 = S!Column("add", Paid, "reversal_reason")
    <3>1. \A i \in 1..6 : up[i] = S!V1Columns[i]
      BY <1>1, V1List
    <3>2. QED
      BY <2>3, <3>1 DEF S!V1Columns, Bank, Paid
  <2>5. /\ x1 = S!Applied(x0, s1) /\ x2 = S!Applied(x1, s2) /\ x3 = S!Applied(x2, s3)
        /\ x4 = S!Applied(x3, s4) /\ x5 = S!Applied(x4, s5) /\ x6 = S!Applied(x5, s6)
    <3>1. Steps(d, 0, 6, up)
      BY <1>4, <2>1
    <3>2. SixSteps(d, 0, up)
      BY <3>1, 0 \in Nat, StepsAreSix, Zenon
    <3>3. QED
      BY <2>2, <2>3, <3>2 DEF SixSteps
  <2>6. Shape(x0, 24, 8)
    BY <1>11, <2>2, Counts DEF IsAt
  <2>7. /\ Shape(x6, 24, 9)
        /\ S!Applicable(x0, s1) /\ S!Applicable(x1, s2) /\ S!Applicable(x2, s3) /\ S!Applicable(x3, s4)
        /\ S!Applicable(x4, s5) /\ S!Applicable(x5, s6)
    <3>1. Arriving(s1, s2, s3, s4, s5, s6) /\ SixApplied(x0, x1, x2, x3, x4, x5, x6, s1, s2, s3, s4, s5, s6)
      BY <2>4, <2>5, Zenon DEF Arriving, SixApplied
    <3>2. Shape(x6, 24, 9) /\ SixApplicable(x0, x1, x2, x3, x4, x5, s1, s2, s3, s4, s5, s6)
      BY <2>6, <3>1, ColumnsArrive, Zenon
    <3>3. QED
      BY <3>2 DEF SixApplicable
  <2>8. Fitting(d, 0, six, up)
    <3>1. SixFit(d, 0, up)
      BY <2>2, <2>3, <2>7 DEF SixFit
    <3>2. Fitting(d, 0, 6, up)
      BY <3>1, 0 \in Nat, StepsAreSix, Zenon
    <3>3. QED
      BY <1>4, <3>2
  <2>9. Shape(d[six + c + g], hi, q) /\ Fitting(d, six, c + g, up)
    <3>1. Shape(d[six], lo, q)
      BY <1>4, <2>2, <2>7
    <3>2. QED
      BY <1>5, <1>6, <1>7, <1>8, <2>1, <3>1, NewTables, Zenon
  <2>10. Fitting(d, 0, 29, up)
    <3>1. 0 + six = six /\ six + (c + g) = 29
      BY <1>4
    <3>2. Fitting(d, 0 + six, c + g, up)
      BY <2>9, <3>1
    <3>3. Fitting(d, 0, six + (c + g), up)
      BY <1>5, <2>8, <3>2, StepsSplit, Zenon
    <3>4. QED
      BY <3>1, <3>3
  <2>11. IsAt(d[29], 9)
    BY <1>4, <1>5, <2>9 DEF IsAt
  <2>12. QED
    BY <2>10, <2>11
<1>12. ASSUME NEW d, IsAt(d[0], 9), Steps(d, 0, 18, down)
       PROVE  IsAt(d[18], 8) /\ Fitting(d, 0, 18, down)
  <2>1. Steps(d, 0, c, down) /\ Steps(d, c, six, down)
    <3>1. Steps(d, 0, c + six, down)
      BY <1>4, <1>12
    <3>2. 0 + c = c
      BY <1>4
    <3>3. Steps(d, 0, c, down) /\ Steps(d, 0 + c, six, down)
      BY <1>5, <3>1, StepsSplit, Zenon
    <3>4. QED
      BY <3>2, <3>3
  <2>2. PICK x0, x1, x2, x3, x4, x5, x6 :
          x0 = d[12] /\ x1 = d[13] /\ x2 = d[14] /\ x3 = d[15] /\ x4 = d[16] /\ x5 = d[17] /\ x6 = d[18]
    OBVIOUS
  <2>3. PICK s1, s2, s3, s4, s5, s6 :
          s1 = down[13] /\ s2 = down[14] /\ s3 = down[15] /\ s4 = down[16] /\ s5 = down[17] /\ s6 = down[18]
    OBVIOUS
  <2>4. /\ s1 = S!Column("remove", Paid, "reversal_reason") /\ s2 = S!Column("remove", Paid, "reversed_by")
        /\ s3 = S!Column("remove", Bank, "correction_version")
        /\ s4 = S!Link("unrefer", Bank, "reversal_of_id", Bank, "id")
        /\ s5 = S!Column("remove", Bank, "reversal_of_id")
        /\ s6 = S!Column("remove", Bank, "transaction_type")
    <3>1. \A i \in 1..6 : down[12 + i] = V1Restores[i]
      BY <1>1, V1DownList
    <3>2. QED
      BY <2>3, <3>1 DEF V1Restores, Bank, Paid
  <2>5. Shape(x0, 24, 9) /\ Fitting(d, 0, c, down)
    <3>1. Shape(d[0], hi, q)
      BY <1>4, <1>5, <1>12 DEF IsAt
    <3>2. Shape(d[0 + c], lo, q) /\ Fitting(d, 0, c, down)
      BY <1>5, <1>9, <1>10, <2>1, <3>1, OldTables, Zenon
    <3>3. QED
      BY <1>4, <2>2, <3>2
  <2>6. /\ x1 = S!Applied(x0, s1) /\ x2 = S!Applied(x1, s2) /\ x3 = S!Applied(x2, s3)
        /\ x4 = S!Applied(x3, s4) /\ x5 = S!Applied(x4, s5) /\ x6 = S!Applied(x5, s6)
    <3>1. Steps(d, 12, 6, down) /\ 12 \in Nat
      BY <1>4, <2>1
    <3>2. SixSteps(d, 12, down)
      BY <3>1, StepsAreSix, Zenon
    <3>3. QED
      BY <2>2, <2>3, <3>2 DEF SixSteps
  <2>7. /\ Shape(x6, 24, 8)
        /\ S!Applicable(x0, s1) /\ S!Applicable(x1, s2) /\ S!Applicable(x2, s3) /\ S!Applicable(x3, s4)
        /\ S!Applicable(x4, s5) /\ S!Applicable(x5, s6)
    <3>1. Leaving(s1, s2, s3, s4, s5, s6) /\ SixApplied(x0, x1, x2, x3, x4, x5, x6, s1, s2, s3, s4, s5, s6)
      BY <2>4, <2>6, Zenon DEF Leaving, SixApplied
    <3>2. Shape(x6, 24, 8) /\ SixApplicable(x0, x1, x2, x3, x4, x5, s1, s2, s3, s4, s5, s6)
      BY <2>5, <3>1, ColumnsLeave, Zenon
    <3>3. QED
      BY <3>2 DEF SixApplicable
  <2>8. Fitting(d, c, six, down)
    <3>1. SixFit(d, 12, down)
      BY <2>2, <2>3, <2>7 DEF SixFit
    <3>2. 12 \in Nat
      OBVIOUS
    <3>3. Fitting(d, 12, 6, down)
      BY <3>1, <3>2, StepsAreSix, Zenon
    <3>4. QED
      BY <1>4, <3>3
  <2>9. Fitting(d, 0, 18, down)
    <3>1. 0 + c = c /\ c + six = 18
      BY <1>4
    <3>2. Fitting(d, 0 + c, six, down)
      BY <2>8, <3>1
    <3>3. Fitting(d, 0, c + six, down)
      BY <1>5, <2>5, <3>2, StepsSplit, Zenon
    <3>4. QED
      BY <3>1, <3>3
  <2>10. IsAt(d[18], 8)
    BY <2>2, <2>7, Counts DEF IsAt
  <2>11. QED
    BY <2>9, <2>10
<1>13. QED
  BY <1>2, <1>3, <1>11, <1>12 DEF Leads

-----------------------------------------------------------------------------
(* The first revision.                                                     *)

\* The n statements behind m are the c behind m and then the e behind k.
Parted(m, c, e, n, k) == m \in Nat /\ c \in Nat /\ e \in Nat /\ n = c + e /\ k = m + c

\* A script in two parts.
LEMMA SplitAt ==
  ASSUME NEW d, NEW script, NEW m, NEW c, NEW e, NEW n, NEW k, Parted(m, c, e, n, k), Steps(d, m, n, script)
  PROVE  /\ Steps(d, m, c, script) /\ Steps(d, k, e, script)
         /\ Fitting(d, m, c, script) /\ Fitting(d, k, e, script) => Fitting(d, m, n, script)
<1>1. m \in Nat /\ c \in Nat /\ e \in Nat /\ n = c + e /\ k = m + c
  BY DEF Parted
<1>2. QED
  BY <1>1, StepsSplit

\* A script of one statement.
LEMMA OneStep ==
  ASSUME NEW d, NEW script, NEW m \in Nat, Steps(d, m, 1, script)
  PROVE  /\ d[m + 1] = S!Applied(d[m], script[m + 1])
         /\ S!Applicable(d[m], script[m + 1]) => Fitting(d, m, 1, script)
<1>1. 1..1 = {1} /\ m + 1 - 1 = m
  OBVIOUS
<1>2. QED
  BY <1>1, Zenon DEF Steps, Fitting

\* The first revision isolates distinct tables, all that belong to a tenant.
LEMMA InitialNames ==
  /\ FirstOf(InitialGuarded, 13) = GuardedUpTo(15)
  /\ \A i, j \in 1..13 : InitialGuarded[i] = InitialGuarded[j] => i = j
  /\ \A j \in 1..13 : InitialGuarded[j] \in TablesUpTo(15)
<1>1. \A j \in 1..13 : InitialGuarded[j] = Name(2 + j)
  BY Named DEF InitialGuarded
<1>2. \A j \in 1..13 : 2 + j \in 1..49
  OBVIOUS
<1>3. \A j \in 1..13 : InitialGuarded[j] \in Names /\ Place[InitialGuarded[j]] = 2 + j
  BY <1>1, <1>2, NamesListed
<1>4. \A i, j \in 1..13 : InitialGuarded[i] = InitialGuarded[j] => i = j
  <2> SUFFICES ASSUME NEW i \in 1..13, NEW j \in 1..13, InitialGuarded[i] = InitialGuarded[j] PROVE i = j
    OBVIOUS
  <2>1. 2 + i = 2 + j
    BY <1>3
  <2>2. QED
    BY <2>1
<1>5. \A t : t \in TablesUpTo(15) <=> t \in Names /\ Place[t] <= 15
  <2>1. 15 \in 0..49
    OBVIOUS
  <2>2. QED
    BY <2>1, TablesByPlace, Zenon
<1>6. \A j \in 1..13 : InitialGuarded[j] \in TablesUpTo(15)
  BY <1>3, <1>5
<1>7. \A j \in 1..13 : InitialGuarded[j] \notin Unguarded
  BY <1>3, PlacesKnown DEF Unguarded
<1>8. ASSUME NEW t \in GuardedUpTo(15) PROVE \E j \in 1..13 : t = InitialGuarded[j]
  <2>1. t \in Names /\ Place[t] <= 15 /\ t \notin Unguarded
    BY <1>5 DEF GuardedUpTo
  <2>2. Place[t] \in 1..49 /\ Name(Place[t]) = t
    BY <2>1, NamesListed
  <2>3. Place[t] # 1 /\ Place[t] # 2
    BY <2>1, <2>2, Named DEF Unguarded
  <2>4. Place[t] - 2 \in 1..13 /\ 2 + (Place[t] - 2) = Place[t]
    BY <2>1, <2>2, <2>3
  <2>5. InitialGuarded[Place[t] - 2] = t
    BY <1>1, <2>2, <2>4
  <2>6. QED
    BY <2>4, <2>5
<1>9. FirstOf(InitialGuarded, 13) = GuardedUpTo(15)
  BY <1>6, <1>7, <1>8 DEF FirstOf, GuardedUpTo
<1>10. QED
  BY <1>4, <1>6, <1>9

\* The downgrade of the first revision drops its tables last to first.
LEMMA InitialDropNames == \A j \in 1..15 : InitialDrops[j] = Name(16 - j)
BY Named DEF InitialDrops

\* The parts of a schema at the first revision, and before it.
LEMMA NoneAndOne ==
  /\ LinksWith(15, 1) = LinksBetween(0, 15) /\ KeysWith(15, 1) = KeysBetween(0, 15)
  /\ ColumnsWith(1) = {} /\ WideWith(1) = {} /\ RoleWith(1) = TRUE /\ RoleWith(0) = FALSE
  /\ PrivilegesWith(15, 1) = ((GuardedUpTo(15) \X S!Everything) \ Changing) \union IdentityRights
  /\ TablesUpTo(0) = {} /\ LinksWith(0, 0) = {} /\ KeysWith(0, 0) = {} /\ ColumnsWith(0) = {}
  /\ WideWith(0) = {} /\ GuardedUpTo(0) = {} /\ PrivilegesWith(0, 0) = {}
<1>1. LinksWith(15, 1) = LinksBetween(0, 15) /\ KeysWith(15, 1) = KeysBetween(0, 15)
  BY DEF LinksWith, KeysWith
<1>2. ColumnsWith(1) = {} /\ WideWith(1) = {} /\ RoleWith(1) = TRUE /\ RoleWith(0) = FALSE
  BY DEF ColumnsWith, WideWith, RoleWith
<1>3. PrivilegesWith(15, 1) = ((GuardedUpTo(15) \X S!Everything) \ Changing) \union IdentityRights
  BY DEF PrivilegesWith
<1>4. Fields(S!NoSchema, TablesUpTo(0), LinksWith(0, 0), KeysWith(0, 0), ColumnsWith(0), GuardedUpTo(0),
             PrivilegesWith(0, 0), RoleWith(0), WideWith(0))
  BY NothingAtFirst, Counts, Zenon DEF IsAt, Shape
<1>5. QED
  BY <1>1, <1>2, <1>3, <1>4 DEF Fields, S!NoSchema

\* What a grant or a revocation changes, and when it applies.
LEMMA RightFields ==
  ASSUME NEW a, IsSchema(a), NEW s, NEW t, NEW what
  PROVE  /\ s = [do |-> "grant", table |-> t, what |-> what] =>
              IsSchema(S!Applied(a, s))
              /\ Fields(S!Applied(a, s), a.tables, a.links, a.keys, a.columns, a.isolated,
                        a.privileges \union ({t} \X what), a.role, a.wide)
              /\ (t \in a.tables /\ a.role = TRUE => S!Applicable(a, s))
         /\ s = [do |-> "revoke", table |-> t, what |-> what] =>
              IsSchema(S!Applied(a, s))
              /\ Fields(S!Applied(a, s), a.tables, a.links, a.keys, a.columns, a.isolated,
                        a.privileges \ ({t} \X what), a.role, a.wide)
              /\ (t \in a.tables /\ a.role = TRUE => S!Applicable(a, s))
<1>1. ASSUME s = [do |-> "grant", table |-> t, what |-> what]
      PROVE  /\ IsSchema(S!Applied(a, s))
             /\ Fields(S!Applied(a, s), a.tables, a.links, a.keys, a.columns, a.isolated,
                       a.privileges \union ({t} \X what), a.role, a.wide)
             /\ (t \in a.tables /\ a.role = TRUE => S!Applicable(a, s))
  <2>1. s.do = "grant" /\ s.table = t /\ s.what = what /\ s.do \in Adding \union Taking
    BY <1>1 DEF Adding
  <2>2. /\ IsSchema(S!Applied(a, s))
        /\ Fields(S!Applied(a, s), a.tables, a.links, a.keys, a.columns, a.isolated,
                  a.privileges \union ({s.table} \X s.what), a.role, a.wide)
    BY <2>1, AppliedFields, Zenon
  <2>3. t \in a.tables /\ a.role = TRUE => S!Applicable(a, s)
    BY <2>1 DEF S!Applicable
  <2>4. QED
    BY <2>1, <2>2, <2>3
<1>2. ASSUME s = [do |-> "revoke", table |-> t, what |-> what]
      PROVE  /\ IsSchema(S!Applied(a, s))
             /\ Fields(S!Applied(a, s), a.tables, a.links, a.keys, a.columns, a.isolated,
                       a.privileges \ ({t} \X what), a.role, a.wide)
             /\ (t \in a.tables /\ a.role = TRUE => S!Applicable(a, s))
  <2>1. s.do = "revoke" /\ s.table = t /\ s.what = what /\ s.do \in Adding \union Taking
    BY <1>2 DEF Taking
  <2>2. /\ IsSchema(S!Applied(a, s))
        /\ Fields(S!Applied(a, s), a.tables, a.links, a.keys, a.columns, a.isolated,
                  a.privileges \ ({s.table} \X s.what), a.role, a.wide)
    BY <2>1, AppliedFields, Zenon
  <2>3. t \in a.tables /\ a.role = TRUE => S!Applicable(a, s)
    BY <2>1 DEF S!Applicable
  <2>4. QED
    BY <2>1, <2>2, <2>3
<1>3. QED
  BY <1>1, <1>2

\* What the creation or the removal of the role changes, and when it applies.
LEMMA RoleFields ==
  ASSUME NEW a, IsSchema(a), NEW s
  PROVE  /\ s = [do |-> "role"] =>
              /\ IsSchema(S!Applied(a, s)) /\ S!Applicable(a, s)
              /\ Fields(S!Applied(a, s), a.tables, a.links, a.keys, a.columns, a.isolated, a.privileges,
                        TRUE, a.wide)
         /\ s = [do |-> "droprole"] =>
              /\ IsSchema(S!Applied(a, s)) /\ (a.privileges = {} => S!Applicable(a, s))
              /\ Fields(S!Applied(a, s), a.tables, a.links, a.keys, a.columns, a.isolated, a.privileges,
                        FALSE, a.wide)
<1>1. ASSUME s = [do |-> "role"]
      PROVE  /\ IsSchema(S!Applied(a, s)) /\ S!Applicable(a, s)
             /\ Fields(S!Applied(a, s), a.tables, a.links, a.keys, a.columns, a.isolated, a.privileges,
                       TRUE, a.wide)
  <2>1. s.do = "role" /\ s.do \in Adding \union Taking
    BY <1>1 DEF Adding
  <2>2. S!Applicable(a, s)
    BY <2>1 DEF S!Applicable
  <2>3. QED
    BY <2>1, <2>2, AppliedFields, Zenon
<1>2. ASSUME s = [do |-> "droprole"]
      PROVE  /\ IsSchema(S!Applied(a, s)) /\ (a.privileges = {} => S!Applicable(a, s))
             /\ Fields(S!Applied(a, s), a.tables, a.links, a.keys, a.columns, a.isolated, a.privileges,
                       FALSE, a.wide)
  <2>1. s.do = "droprole" /\ s.do \in Adding \union Taking
    BY <1>2 DEF Taking
  <2>2. a.privileges = {} => S!Applicable(a, s)
    BY <2>1 DEF S!Applicable
  <2>3. QED
    BY <2>1, <2>2, AppliedFields, Zenon
<1>3. QED
  BY <1>1, <1>2

\* The upgrade of an empty database leads to revision 1.
LEMMA InitialUp == Leads(S!Upgrades[1], 32, 0, 1) /\ IsList(S!Upgrades[1], 32)
<1>1. PICK up : up = S!Upgrades[1]
  OBVIOUS
<1>2. \A j \in 1..15 : up[0 + j] = Creation[0 + j]
  <2>1. \A j \in 1..8 : up[j] = Creation[j]
    BY <1>1, InitialList, CreationBlocks
  <2>2. \A i \in 1..7 : up[8 + i] = Creation[8 + i]
    BY <1>1, InitialList, CreationBlocks
  <2>3. \A j \in 1..15 : j \in 1..8 \/ (j - 8 \in 1..7 /\ 8 + (j - 8) = j)
    OBVIOUS
  <2>4. \A j \in 1..15 : 0 + j = j
    OBVIOUS
  <2>5. QED
    BY <2>1, <2>2, <2>3, <2>4
<1>3. /\ up[16] = [do |-> "role"]
      /\ \A i \in 1..13 : up[16 + i] = [do |-> "isolate", table |-> InitialGuarded[i]]
      /\ up[30] = [do |-> "revoke", table |-> "audit_entries", what |-> {"UPDATE", "DELETE"}]
      /\ up[31] = [do |-> "grant", table |-> "tenants", what |-> {"SELECT", "INSERT", "UPDATE"}]
      /\ up[32] = [do |-> "grant", table |-> "users", what |-> {"SELECT", "INSERT", "UPDATE"}]
  <2>1. \A i \in 1..3 : up[29 + i] = InitialRights[i]
    BY <1>1, InitialList
  <2>2. up[30] = InitialRights[1] /\ up[31] = InitialRights[2] /\ up[32] = InitialRights[3]
    BY <2>1
  <2>3. /\ up[30] = [do |-> "revoke", table |-> "audit_entries", what |-> {"UPDATE", "DELETE"}]
        /\ up[31] = [do |-> "grant", table |-> "tenants", what |-> {"SELECT", "INSERT", "UPDATE"}]
        /\ up[32] = [do |-> "grant", table |-> "users", what |-> {"SELECT", "INSERT", "UPDATE"}]
    BY <2>2 DEF InitialRights
  <2>4. QED
    BY <1>1, <2>3, InitialList
<1>4. /\ Parted(0, 15, 17, 32, 15) /\ Parted(15, 1, 16, 17, 16) /\ Parted(16, 13, 3, 16, 29)
      /\ Parted(29, 1, 2, 3, 30) /\ Parted(30, 1, 1, 2, 31)
  BY DEF Parted
<1>5. ASSUME NEW d, IsAt(d[0], 0), Steps(d, 0, 32, up)
      PROVE  IsAt(d[32], 1) /\ Fitting(d, 0, 32, up)
  <2>1. PICK a, b, c, e, f, g, h :
          a = d[0] /\ b = d[15] /\ c = d[16] /\ e = d[29] /\ f = d[30] /\ g = d[31] /\ h = d[32]
    OBVIOUS
  <2>2. Shape(a, 0, 0)
    BY <1>5, <2>1, Counts DEF IsAt
  <2>3. /\ Steps(d, 0, 15, up) /\ Steps(d, 15, 17, up)
        /\ Fitting(d, 0, 15, up) /\ Fitting(d, 15, 17, up) => Fitting(d, 0, 32, up)
    BY <1>4, <1>5, SplitAt
  <2>4. /\ Steps(d, 15, 1, up) /\ Steps(d, 16, 16, up)
        /\ Fitting(d, 15, 1, up) /\ Fitting(d, 16, 16, up) => Fitting(d, 15, 17, up)
    BY <1>4, <2>3, SplitAt
  <2>5. /\ Steps(d, 16, 13, up) /\ Steps(d, 29, 3, up)
        /\ Fitting(d, 16, 13, up) /\ Fitting(d, 29, 3, up) => Fitting(d, 16, 16, up)
    BY <1>4, <2>4, SplitAt
  <2>6. /\ Steps(d, 29, 1, up) /\ Steps(d, 30, 2, up)
        /\ Fitting(d, 29, 1, up) /\ Fitting(d, 30, 2, up) => Fitting(d, 29, 3, up)
    BY <1>4, <2>5, SplitAt
  <2>7. /\ Steps(d, 30, 1, up) /\ Steps(d, 31, 1, up)
        /\ Fitting(d, 30, 1, up) /\ Fitting(d, 31, 1, up) => Fitting(d, 30, 2, up)
    BY <1>4, <2>6, SplitAt
  <2>8. IsSchema(b) /\ Built(b, a, 0, 15) /\ Fitting(d, 0, 15, up)
    <3>1. PICK zero, n \in Nat : zero = 0 /\ n = 15
      OBVIOUS
    <3>2. /\ zero \in 0..49 /\ n \in 0..(49 - zero) /\ zero + n = 15 /\ Steps(d, zero, n, up)
          /\ \A j \in 1..n : up[zero + j] = Creation[zero + j]
      BY <1>2, <2>3, <3>1
    <3>3. IsSchema(d[zero]) /\ d[zero].tables = TablesUpTo(zero)
      BY <2>1, <2>2, <3>1 DEF Shape, Fields
    <3>4. /\ IsSchema(d[zero + n]) /\ Built(d[zero + n], d[zero], zero, zero + n) /\ Fitting(d, zero, n, up)
      BY <3>2, <3>3, CreateBlock, Zenon
    <3>5. QED
      BY <2>1, <3>1, <3>2, <3>4
  <2>9. /\ IsSchema(c) /\ Fitting(d, 15, 1, up)
        /\ Fields(c, b.tables, b.links, b.keys, b.columns, b.isolated, b.privileges, TRUE, b.wide)
    <3>1. 15 + 1 = 16 /\ 15 \in Nat
      OBVIOUS
    <3>2. d[16] = S!Applied(d[15], up[16]) /\ (S!Applicable(d[15], up[16]) => Fitting(d, 15, 1, up))
      BY <2>4, <3>1, OneStep
    <3>3. PICK s : s = up[16]
      OBVIOUS
    <3>4. s = [do |-> "role"] /\ c = S!Applied(b, s) /\ (S!Applicable(b, s) => Fitting(d, 15, 1, up))
      BY <1>3, <2>1, <3>2, <3>3
    <3>5. QED
      BY <2>8, <3>4, RoleFields, Zenon
  <2>10. IsSchema(e) /\ GuardedBy(e, c, GuardedUpTo(15)) /\ Fitting(d, 16, 13, up)
    <3>1. PICK m, n \in Nat : m = 16 /\ n = 13
      OBVIOUS
    <3>2. /\ Steps(d, m, n, up) /\ \A j \in 1..n : up[m + j] = [do |-> "isolate",
                 table |-> InitialGuarded[j]]
          /\ m + n = 29
      BY <1>3, <2>5, <3>1
    <3>3. d[m] = c /\ IsSchema(d[m]) /\ d[m].role = TRUE
      BY <2>1, <2>9, <3>1 DEF Fields
    <3>4. \A j \in 1..n : InitialGuarded[j] \in d[m].tables /\ InitialGuarded[j] \notin d[m].isolated
      <4>1. d[m].tables = TablesUpTo(15) /\ d[m].isolated = {}
        BY <2>2, <2>8, <2>9, <3>3, NoneAndOne DEF Shape, Built, Fields
      <4>2. QED
        BY <3>1, <4>1, InitialNames
    <3>5. \A i, j \in 1..n : InitialGuarded[i] = InitialGuarded[j] => i = j
      BY <3>1, InitialNames
    <3>6. /\ IsSchema(d[m + n]) /\ GuardedBy(d[m + n], d[m], FirstOf(InitialGuarded, n))
          /\ Fitting(d, m, n, up)
      BY <3>2, <3>3, <3>4, <3>5, GuardBlock, Zenon
    <3>7. QED
      BY <2>1, <3>1, <3>2, <3>3, <3>6, InitialNames
  <2>11. /\ e.tables = TablesUpTo(15) /\ e.links = LinksBetween(0, 15) /\ e.keys = KeysBetween(0, 15)
         /\ e.columns = {} /\ e.isolated = GuardedUpTo(15)
         /\ e.privileges = GuardedUpTo(15) \X S!Everything /\ e.role = TRUE /\ e.wide = {}
    BY <2>2, <2>8, <2>9, <2>10, NoneAndOne DEF Shape, Built, GuardedBy, Fields
  <2>12. "audit_entries" \in e.tables /\ "tenants" \in e.tables /\ "users" \in e.tables
    <3>1. 15 \in 0..49 /\ 1 <= 15 /\ 2 <= 15 /\ 3 <= 15
      OBVIOUS
    <3>2. QED
      BY <2>11, <3>1, TablesByPlace, PlacesKnown
  <2>13. /\ IsSchema(f) /\ Fitting(d, 29, 1, up)
         /\ Fields(f, e.tables, e.links, e.keys, e.columns, e.isolated,
                   e.privileges \ ({"audit_entries"} \X {"UPDATE", "DELETE"}), e.role, e.wide)
    <3>1. 29 + 1 = 30 /\ 29 \in Nat
      OBVIOUS
    <3>2. d[30] = S!Applied(d[29], up[30]) /\ (S!Applicable(d[29], up[30]) => Fitting(d, 29, 1, up))
      BY <2>6, <3>1, OneStep
    <3>3. PICK s : s = up[30]
      OBVIOUS
    <3>4. /\ s = [do |-> "revoke", table |-> "audit_entries", what |-> {"UPDATE", "DELETE"}]
          /\ f = S!Applied(e, s) /\ (S!Applicable(e, s) => Fitting(d, 29, 1, up))
      BY <1>3, <2>1, <3>2, <3>3
    <3>5. QED
      BY <2>10, <2>11, <2>12, <3>4, RightFields, Zenon
  <2>14. /\ IsSchema(g) /\ Fitting(d, 30, 1, up)
         /\ Fields(g, f.tables, f.links, f.keys, f.columns, f.isolated,
                   f.privileges \union ({"tenants"} \X {"SELECT", "INSERT", "UPDATE"}), f.role, f.wide)
    <3>1. 30 + 1 = 31 /\ 30 \in Nat
      OBVIOUS
    <3>2. d[31] = S!Applied(d[30], up[31]) /\ (S!Applicable(d[30], up[31]) => Fitting(d, 30, 1, up))
      BY <2>7, <3>1, OneStep
    <3>3. PICK s : s = up[31]
      OBVIOUS
    <3>4. /\ s = [do |-> "grant", table |-> "tenants", what |-> {"SELECT", "INSERT", "UPDATE"}]
          /\ g = S!Applied(f, s) /\ (S!Applicable(f, s) => Fitting(d, 30, 1, up))
      BY <1>3, <2>1, <3>2, <3>3
    <3>5. "tenants" \in f.tables /\ f.role = TRUE
      BY <2>11, <2>12, <2>13 DEF Fields
    <3>6. QED
      BY <2>13, <3>4, <3>5, RightFields, Zenon
  <2>15. /\ IsSchema(h) /\ Fitting(d, 31, 1, up)
         /\ Fields(h, g.tables, g.links, g.keys, g.columns, g.isolated,
                   g.privileges \union ({"users"} \X {"SELECT", "INSERT", "UPDATE"}), g.role, g.wide)
    <3>1. 31 + 1 = 32 /\ 31 \in Nat
      OBVIOUS
    <3>2. d[32] = S!Applied(d[31], up[32]) /\ (S!Applicable(d[31], up[32]) => Fitting(d, 31, 1, up))
      BY <2>7, <3>1, OneStep
    <3>3. PICK s : s = up[32]
      OBVIOUS
    <3>4. /\ s = [do |-> "grant", table |-> "users", what |-> {"SELECT", "INSERT", "UPDATE"}]
          /\ h = S!Applied(g, s) /\ (S!Applicable(g, s) => Fitting(d, 31, 1, up))
      BY <1>3, <2>1, <3>2, <3>3
    <3>5. "users" \in g.tables /\ g.role = TRUE
      BY <2>11, <2>12, <2>13, <2>14 DEF Fields
    <3>6. QED
      BY <2>14, <3>4, <3>5, RightFields, Zenon
  <2>16. h.privileges = PrivilegesWith(15, 1)
    <3>1. PICK old : old = GuardedUpTo(15) \X S!Everything
      OBVIOUS
    <3>2. {"audit_entries"} \X {"UPDATE", "DELETE"} = Changing
      BY DEF Changing
    <3>3. IdentityRights = ({"tenants"} \X {"SELECT", "INSERT", "UPDATE"})
                           \union ({"users"} \X {"SELECT", "INSERT", "UPDATE"})
      BY DEF IdentityRights
    <3>4. h.privileges = ((old \ ({"audit_entries"} \X {"UPDATE", "DELETE"}))
                          \union ({"tenants"} \X {"SELECT", "INSERT", "UPDATE"}))
                         \union ({"users"} \X {"SELECT", "INSERT", "UPDATE"})
      BY <2>11, <2>13, <2>14, <2>15, <3>1, Zenon DEF Fields
    <3>5. QED
      BY <3>1, <3>2, <3>3, <3>4, NoneAndOne
  <2>17. Shape(h, 15, 1)
    <3>1. /\ h.tables = e.tables /\ h.links = e.links /\ h.keys = e.keys /\ h.columns = e.columns
          /\ h.isolated = e.isolated /\ h.role = e.role /\ h.wide = e.wide
      BY <2>13, <2>14, <2>15 DEF Fields
    <3>2. QED
      BY <2>11, <2>15, <2>16, <3>1, NoneAndOne DEF Shape, Fields
  <2>18. IsAt(d[32], 1)
    BY <2>1, <2>17, Counts DEF IsAt
  <2>19. QED
    BY <2>3, <2>4, <2>5, <2>6, <2>7, <2>8, <2>9, <2>10, <2>13, <2>14, <2>15, <2>18
<1>6. QED
  BY <1>1, <1>5, InitialList DEF Leads

\* The downgrade of revision 1 leads to an empty database.
LEMMA InitialDownMoves == Leads(S!Downgrades[1], 16, 1, 0) /\ IsList(S!Downgrades[1], 16)
<1>1. PICK down : down = S!InitialDown
  OBVIOUS
<1>2. S!Downgrades[1] = down
  BY <1>1 DEF S!Downgrades
<1>3. /\ IsList(down, 16) /\ down[16] = [do |-> "droprole"]
      /\ \A i \in 1..15 : down[i] = Dropping(InitialDrops[i])
  BY <1>1, InitialDownList
<1>4. PICK zero, n, hi \in Nat : zero = 0 /\ n = 15 /\ hi = 15
  OBVIOUS
<1>5. \A j \in 1..n : down[zero + j] = Dropping(Downward(hi)[j])
  <2>1. \A j \in 1..15 : j \in Nat /\ 15 + 1 - j = 16 - j /\ 0 + j = j
    OBVIOUS
  <2>2. \A j \in 1..15 : Downward(15)[j] = Name(15 + 1 - j)
    BY <2>1, Zenon DEF Downward
  <2>3. \A j \in 1..15 : down[0 + j] = Dropping(Downward(15)[j])
    BY <1>3, <2>1, <2>2, InitialDropNames
  <2>4. QED
    BY <1>4, <2>3
<1>6. DropList(Downward(hi), n, zero, hi)
  <2>1. zero \in 0..49 /\ hi \in zero..49 /\ n = hi - zero
    BY <1>4
  <2>2. QED
    BY <2>1, DownwardNames, Zenon
<1>7. \A t : t \in Above(zero, hi) <=> t \in TablesUpTo(15)
  <2>1. zero \in 0..49 /\ hi \in 0..49
    BY <1>4
  <2>2. \A t : t \in Above(zero, hi) <=> t \in Names /\ zero < Place[t] /\ Place[t] <= hi
    BY <2>1, AboveByPlace, Zenon
  <2>3. \A t : t \in TablesUpTo(hi) <=> t \in Names /\ Place[t] <= hi
    BY <2>1, TablesByPlace, Zenon
  <2>4. \A t \in Names : 0 < Place[t]
    BY NamesListed
  <2>5. QED
    BY <1>4, <2>2, <2>3, <2>4
<1>8. ASSUME NEW d, IsAt(d[0], 1), Steps(d, 0, 16, down)
      PROVE  IsAt(d[16], 0) /\ Fitting(d, 0, 16, down)
  <2>1. PICK a, b, c : a = d[0] /\ b = d[15] /\ c = d[16]
    OBVIOUS
  <2>2. Shape(a, 15, 1)
    BY <1>8, <2>1, Counts DEF IsAt
  <2>3. /\ Steps(d, 0, 15, down) /\ c = S!Applied(b, down[16])
        /\ S!Applicable(b, down[16]) /\ Fitting(d, 0, 15, down) => Fitting(d, 0, 16, down)
    <3>1. 15 + 1 = 16 /\ 15 \in Nat
      OBVIOUS
    <3>2. QED
      BY <1>8, <2>1, <3>1, LastStep
  <2>4. /\ IsSchema(a) /\ a.tables = TablesUpTo(15) /\ a.links = LinksBetween(0, 15)
        /\ a.keys = KeysBetween(0, 15) /\ a.columns = {} /\ a.isolated = GuardedUpTo(15)
        /\ a.privileges = ((GuardedUpTo(15) \X S!Everything) \ Changing) \union IdentityRights
        /\ a.wide = {}
    BY <2>2, NoneAndOne DEF Shape, Fields
  <2>5. \A l \in a.links : LinkFits(l, 0, 15)
    <3>1. 0 \in 0..49 /\ 15 \in 0..49
      OBVIOUS
    <3>2. QED
      BY <2>4, <3>1, LinksFit
  <2>6. Droppable(a, Downward(hi), n)
    <3>1. \A j \in 1..n : Downward(hi)[j] \in a.tables
      BY <1>6, <1>7, <2>4 DEF DropList, FirstOf
    <3>2. \A l \in a.links : \A j \in 1..n : l[3] = Downward(hi)[j] =>
             l[1] = l[3] \/ \E i \in 1..(j - 1) : l[1] = Downward(hi)[i]
      BY <1>4, <1>6, <2>5 DEF DropList, LinkFits
    <3>3. QED
      BY <1>6, <3>1, <3>2, Zenon DEF Droppable, DropList
  <2>7. IsSchema(b) /\ DroppedFrom(b, a, TablesUpTo(15)) /\ Fitting(d, 0, 15, down)
    <3>1. /\ IsSchema(d[zero]) /\ Steps(d, zero, n, down) /\ Droppable(d[zero], Downward(hi), n)
          /\ zero + n = 15
      BY <1>4, <2>1, <2>3, <2>4, <2>6
    <3>2. /\ IsSchema(d[zero + n]) /\ DroppedFrom(d[zero + n], d[zero], FirstOf(Downward(hi), n))
          /\ Fitting(d, zero, n, down)
      BY <1>5, <3>1, DropBlock, Zenon
    <3>3. FirstOf(Downward(hi), n) = TablesUpTo(15)
      BY <1>6, <1>7 DEF DropList
    <3>4. QED
      BY <1>4, <2>1, <3>1, <3>2, <3>3
  <2>8. \A l \in a.links : l[1] \in TablesUpTo(15)
    <3>1. 15 \in 0..49
      OBVIOUS
    <3>2. \A t : t \in Names /\ Place[t] <= 15 => t \in TablesUpTo(15)
      BY <3>1, TablesByPlace
    <3>3. QED
      BY <2>5, <3>2 DEF LinkFits
  <2>9. \A k \in a.keys : k[1] \in TablesUpTo(15)
    <3>1. 0 \in 0..49 /\ 15 \in 0..49
      OBVIOUS
    <3>2. \A t : t \in Names /\ Place[t] <= 15 => t \in TablesUpTo(15)
      BY <3>1, TablesByPlace
    <3>3. \A k \in a.keys : KeyFits(k, 0, 15)
      BY <2>4, <3>1, KeysFit
    <3>4. QED
      BY <3>2, <3>3 DEF KeyFits
  <2>10. \A p \in a.privileges : p[1] \in TablesUpTo(15)
    <3>1. 15 \in 0..49 /\ 1 <= 15 /\ 2 <= 15
      OBVIOUS
    <3>2. "tenants" \in TablesUpTo(15) /\ "users" \in TablesUpTo(15)
      BY <3>1, TablesByPlace, PlacesKnown
    <3>3. \A p \in IdentityRights : p[1] \in TablesUpTo(15)
      BY <3>2 DEF IdentityRights
    <3>4. \A p \in GuardedUpTo(15) \X S!Everything : p[1] \in TablesUpTo(15)
      BY DEF GuardedUpTo
    <3>5. QED
      BY <2>4, <3>3, <3>4
  <2>11. /\ b.tables = {} /\ b.links = {} /\ b.keys = {} /\ b.columns = {} /\ b.isolated = {}
         /\ b.privileges = {} /\ b.wide = {}
    <3>1. GuardedUpTo(15) \ TablesUpTo(15) = {}
      BY DEF GuardedUpTo
    <3>2. QED
      BY <2>4, <2>7, <2>8, <2>9, <2>10, <3>1 DEF DroppedFrom, Fields
  <2>12. PICK s : s = down[16]
    OBVIOUS
  <2>13. /\ IsSchema(c) /\ S!Applicable(b, s)
         /\ Fields(c, b.tables, b.links, b.keys, b.columns, b.isolated, b.privileges, FALSE, b.wide)
    <3>1. s = [do |-> "droprole"] /\ c = S!Applied(b, s)
      BY <1>3, <2>3, <2>12
    <3>2. QED
      BY <2>7, <2>11, <3>1, RoleFields, Zenon
  <2>14. Shape(c, 0, 0)
    BY <2>11, <2>13, NoneAndOne DEF Shape, Fields
  <2>15. QED
    BY <2>1, <2>3, <2>7, <2>12, <2>13, <2>14, Counts DEF IsAt
<1>9. QED
  BY <1>2, <1>3, <1>8 DEF Leads

-----------------------------------------------------------------------------
(* The keys and links of the tenants.                                      *)

\* s is a but for its links and its keys.
Altered(s, a, links, keys) ==
  /\ IsSchema(s)
  /\ Fields(s, a.tables, links, keys, a.columns, a.isolated, a.privileges, a.role, a.wide)
\* The statement s adds links and keys to any schema, or removes them.
Adds(s, links, keys) ==
  \A a : IsSchema(a) => Altered(S!Applied(a, s), a, a.links \union links, a.keys \union keys)
Takes(s, links, keys) ==
  \A a : IsSchema(a) => Altered(S!Applied(a, s), a, a.links \ links, a.keys \ keys)
\* The members of the first j sets.
AllFirst(sets, j) == UNION {sets[i] : i \in 1..j}

\* The union of one more set.
LEMMA AllNext ==
  ASSUME NEW sets, NEW j \in Nat, j > 0
  PROVE  AllFirst(sets, j) = AllFirst(sets, j - 1) \union sets[j] /\ AllFirst(sets, 0) = {}
<1>1. 1..j = (1..(j - 1)) \union {j} /\ 1..0 = {}
  OBVIOUS
<1>2. QED
  BY <1>1, Zenon DEF AllFirst

AddsEach(script, m, c, links, keys) == \A j \in 1..c : Adds(script[m + j], links[j], keys[j])
TakesEach(script, m, c, links, keys) == \A j \in 1..c : Takes(script[m + j], links[j], keys[j])
AddedUpTo(d, m, j, links, keys) ==
  Altered(d[m + j], d[m], d[m].links \union AllFirst(links, j), d[m].keys \union AllFirst(keys, j))
TakenUpTo(d, m, j, links, keys) ==
  Altered(d[m + j], d[m], d[m].links \ AllFirst(links, j), d[m].keys \ AllFirst(keys, j))

\* Statements that add links and keys, one after the other.
LEMMA AddBlock ==
  ASSUME NEW d, NEW m \in Nat, NEW c \in Nat, NEW script, NEW links, NEW keys,
         IsSchema(d[m]), Steps(d, m, c, script), AddsEach(script, m, c, links, keys)
  PROVE  \A j \in 0..c : AddedUpTo(d, m, j, links, keys)
<1> DEFINE good == {j \in 0..c : AddedUpTo(d, m, j, links, keys)}
<1>1. 0 \in good
  <2>1. d[m + 0] = d[m] /\ 1..0 = {}
    OBVIOUS
  <2>2. AllFirst(links, 0) = {} /\ AllFirst(keys, 0) = {}
    BY <2>1 DEF AllFirst
  <2>3. AddedUpTo(d, m, 0, links, keys)
    BY <2>1, <2>2 DEF AddedUpTo, Altered, Fields
  <2>4. QED
    BY <2>3
<1>2. ASSUME NEW j \in 1..c, AddedUpTo(d, m, j - 1, links, keys)
      PROVE  AddedUpTo(d, m, j, links, keys)
  <2>1. PICK a, b, s, more, lock : /\ a = d[m + j - 1] /\ b = d[m + j] /\ s = script[m + j]
                                   /\ more = links[j] /\ lock = keys[j]
    OBVIOUS
  <2>2. PICK before, held : before = AllFirst(links, j - 1) /\ held = AllFirst(keys, j - 1)
    OBVIOUS
  <2>3. Altered(a, d[m], d[m].links \union before, d[m].keys \union held)
    <3>1. m + (j - 1) = m + j - 1
      OBVIOUS
    <3>2. QED
      BY <1>2, <2>1, <2>2, <3>1 DEF AddedUpTo
  <2>4. b = S!Applied(a, s) /\ Adds(s, more, lock)
    BY <2>1, Zenon DEF Steps, AddsEach
  <2>5. Altered(b, a, a.links \union more, a.keys \union lock)
    BY <2>3, <2>4 DEF Adds, Altered
  <2>6. Altered(b, d[m], d[m].links \union (before \union more), d[m].keys \union (held \union lock))
    BY <2>3, <2>5 DEF Altered, Fields
  <2>7. AllFirst(links, j) = before \union more /\ AllFirst(keys, j) = held \union lock
    BY <2>1, <2>2, AllNext
  <2>8. QED
    BY <2>1, <2>6, <2>7 DEF AddedUpTo
<1>3. 0..c \subseteq good
  <2>1. \A j \in 1..c : j - 1 \in good => j \in good
    BY <1>2
  <2> HIDE DEF good
  <2>2. QED
    BY <1>1, <2>1, CountUp, Zenon
<1>4. QED
  BY <1>3

\* Statements that take links and keys away, one after the other.
LEMMA TakeBlock ==
  ASSUME NEW d, NEW m \in Nat, NEW c \in Nat, NEW script, NEW links, NEW keys,
         IsSchema(d[m]), Steps(d, m, c, script), TakesEach(script, m, c, links, keys)
  PROVE  \A j \in 0..c : TakenUpTo(d, m, j, links, keys)
<1> DEFINE good == {j \in 0..c : TakenUpTo(d, m, j, links, keys)}
<1>1. 0 \in good
  <2>1. d[m + 0] = d[m] /\ 1..0 = {}
    OBVIOUS
  <2>2. AllFirst(links, 0) = {} /\ AllFirst(keys, 0) = {}
    BY <2>1 DEF AllFirst
  <2>3. TakenUpTo(d, m, 0, links, keys)
    BY <2>1, <2>2 DEF TakenUpTo, Altered, Fields
  <2>4. QED
    BY <2>3
<1>2. ASSUME NEW j \in 1..c, TakenUpTo(d, m, j - 1, links, keys)
      PROVE  TakenUpTo(d, m, j, links, keys)
  <2>1. PICK a, b, s, more, lock : /\ a = d[m + j - 1] /\ b = d[m + j] /\ s = script[m + j]
                                   /\ more = links[j] /\ lock = keys[j]
    OBVIOUS
  <2>2. PICK before, held : before = AllFirst(links, j - 1) /\ held = AllFirst(keys, j - 1)
    OBVIOUS
  <2>3. Altered(a, d[m], d[m].links \ before, d[m].keys \ held)
    <3>1. m + (j - 1) = m + j - 1
      OBVIOUS
    <3>2. QED
      BY <1>2, <2>1, <2>2, <3>1 DEF TakenUpTo
  <2>4. b = S!Applied(a, s) /\ Takes(s, more, lock)
    BY <2>1, Zenon DEF Steps, TakesEach
  <2>5. Altered(b, a, a.links \ more, a.keys \ lock)
    BY <2>3, <2>4 DEF Takes, Altered
  <2>6. Altered(b, d[m], d[m].links \ (before \union more), d[m].keys \ (held \union lock))
    BY <2>3, <2>5 DEF Altered, Fields
  <2>7. AllFirst(links, j) = before \union more /\ AllFirst(keys, j) = held \union lock
    BY <2>1, <2>2, AllNext
  <2>8. QED
    BY <2>1, <2>6, <2>7 DEF TakenUpTo
<1>3. 0..c \subseteq good
  <2>1. \A j \in 1..c : j - 1 \in good => j \in good
    BY <1>2
  <2> HIDE DEF good
  <2>2. QED
    BY <1>1, <2>1, CountUp, Zenon
<1>4. QED
  BY <1>3

\* The statements of the ownership revision.
LEMMA KeyEffects ==
  ASSUME NEW s, NEW t, NEW columns
  PROVE  /\ s = S!Key("unique", t, columns) => Adds(s, {}, {<<t, columns>>})
         /\ s = S!Key("ununique", t, columns) => Takes(s, {}, {<<t, columns>>})
<1>1. ASSUME s = S!Key("unique", t, columns), NEW a, IsSchema(a)
      PROVE  Altered(S!Applied(a, s), a, a.links \union {}, a.keys \union {<<t, columns>>})
  <2>1. a.links \union {} = a.links
    OBVIOUS
  <2>2. QED
    BY <1>1, <2>1, KeyFields DEF Altered
<1>2. ASSUME s = S!Key("ununique", t, columns), NEW a, IsSchema(a)
      PROVE  Altered(S!Applied(a, s), a, a.links \ {}, a.keys \ {<<t, columns>>})
  <2>1. a.links \ {} = a.links
    OBVIOUS
  <2>2. QED
    BY <1>2, <2>1, KeyFields DEF Altered
<1>3. QED
  BY <1>1, <1>2 DEF Adds, Takes

\* A new link adds it and its removal takes it away; nothing else changes.
LEMMA LinkEffects ==
  ASSUME NEW s, NEW t, NEW x, NEW p, NEW scope
  PROVE  /\ s = S!Link("refer", t, x, p, scope) => Adds(s, {<<t, x, p, scope>>}, {})
         /\ s = S!Link("unrefer", t, x, p, scope) => Takes(s, {<<t, x, p, scope>>}, {})
<1>1. ASSUME s = S!Link("refer", t, x, p, scope), NEW a, IsSchema(a)
      PROVE  Altered(S!Applied(a, s), a, a.links \union {<<t, x, p, scope>>}, a.keys \union {})
  <2>1. Columned(S!Applied(a, s), a, a.links \union {<<t, x, p, scope>>}, a.columns)
    BY <1>1, ReferFields, Zenon
  <2>2. QED
    BY <2>1 DEF Altered, Columned, Fields
<1>2. ASSUME s = S!Link("unrefer", t, x, p, scope), NEW a, IsSchema(a)
      PROVE  Altered(S!Applied(a, s), a, a.links \ {<<t, x, p, scope>>}, a.keys \ {})
  <2>1. Columned(S!Applied(a, s), a, a.links \ {<<t, x, p, scope>>}, a.columns)
    BY <1>2, ReferFields, Zenon
  <2>2. QED
    BY <2>1 DEF Altered, Columned, Fields
<1>3. QED
  BY <1>1, <1>2 DEF Adds, Takes

\* The parents are distinct tables.
LEMMA ParentsListed ==
  /\ \A i \in 1..11 : S!Parents[i] \in Names
  /\ \A i, j \in 1..11 : S!Parents[i] = S!Parents[j] => i = j
BY DEF S!Parents, Names, Place

\* The relationships are distinct, and each is to one of the parents.
LEMMA RelationshipsListed ==
  /\ \A i \in 1..27 : S!Relationships[i][1] \in Names
  /\ \A i \in 1..27 : \E j \in 1..11 : S!Relationships[i][3] = S!Parents[j]
  /\ \A i, j \in 1..27 :
       (S!Relationships[i][1] = S!Relationships[j][1] /\ S!Relationships[i][2] = S!Relationships[j][2]
        /\ S!Relationships[i][3] = S!Relationships[j][3]) => i = j
<1>1. \A i \in 1..27 : S!Relationships[i][1] \in Names
  BY DEF S!Relationships, Names, Place
<1>2. \A i \in 1..27 : \E j \in 1..11 : S!Relationships[i][3] = S!Parents[j]
  BY DEF S!Relationships, S!Parents
<1>3. \A i, j \in 1..27 :
        (S!Relationships[i][1] = S!Relationships[j][1] /\ S!Relationships[i][2] = S!Relationships[j][2]
         /\ S!Relationships[i][3] = S!Relationships[j][3]) => i = j
  BY DEF S!Relationships
<1>4. QED
  BY <1>1, <1>2, <1>3, Zenon

\* What the shapes of revisions 11 and 12 share, and where they differ.
LEMMA ElevenAndTwelve ==
  ASSUME NEW n
  PROVE  /\ LinksWith(n, 12) = LinksWith(n, 11) \union FirstOf(TenantLinkList, 27)
         /\ KeysWith(n, 12) = KeysWith(n, 11) \union FirstOf(ParentKeyList, 11)
         /\ ColumnsWith(11) = ColumnsWith(12) /\ PrivilegesWith(n, 11) = PrivilegesWith(n, 12)
         /\ RoleWith(11) = RoleWith(12) /\ WideWith(11) = WideWith(12)
<1>1. /\ LinksWith(n, 12) = LinksWith(n, 11) \union FirstOf(TenantLinkList, 27)
      /\ KeysWith(n, 12) = KeysWith(n, 11) \union FirstOf(ParentKeyList, 11)
  BY DEF LinksWith, KeysWith
<1>2. ColumnsWith(11) = ColumnsWith(12) /\ WideWith(11) = WideWith(12)
  BY DEF ColumnsWith, WideWith
<1>3. PrivilegesWith(n, 11) = PrivilegesWith(n, 12) /\ RoleWith(11) = RoleWith(12)
  BY DEF PrivilegesWith, RoleWith
<1>4. QED
  BY <1>1, <1>2, <1>3

\* Every table exists at the last place.
LEMMA AllNames == \A t \in Names : t \in TablesUpTo(49)
<1>1. 49 \in 0..49
  OBVIOUS
<1>2. \A t \in Names : Place[t] <= 49
  BY NamesListed
<1>3. QED
  BY <1>1, <1>2, TablesByPlace, Zenon

\* The links of a tenant are all of their own scope, its keys the only ones of an id.
LEMMA TenantsApart ==
  /\ \A l \in LinksWith(49, 11) : l[4] = "id"
  /\ \A i \in 1..27 : TenantLinkList[i] = TenantLink(i) /\ TenantLink(i)[4] = "tenant"
  /\ \A i, j \in 1..27 : TenantLinkList[i] = TenantLinkList[j] => i = j
  /\ \A k \in KeysWith(49, 11) : "id" \notin k[2]
  /\ \A i \in 1..11 : ParentKeyList[i] = <<S!Parents[i], S!TenantKey>> /\ "id" \in ParentKeyList[i][2]
  /\ \A i, j \in 1..11 : ParentKeyList[i] = ParentKeyList[j] => i = j
<1>1. \A l \in LinksBetween(0, 49) : LinkFits(l, 0, 49)
  <2>1. 0 \in 0..49 /\ 49 \in 0..49
    OBVIOUS
  <2>2. QED
    BY <2>1, LinksFit
<1>2. \A k \in KeysBetween(0, 49) : KeyFits(k, 0, 49)
  <2>1. 0 \in 0..49 /\ 49 \in 0..49
    OBVIOUS
  <2>2. QED
    BY <2>1, KeysFit
<1>3. \A l \in LinksWith(49, 11) : l[4] = "id"
  BY <1>1 DEF LinksWith, LinkFits, Reversal
<1>4. \A k \in KeysWith(49, 11) : "id" \notin k[2]
  BY <1>2 DEF KeysWith, KeyFits, OwnKey
<1>5. \A i \in 1..27 : TenantLinkList[i] = TenantLink(i) /\ TenantLink(i)[4] = "tenant"
  BY DEF TenantLinkList, TenantLink
<1>6. \A i, j \in 1..27 : TenantLinkList[i] = TenantLinkList[j] => i = j
  <2> SUFFICES ASSUME NEW i \in 1..27, NEW j \in 1..27, TenantLink(i) = TenantLink(j) PROVE i = j
    BY <1>5
  <2>1. /\ S!Relationships[i][1] = S!Relationships[j][1] /\ S!Relationships[i][2] = S!Relationships[j][2]
        /\ S!Relationships[i][3] = S!Relationships[j][3]
    BY DEF TenantLink
  <2>2. QED
    BY <2>1, RelationshipsListed, Zenon
<1>7. \A i \in 1..11 : ParentKeyList[i] = <<S!Parents[i], S!TenantKey>> /\ "id" \in ParentKeyList[i][2]
  BY DEF ParentKeyList, S!TenantKey
<1>8. \A i, j \in 1..11 : ParentKeyList[i] = ParentKeyList[j] => i = j
  <2> SUFFICES ASSUME NEW i \in 1..11, NEW j \in 1..11, ParentKeyList[i] = ParentKeyList[j] PROVE i = j
    OBVIOUS
  <2>1. S!Parents[i] = S!Parents[j]
    BY <1>7
  <2>2. QED
    BY <2>1, ParentsListed
<1>9. QED
  BY <1>3, <1>4, <1>5, <1>6, <1>7, <1>8, Zenon

\* One member in each set of a list.
Singles(list, n) == [i \in 1..n |-> {list[i]}]
Backwards(list, n) == [i \in 1..n |-> {list[n + 1 - i]}]
Empties(n) == [i \in 1..n |-> {}]

\* The first members of a list, of the list backwards, and of nothing.
LEMMA AllSingles ==
  ASSUME NEW list, NEW n \in Nat, NEW j \in 0..n
  PROVE  /\ AllFirst(Singles(list, n), j) = FirstOf(list, j)
         /\ AllFirst(Backwards(list, n), j) = {list[n + 1 - i] : i \in 1..j}
         /\ AllFirst(Empties(n), j) = {}
<1>1. \A i \in 1..j : i \in 1..n
  OBVIOUS
<1>2. AllFirst(Singles(list, n), j) = FirstOf(list, j)
  BY <1>1 DEF AllFirst, Singles, FirstOf
<1>3. AllFirst(Backwards(list, n), j) = {list[n + 1 - i] : i \in 1..j}
  BY <1>1 DEF AllFirst, Backwards
<1>4. AllFirst(Empties(n), j) = {}
  BY <1>1 DEF AllFirst, Empties
<1>5. QED
  BY <1>2, <1>3, <1>4

\* The upgrade to revision 12 leads there.
LEMMA OwnershipUpMoves == Leads(S!Upgrades[12], 38, 11, 12) /\ IsList(S!Upgrades[12], 38)
<1>1. PICK up : up = S!OwnershipUp
  OBVIOUS
<1>2. S!Upgrades[12] = up
  BY <1>1 DEF S!Upgrades
<1>3. /\ IsList(up, 38)
      /\ \A i \in 1..11 : up[i] = S!Key("unique", S!Parents[i], S!TenantKey)
      /\ \A i \in 1..27 : up[11 + i] =
           S!Link("refer", S!Relationships[i][1], S!Relationships[i][2], S!Relationships[i][3], "tenant")
  BY <1>1, OwnershipList
<1>4. PICK zero, n, m \in Nat : zero = 0 /\ n = 11 /\ m = 27
  OBVIOUS
<1>5. AddsEach(up, zero, n, Empties(n), Singles(ParentKeyList, n))
  <2> SUFFICES ASSUME NEW j \in 1..11 PROVE Adds(up[0 + j], Empties(11)[j], Singles(ParentKeyList, 11)[j])
    BY <1>4 DEF AddsEach
  <2>1. PICK s : s = up[j] /\ s = S!Key("unique", S!Parents[j], S!TenantKey)
    BY <1>3
  <2>2. Adds(s, {}, {<<S!Parents[j], S!TenantKey>>})
    BY <2>1, KeyEffects
  <2>3. /\ Empties(11)[j] = {} /\ Singles(ParentKeyList, 11)[j] = {<<S!Parents[j], S!TenantKey>>}
        /\ 0 + j = j
    <3>1. ParentKeyList[j] = <<S!Parents[j], S!TenantKey>>
      BY TenantsApart
    <3>2. Empties(11)[j] = {} /\ Singles(ParentKeyList, 11)[j] = {ParentKeyList[j]} /\ 0 + j = j
      BY DEF Empties, Singles
    <3>3. QED
      BY <3>1, <3>2
  <2>4. QED
    BY <2>1, <2>2, <2>3
<1>6. AddsEach(up, n, m, Singles(TenantLinkList, m), Empties(m))
  <2> SUFFICES ASSUME NEW j \in 1..27 PROVE Adds(up[11 + j], Singles(TenantLinkList, 27)[j], Empties(27)[j])
    BY <1>4 DEF AddsEach
  <2>1. PICK s : s = up[11 + j] /\ s = S!Link("refer", S!Relationships[j][1], S!Relationships[j][2],
                                              S!Relationships[j][3], "tenant")
    BY <1>3
  <2>2. Adds(s, {TenantLink(j)}, {})
    BY <2>1, LinkEffects DEF TenantLink
  <2>3. Empties(27)[j] = {} /\ Singles(TenantLinkList, 27)[j] = {TenantLink(j)}
    BY TenantsApart DEF Empties, Singles
  <2>4. QED
    BY <2>1, <2>2, <2>3
<1>7. Parted(zero, n, m, 38, n)
  BY <1>4 DEF Parted
<1>8. ASSUME NEW d, IsAt(d[0], 11), Steps(d, 0, 38, up)
      PROVE  IsAt(d[38], 12) /\ Fitting(d, 0, 38, up)
  <2>1. PICK a, b, c : a = d[0] /\ b = d[11] /\ c = d[38]
    OBVIOUS
  <2>2. Shape(a, 49, 11)
    BY <1>8, <2>1, Counts DEF IsAt
  <2>3. /\ Steps(d, zero, n, up) /\ Steps(d, n, m, up)
        /\ Fitting(d, zero, n, up) /\ Fitting(d, n, m, up) => Fitting(d, 0, 38, up)
    <3>1. Steps(d, zero, 38, up)
      BY <1>4, <1>8
    <3>2. QED
      BY <1>4, <1>7, <3>1, SplitAt
  <2>4. /\ IsSchema(a) /\ a.tables = TablesUpTo(49) /\ a.links = LinksWith(49, 11)
        /\ a.keys = KeysWith(49, 11)
    BY <2>2 DEF Shape, Fields
  <2>5. \A j \in 0..11 : Altered(d[j], a, a.links, a.keys \union FirstOf(ParentKeyList, j))
    <3>1. IsSchema(d[zero])
      BY <1>4, <2>1, <2>4
    <3>2. \A j \in 0..n : AddedUpTo(d, zero, j, Empties(n), Singles(ParentKeyList, n))
      BY <1>5, <2>3, <3>1, AddBlock, Zenon
    <3> SUFFICES ASSUME NEW j \in 0..11
            PROVE Altered(d[j], a, a.links, a.keys \union FirstOf(ParentKeyList, j))
      OBVIOUS
    <3>3. /\ AllFirst(Empties(n), j) = {}
          /\ AllFirst(Singles(ParentKeyList, n), j) = FirstOf(ParentKeyList, j)
      BY <1>4, AllSingles
    <3>4. zero + j = j /\ a.links \union {} = a.links /\ j \in 0..n
      BY <1>4
    <3>5. AddedUpTo(d, zero, j, Empties(n), Singles(ParentKeyList, n)) /\ d[zero] = a
      BY <1>4, <2>1, <3>2, <3>4
    <3>6. Altered(d[j], a, a.links \union {}, a.keys \union FirstOf(ParentKeyList, j))
      BY <3>3, <3>4, <3>5, Zenon DEF AddedUpTo
    <3>7. QED
      BY <3>4, <3>6
  <2>6. Altered(b, a, a.links, a.keys \union FirstOf(ParentKeyList, 11))
    <3>1. 11 \in 0..11
      OBVIOUS
    <3>2. QED
      BY <2>1, <2>5, <3>1
  <2>7. \A j \in 0..27 : Altered(d[11 + j], b, b.links \union FirstOf(TenantLinkList, j), b.keys)
    <3>1. IsSchema(d[n])
      BY <1>4, <2>1, <2>6 DEF Altered
    <3>2. \A j \in 0..m : AddedUpTo(d, n, j, Singles(TenantLinkList, m), Empties(m))
      BY <1>6, <2>3, <3>1, AddBlock, Zenon
    <3> SUFFICES ASSUME NEW j \in 0..27
            PROVE Altered(d[11 + j], b, b.links \union FirstOf(TenantLinkList, j), b.keys)
      OBVIOUS
    <3>3. /\ AllFirst(Empties(m), j) = {}
          /\ AllFirst(Singles(TenantLinkList, m), j) = FirstOf(TenantLinkList, j)
      BY <1>4, AllSingles
    <3>4. n + j = 11 + j /\ b.keys \union {} = b.keys /\ j \in 0..m
      BY <1>4
    <3>5. AddedUpTo(d, n, j, Singles(TenantLinkList, m), Empties(m)) /\ d[n] = b
      BY <1>4, <2>1, <3>2, <3>4
    <3>6. Altered(d[n + j], b, b.links \union FirstOf(TenantLinkList, j), b.keys \union {})
      BY <3>3, <3>4, <3>5, Zenon DEF AddedUpTo
    <3>7. QED
      BY <3>4, <3>6
  <2>8. Shape(c, 49, 12)
    <3>1. 27 \in 0..27 /\ 11 + 27 = 38
      OBVIOUS
    <3>2. Altered(c, b, b.links \union FirstOf(TenantLinkList, 27), b.keys)
      BY <2>1, <2>7, <3>1
    <3>3. c.links = LinksWith(49, 12) /\ c.keys = KeysWith(49, 12)
      BY <2>4, <2>6, <3>2, ElevenAndTwelve DEF Altered, Fields
    <3>4. QED
      BY <2>2, <2>6, <3>2, <3>3, ElevenAndTwelve DEF Shape, Altered, Fields
  <2>9. Fitting(d, zero, n, up)
    <3> SUFFICES ASSUME NEW j \in 1..11 PROVE S!Applicable(d[0 + j - 1], up[0 + j])
      BY <1>4 DEF Fitting
    <3>1. PICK s, x : s = up[j] /\ s = S!Key("unique", S!Parents[j], S!TenantKey) /\ x = d[j - 1]
      BY <1>3
    <3>2. j - 1 \in 0..11 /\ 0 + j = j /\ 0 + j - 1 = j - 1
      OBVIOUS
    <3>3. x.tables = TablesUpTo(49) /\ x.keys = KeysWith(49, 11) \union FirstOf(ParentKeyList, j - 1)
      BY <2>4, <2>5, <3>1, <3>2 DEF Altered, Fields
    <3>4. ParentKeyList[j] \notin FirstOf(ParentKeyList, j - 1)
      <4>1. \A i \in 1..(j - 1) : i \in 1..11 /\ i # j
        OBVIOUS
      <4>2. \A i \in 1..(j - 1) : ParentKeyList[j] # ParentKeyList[i]
        BY <4>1, TenantsApart
      <4>3. QED
        BY <4>2 DEF FirstOf
    <3>5. <<S!Parents[j], S!TenantKey>> \notin x.keys
      BY <3>3, <3>4, TenantsApart
    <3>6. S!Parents[j] \in x.tables
      BY <3>3, ParentsListed, AllNames
    <3>7. S!Applicable(x, s)
      BY <3>1, <3>5, <3>6, KeyFitting, Zenon
    <3>8. QED
      BY <3>1, <3>2, <3>7
  <2>10. Fitting(d, n, m, up)
    <3> SUFFICES ASSUME NEW j \in 1..27 PROVE S!Applicable(d[11 + j - 1], up[11 + j])
      BY <1>4 DEF Fitting
    <3>1. PICK s, x, t, y, p : /\ s = up[11 + j] /\ s = S!Link("refer", t, y, p, "tenant")
                               /\ t = S!Relationships[j][1] /\ y = S!Relationships[j][2]
                               /\ p = S!Relationships[j][3] /\ x = d[11 + j - 1]
      BY <1>3
    <3>2. j - 1 \in 0..27 /\ 11 + (j - 1) = 11 + j - 1
      OBVIOUS
    <3>3. /\ x.tables = TablesUpTo(49) /\ x.links = LinksWith(49, 11) \union FirstOf(TenantLinkList, j - 1)
          /\ x.keys = KeysWith(49, 11) \union FirstOf(ParentKeyList, 11)
      BY <2>4, <2>6, <2>7, <3>1, <3>2 DEF Altered, Fields
    <3>4. TenantLinkList[j] \notin FirstOf(TenantLinkList, j - 1)
      <4>1. \A i \in 1..(j - 1) : i \in 1..27 /\ i # j
        OBVIOUS
      <4>2. \A i \in 1..(j - 1) : TenantLinkList[j] # TenantLinkList[i]
        BY <4>1, TenantsApart
      <4>3. QED
        BY <4>2 DEF FirstOf
    <3>5. TenantLink(j) = <<t, y, p, "tenant">>
      BY <3>1 DEF TenantLink
    <3>6. <<t, y, p, "tenant">> \notin x.links
      BY <3>3, <3>4, <3>5, TenantsApart, SMTT(30)
    <3>7. PICK i \in 1..11 : p = S!Parents[i]
      BY <3>1, RelationshipsListed, Zenon
    <3>8. <<p, S!TenantKey>> \in x.keys
      BY <3>3, <3>7, TenantsApart DEF FirstOf
    <3>9. {t, p} \subseteq x.tables
      <4>1. t \in Names /\ p \in Names
        BY <3>1, <3>7, ParentsListed, RelationshipsListed, Zenon
      <4>2. QED
        BY <3>3, <4>1, AllNames
    <3>10. S!Applicable(x, s)
      BY <3>1, <3>6, <3>8, <3>9, LinkFitting, Zenon
    <3>11. QED
      BY <3>1, <3>10
  <2>11. QED
    BY <2>1, <2>3, <2>8, <2>9, <2>10, Counts DEF IsAt
<1>9. QED
  BY <1>2, <1>3, <1>8 DEF Leads

\* The downgrade of revision 12 leads back to revision 11.
LEMMA OwnershipDownMoves == Leads(S!Downgrades[12], 38, 12, 11) /\ IsList(S!Downgrades[12], 38)
<1>1. PICK down : down = S!OwnershipDown
  OBVIOUS
<1>2. S!Downgrades[12] = down
  BY <1>1 DEF S!Downgrades
<1>3. /\ IsList(down, 38)
      /\ \A i \in 1..27 : down[i] = S!Link("unrefer", S!Relationships[28 - i][1],
                                           S!Relationships[28 - i][2], S!Relationships[28 - i][3], "tenant")
      /\ \A i \in 1..11 : down[27 + i] = S!Key("ununique", S!Parents[12 - i], S!TenantKey)
  BY <1>1, OwnershipDownList
<1>4. PICK zero, n, m \in Nat : zero = 0 /\ n = 11 /\ m = 27
  OBVIOUS
<1>5. TakesEach(down, zero, m, Backwards(TenantLinkList, m), Empties(m))
  <2> SUFFICES ASSUME NEW j \in 1..27
               PROVE  Takes(down[0 + j], Backwards(TenantLinkList, 27)[j], Empties(27)[j])
    BY <1>4 DEF TakesEach
  <2>1. PICK i \in 1..27 : i = 28 - j /\ 27 + 1 - j = i
    OBVIOUS
  <2>2. PICK s : s = down[j] /\ s = S!Link("unrefer", S!Relationships[i][1], S!Relationships[i][2],
                                           S!Relationships[i][3], "tenant")
    BY <1>3, <2>1
  <2>3. Takes(s, {TenantLink(i)}, {})
    BY <2>2, LinkEffects DEF TenantLink
  <2>4. Empties(27)[j] = {} /\ Backwards(TenantLinkList, 27)[j] = {TenantLink(i)} /\ 0 + j = j
    BY <2>1, TenantsApart DEF Empties, Backwards
  <2>5. QED
    BY <2>2, <2>3, <2>4
<1>6. TakesEach(down, m, n, Empties(n), Backwards(ParentKeyList, n))
  <2> SUFFICES ASSUME NEW j \in 1..11
               PROVE  Takes(down[27 + j], Empties(11)[j], Backwards(ParentKeyList, 11)[j])
    BY <1>4 DEF TakesEach
  <2>1. PICK i \in 1..11 : i = 12 - j /\ 11 + 1 - j = i
    OBVIOUS
  <2>2. PICK s : s = down[27 + j] /\ s = S!Key("ununique", S!Parents[i], S!TenantKey)
    BY <1>3, <2>1
  <2>3. Takes(s, {}, {<<S!Parents[i], S!TenantKey>>})
    BY <2>2, KeyEffects
  <2>4. Empties(11)[j] = {} /\ Backwards(ParentKeyList, 11)[j] = {<<S!Parents[i], S!TenantKey>>}
    BY <2>1, TenantsApart DEF Empties, Backwards
  <2>5. QED
    BY <2>2, <2>3, <2>4
<1>7. Parted(zero, m, n, 38, m)
  BY <1>4 DEF Parted
<1>8. ASSUME NEW d, IsAt(d[0], 12), Steps(d, 0, 38, down)
      PROVE  IsAt(d[38], 11) /\ Fitting(d, 0, 38, down)
  <2>1. PICK a, b, c : a = d[0] /\ b = d[27] /\ c = d[38]
    OBVIOUS
  <2>2. Shape(a, 49, 12)
    BY <1>8, <2>1, Counts DEF IsAt
  <2>3. /\ Steps(d, zero, m, down) /\ Steps(d, m, n, down)
        /\ Fitting(d, zero, m, down) /\ Fitting(d, m, n, down) => Fitting(d, 0, 38, down)
    <3>1. Steps(d, zero, 38, down)
      BY <1>4, <1>8
    <3>2. QED
      BY <1>4, <1>7, <3>1, SplitAt
  <2>4. /\ IsSchema(a) /\ a.links = LinksWith(49, 11) \union FirstOf(TenantLinkList, 27)
        /\ a.keys = KeysWith(49, 11) \union FirstOf(ParentKeyList, 11)
    BY <2>2, ElevenAndTwelve DEF Shape, Fields
  <2>5. \A j \in 0..27 : Altered(d[j], a, a.links \ {TenantLinkList[27 + 1 - i] : i \in 1..j}, a.keys)
    <3>1. IsSchema(d[zero])
      BY <1>4, <2>1, <2>4
    <3>2. \A j \in 0..m : TakenUpTo(d, zero, j, Backwards(TenantLinkList, m), Empties(m))
      BY <1>5, <2>3, <3>1, TakeBlock, Zenon
    <3> SUFFICES ASSUME NEW j \in 0..27
                 PROVE  Altered(d[j], a, a.links \ {TenantLinkList[27 + 1 - i] : i \in 1..j}, a.keys)
      OBVIOUS
    <3>3. /\ AllFirst(Empties(m), j) = {}
          /\ AllFirst(Backwards(TenantLinkList, m), j) = {TenantLinkList[27 + 1 - i] : i \in 1..j}
      BY <1>4, AllSingles
    <3>4. zero + j = j /\ a.keys \ {} = a.keys /\ j \in 0..m
      BY <1>4
    <3>5. TakenUpTo(d, zero, j, Backwards(TenantLinkList, m), Empties(m)) /\ d[zero] = a
      BY <1>4, <2>1, <3>2, <3>4
    <3>6. PICK gone : gone = AllFirst(Backwards(TenantLinkList, m), j)
      OBVIOUS
    <3>7. Altered(d[j], a, a.links \ gone, a.keys \ {})
      BY <3>3, <3>4, <3>5, <3>6, Zenon DEF TakenUpTo
    <3>8. QED
      BY <3>3, <3>4, <3>6, <3>7
  <2>6. Altered(b, a, LinksWith(49, 11), a.keys)
    <3>1. 27 \in 0..27 /\ \A i \in 1..27 : 27 + 1 - i \in 1..27 /\ 27 + 1 - (27 + 1 - i) = i
      OBVIOUS
    <3>2. {TenantLinkList[27 + 1 - i] : i \in 1..27} = FirstOf(TenantLinkList, 27)
      BY <3>1 DEF FirstOf
    <3>3. Altered(b, a, a.links \ FirstOf(TenantLinkList, 27), a.keys)
      BY <2>1, <2>5, <3>1, <3>2
    <3>4. LinksWith(49, 11) \intersect FirstOf(TenantLinkList, 27) = {}
      BY TenantsApart DEF FirstOf
    <3>5. a.links \ FirstOf(TenantLinkList, 27) = LinksWith(49, 11)
      BY <2>4, <3>4
    <3>6. QED
      BY <3>3, <3>5
  <2>7. \A j \in 0..11 : Altered(d[27 + j], b, b.links, b.keys \ {ParentKeyList[11 + 1 - i] : i \in 1..j})
    <3>1. IsSchema(d[m])
      BY <1>4, <2>1, <2>6 DEF Altered
    <3>2. \A j \in 0..n : TakenUpTo(d, m, j, Empties(n), Backwards(ParentKeyList, n))
      BY <1>6, <2>3, <3>1, TakeBlock, Zenon
    <3> SUFFICES ASSUME NEW j \in 0..11
                 PROVE  Altered(d[27 + j], b, b.links, b.keys \ {ParentKeyList[11 + 1 - i] : i \in 1..j})
      OBVIOUS
    <3>3. /\ AllFirst(Empties(n), j) = {}
          /\ AllFirst(Backwards(ParentKeyList, n), j) = {ParentKeyList[11 + 1 - i] : i \in 1..j}
      BY <1>4, AllSingles
    <3>4. m + j = 27 + j /\ b.links \ {} = b.links /\ j \in 0..n
      BY <1>4
    <3>5. TakenUpTo(d, m, j, Empties(n), Backwards(ParentKeyList, n)) /\ d[m] = b
      BY <1>4, <2>1, <3>2, <3>4
    <3>6. PICK gone : gone = AllFirst(Backwards(ParentKeyList, n), j)
      OBVIOUS
    <3>7. Altered(d[27 + j], b, b.links \ {}, b.keys \ gone)
      BY <3>3, <3>4, <3>5, <3>6, Zenon DEF TakenUpTo
    <3>8. QED
      BY <3>3, <3>4, <3>6, <3>7
  <2>8. Shape(c, 49, 11)
    <3>1. 11 \in 0..11 /\ 27 + 11 = 38 /\ \A i \in 1..11 : 11 + 1 - i \in 1..11 /\ 11 + 1 - (11 + 1 - i) = i
      OBVIOUS
    <3>2. {ParentKeyList[11 + 1 - i] : i \in 1..11} = FirstOf(ParentKeyList, 11)
      BY <3>1 DEF FirstOf
    <3>3. Altered(c, b, b.links, b.keys \ FirstOf(ParentKeyList, 11))
      BY <2>1, <2>7, <3>1, <3>2
    <3>4. KeysWith(49, 11) \intersect FirstOf(ParentKeyList, 11) = {}
      BY TenantsApart DEF FirstOf
    <3>5. c.keys = KeysWith(49, 11) /\ c.links = LinksWith(49, 11)
      BY <2>4, <2>6, <3>3, <3>4 DEF Altered, Fields
    <3>6. QED
      BY <2>2, <2>6, <3>3, <3>5, ElevenAndTwelve DEF Shape, Altered, Fields
  <2>9. Fitting(d, zero, m, down)
    <3> SUFFICES ASSUME NEW j \in 1..27 PROVE S!Applicable(d[0 + j - 1], down[0 + j])
      BY <1>4 DEF Fitting
    <3>1. PICK i \in 1..27 : i = 28 - j /\ 27 + 1 - j = i
      OBVIOUS
    <3>2. PICK s, x, t, y, p : /\ s = down[j] /\ s = S!Link("unrefer", t, y, p, "tenant")
                               /\ t = S!Relationships[i][1] /\ y = S!Relationships[i][2]
                               /\ p = S!Relationships[i][3] /\ x = d[j - 1]
      BY <1>3, <3>1
    <3>3. j - 1 \in 0..27 /\ 0 + j = j /\ 0 + j - 1 = j - 1
      OBVIOUS
    <3>4. x.links = a.links \ {TenantLinkList[27 + 1 - k] : k \in 1..(j - 1)}
      BY <2>5, <3>2, <3>3 DEF Altered, Fields
    <3>5. \A k \in 1..(j - 1) : 27 + 1 - k \in 1..27 /\ 27 + 1 - k # i
      BY <3>1
    <3>6. TenantLinkList[i] \notin {TenantLinkList[27 + 1 - k] : k \in 1..(j - 1)}
      <4>1. \A k \in 1..(j - 1) : TenantLinkList[i] # TenantLinkList[27 + 1 - k]
        BY <3>5, TenantsApart
      <4>2. QED
        BY <4>1, Zenon
    <3>7. TenantLinkList[i] \in a.links
      BY <2>4 DEF FirstOf
    <3>8. TenantLinkList[i] = <<t, y, p, "tenant">>
      BY <3>2, TenantsApart DEF TenantLink
    <3>9. <<t, y, p, "tenant">> \in x.links
      BY <3>4, <3>6, <3>7, <3>8
    <3>10. S!Applicable(x, s)
      BY <3>2, <3>9, LinkFitting, Zenon
    <3>11. QED
      BY <3>2, <3>3, <3>10
  <2>10. Fitting(d, m, n, down)
    <3> SUFFICES ASSUME NEW j \in 1..11 PROVE S!Applicable(d[27 + j - 1], down[27 + j])
      BY <1>4 DEF Fitting
    <3>1. PICK i \in 1..11 : i = 12 - j /\ 11 + 1 - j = i
      OBVIOUS
    <3>2. PICK s, x : s = down[27 + j] /\ s = S!Key("ununique", S!Parents[i], S!TenantKey)
              /\ x = d[27 + j - 1]
      BY <1>3, <3>1
    <3>3. j - 1 \in 0..11 /\ 27 + (j - 1) = 27 + j - 1
      OBVIOUS
    <3>4. /\ x.keys = b.keys \ {ParentKeyList[11 + 1 - k] : k \in 1..(j - 1)} /\ x.links = LinksWith(49, 11)
      BY <2>6, <2>7, <3>2, <3>3 DEF Altered, Fields
    <3>5. \A k \in 1..(j - 1) : 11 + 1 - k \in 1..11 /\ 11 + 1 - k # i
      BY <3>1
    <3>6. ParentKeyList[i] \notin {ParentKeyList[11 + 1 - k] : k \in 1..(j - 1)}
      <4>1. \A k \in 1..(j - 1) : ParentKeyList[i] # ParentKeyList[11 + 1 - k]
        BY <3>5, TenantsApart
      <4>2. QED
        BY <4>1, Zenon
    <3>7. ParentKeyList[i] \in b.keys
      BY <2>4, <2>6 DEF FirstOf, Altered, Fields
    <3>8. <<S!Parents[i], S!TenantKey>> \in x.keys
      <4>1. ParentKeyList[i] = <<S!Parents[i], S!TenantKey>>
        BY TenantsApart
      <4>2. ParentKeyList[i] \in x.keys
        BY <3>4, <3>6, <3>7
      <4>3. QED
        BY <4>1, <4>2
    <3>9. ~ \E l \in x.links : l[4] = "tenant"
      BY <3>4, TenantsApart
    <3>10. s.do = "ununique" /\ s.table = S!Parents[i] /\ s.columns = S!TenantKey
      BY <3>2 DEF S!Key
    <3>11. S!Applicable(x, s)
      BY <3>8, <3>9, <3>10 DEF S!Applicable
    <3>12. QED
      BY <3>2, <3>11
  <2>11. QED
    BY <2>1, <2>3, <2>8, <2>9, <2>10, Counts DEF IsAt
<1>9. QED
  BY <1>2, <1>3, <1>8 DEF Leads

-----------------------------------------------------------------------------
(* All scripts.                                                            *)

\* A script of n statements takes the schema of revision a to that of revision b.
Script(script, a, b) ==
  \E n \in Nat \ {0} : IsList(script, n) /\ Leads(script, n, a, b)

\* Every upgrade and every downgrade leads from its revision to the next one.
LEMMA AllMoves ==
  \A r \in 1..12 : Script(S!Upgrades[r], r - 1, r) /\ Script(S!Downgrades[r], r, r - 1)
<1>1. Script(S!Upgrades[1], 0, 1) /\ Script(S!Downgrades[1], 1, 0)
  BY InitialUp, InitialDownMoves DEF Script
<1>2. Script(S!Upgrades[2], 1, 2) /\ Script(S!Downgrades[2], 2, 1)
  BY ProvenanceMoves DEF Script
<1>3. Script(S!Upgrades[3], 2, 3) /\ Script(S!Downgrades[3], 3, 2)
  BY CommunicationsMoves DEF Script
<1>4. Script(S!Upgrades[4], 3, 4) /\ Script(S!Downgrades[4], 4, 3)
  BY CaseDocumentsMoves DEF Script
<1>5. Script(S!Upgrades[5], 4, 5) /\ Script(S!Downgrades[5], 5, 4)
  BY DraftKeyMoves DEF Script
<1>6. Script(S!Upgrades[6], 5, 6) /\ Script(S!Downgrades[6], 6, 5)
  BY ConnectorsMoves DEF Script
<1>7. Script(S!Upgrades[7], 6, 7) /\ Script(S!Downgrades[7], 7, 6)
  BY BankMoves DEF Script
<1>8. Script(S!Upgrades[8], 7, 8) /\ Script(S!Downgrades[8], 8, 7)
  BY FailuresMoves DEF Script
<1>9. Script(S!Upgrades[9], 8, 9) /\ Script(S!Downgrades[9], 9, 8)
  BY V1Moves DEF Script
<1>10. Script(S!Upgrades[10], 9, 10) /\ Script(S!Downgrades[10], 10, 9)
  BY V2Moves DEF Script
<1>11. Script(S!Upgrades[11], 10, 11) /\ Script(S!Downgrades[11], 11, 10)
  BY SessionsMoves DEF Script
<1>12. Script(S!Upgrades[12], 11, 12) /\ Script(S!Downgrades[12], 12, 11)
  BY OwnershipUpMoves, OwnershipDownMoves DEF Script
<1>13. \A r \in 1..12 : r = 1 \/ r = 2 \/ r = 3 \/ r = 4 \/ r = 5 \/ r = 6 \/ r = 7 \/ r = 8
                        \/ r = 9 \/ r = 10 \/ r = 11 \/ r = 12
  OBVIOUS
<1>14. QED
  BY <1>1, <1>2, <1>3, <1>4, <1>5, <1>6, <1>7, <1>8, <1>9, <1>10, <1>11, <1>12, <1>13

\* The schemas that a script goes through from base.
Walk(base, script) ==
  LET d == Course(base, script)
  IN  /\ Len(script) \in Nat \ {0} /\ DOMAIN script = 1..Len(script)
      /\ d[0] = base
      /\ \A k \in 1..Len(script) : /\ d[k] = S!Applied(d[k - 1], script[k])
                                   /\ S!Applicable(d[k - 1], script[k])

\* From the schema of a revision every statement of its script applies, and the last one makes the
\* schema of the next.
LEMMA ScriptWalk ==
  ASSUME NEW script, NEW a, NEW b, Script(script, a, b), NEW base, IsAt(base, a)
  PROVE  /\ Walk(base, script) /\ IsAt(Course(base, script)[Len(script)], b)
         /\ Course(base, script)[Len(script)] = Outcome(base, script)
<1>1. PICK n \in Nat \ {0} : IsList(script, n) /\ Leads(script, n, a, b)
  BY DEF Script
<1>2. DOMAIN script = 1..n /\ Len(script) = n
  BY <1>1 DEF IsList
<1>3. PICK d : d = Course(base, script)
  OBVIOUS
<1>4. IsCourse(d, base, script)
  BY <1>2, <1>3, CourseSteps
<1>5. d[0] = base /\ (\A k \in 1..n : d[k] = S!Applied(d[k - 1], script[k])) /\ d[n] = Outcome(base, script)
  BY <1>2, <1>4 DEF IsCourse
<1>6. \A k \in 1..n : 0 + k = k /\ 0 + k - 1 = k - 1
  OBVIOUS
<1>7. Steps(d, 0, n, script)
  BY <1>5, <1>6 DEF Steps
<1>8. IsAt(d[n], b) /\ Fitting(d, 0, n, script)
  BY <1>1, <1>5, <1>7, Zenon DEF Leads
<1>9. \A k \in 1..n : S!Applicable(d[k - 1], script[k])
  BY <1>6, <1>8 DEF Fitting
<1>10. QED
  BY <1>2, <1>3, <1>5, <1>8, <1>9 DEF Walk

\* The schema of each revision is the one described.
LEMMA SchemaAt == \A r \in 0..12 : IsAt(S!SchemaOf[r], r)
<1> DEFINE good == {r \in 0..12 : IsAt(S!SchemaOf[r], r)}
<1>1. 0 \in good
  BY SchemaSteps, NothingAtFirst
<1>2. ASSUME NEW r \in 1..12, IsAt(S!SchemaOf[r - 1], r - 1) PROVE IsAt(S!SchemaOf[r], r)
  <2>1. PICK base, script, o, q : base = S!SchemaOf[r - 1] /\ script = S!Upgrades[r] /\ o = r - 1 /\ q = r
    OBVIOUS
  <2>2. Script(script, o, q) /\ IsAt(base, o)
    BY <1>2, <2>1, AllMoves
  <2>3. IsAt(Outcome(base, script), q)
    <3>1. /\ IsAt(Course(base, script)[Len(script)], q)
          /\ Course(base, script)[Len(script)] = Outcome(base, script)
      BY <2>2, ScriptWalk, Zenon
    <3>2. QED
      BY <3>1
  <2>4. S!SchemaOf[r] = Outcome(base, script)
    BY <2>1, SchemaSteps
  <2>5. QED
    BY <2>1, <2>3, <2>4
<1>3. 0..12 \subseteq good
  <2>1. (\A r \in 1..12 : r - 1 \in good => r \in good) /\ 12 \in Nat
    BY <1>2
  <2> HIDE DEF good
  <2>2. QED
    BY <1>1, <2>1, CountUp
<1>4. QED
  BY <1>3

\* The script that a command at revision r executes, and the revision it leads to.
ScriptFor(way, r) == IF way = "up" THEN S!Upgrades[r + 1] ELSE S!Downgrades[r]
NextFor(way, r) == IF way = "up" THEN r + 1 ELSE r - 1
\* There is one.
Ahead(way, r) == \/ way = "up" /\ r \in 0..11
                 \/ way = "down" /\ r \in 1..12
\* The schemas it goes through.
Path(way, r) == Course(S!SchemaOf[r], ScriptFor(way, r))

\* The same for the way that a command takes from the committed schema of a revision.
LEMMA Paths ==
  ASSUME NEW way, NEW r, Ahead(way, r)
  PROVE  /\ Walk(S!SchemaOf[r], ScriptFor(way, r))
         /\ Path(way, r)[Len(ScriptFor(way, r))] = S!SchemaOf[NextFor(way, r)]
         /\ NextFor(way, r) \in 0..12
<1>1. PICK base, script, next : base = S!SchemaOf[r] /\ script = ScriptFor(way, r) /\ next = NextFor(way, r)
  OBVIOUS
<1>2. Script(script, r, next) /\ next \in 0..12 /\ r \in 0..12
  <2>1. CASE way = "up"
    <3>1. r + 1 \in 1..12 /\ r + 1 - 1 = r
      BY <2>1 DEF Ahead
    <3>2. PICK o : o = r + 1
      OBVIOUS
    <3>3. o \in 1..12 /\ o - 1 = r
      <4>1. r \in 0..11
        BY <2>1 DEF Ahead
      <4> HIDE <2>1, <3>1, <1>1
      <4>2. QED
        BY <3>2, <4>1
    <3>4. Script(S!Upgrades[o], o - 1, o)
      BY <3>3, AllMoves, Zenon
    <3>5. script = S!Upgrades[o] /\ next = o
      BY <1>1, <2>1, <3>2, Zenon DEF ScriptFor, NextFor
    <3>6. Script(script, r, next)
      BY <3>3, <3>4, <3>5
    <3>7. next \in 0..12 /\ r \in 0..12
      BY <3>3, <3>5, <2>1 DEF Ahead
    <3>8. QED
      BY <3>6, <3>7
  <2>2. CASE way = "down"
    <3>1. r \in 1..12 /\ "down" # "up"
      BY <2>2 DEF Ahead
    <3>2. QED
      BY <1>1, <2>2, <3>1, AllMoves DEF ScriptFor, NextFor
  <2>3. way = "up" \/ way = "down"
    BY DEF Ahead
  <2>4. QED
    BY <2>1, <2>2, <2>3, Zenon
<1>3. IsAt(base, r)
  BY <1>1, <1>2, SchemaAt
<1>4. Walk(base, script) /\ IsAt(Course(base, script)[Len(script)], next)
  BY <1>2, <1>3, ScriptWalk, Zenon
<1>5. Course(base, script)[Len(script)] = S!SchemaOf[next]
  <2>1. IsAt(S!SchemaOf[next], next)
    BY <1>2, SchemaAt
  <2>2. QED
    BY <1>4, <2>1, OneSchema DEF IsAt
<1>6. QED
  BY <1>1, <1>2, <1>4, <1>5 DEF Path

-----------------------------------------------------------------------------
(* The kinds of statements in an upgrade and in a downgrade.               *)

\* An upgrade drops no table and narrows no column, creates tables of the system only, and
\* never makes the idempotency key of the drafts a global one.
UpStatement(s) ==
  /\ s.do \in {"create", "add", "unique", "ununique", "refer", "isolate", "grant", "revoke",
         "role", "widen"}
  /\ s.do = "create" => s.table \in Names
  /\ s.do = "unique" => s.columns # {"idempotency_key"}
\* A downgrade creates no table and adds no link.
DownStatement(s) ==
  s.do \in {"drop", "remove", "unique", "ununique", "unrefer", "droprole", "narrow"}

\* The creation of a table is a statement of an upgrade.
LEMMA CreationsUp ==
  ASSUME NEW s, NEW p, IsCreation(s, p)
  PROVE  UpStatement(s)
BY DEF IsCreation, UpStatement

\* So is a table put under row level security.
LEMMA IsolatesUp ==
  ASSUME NEW s, NEW t, s = [do |-> "isolate", table |-> t]
  PROVE  UpStatement(s)
BY DEF UpStatement

\* The removal of a table is a statement of a downgrade.
LEMMA DropsDown ==
  ASSUME NEW s, NEW t, s = Dropping(t)
  PROVE  DownStatement(s)
BY DEF DownStatement, Dropping

\* The statements of the first n positions are of an upgrade, or of a downgrade.
AllUp(script, n) == IsList(script, n) /\ \A k \in 1..n : UpStatement(script[k])
AllDown(script, n) == IsList(script, n) /\ \A k \in 1..n : DownStatement(script[k])

\* Every statement of the first upgrade is of a kind that an upgrade uses.
LEMMA InitialUpward == AllUp(S!Upgrades[1], 32)
<1>1. PICK up : up = S!Upgrades[1]
  OBVIOUS
<1>2. /\ IsList(up, 32)
      /\ \A i \in 1..8 : up[i] = S!InitialIdentity[i]
      /\ \A i \in 1..7 : up[8 + i] = S!InitialCases[i]
      /\ up[16] = [do |-> "role"]
      /\ \A i \in 1..13 : up[16 + i] = [do |-> "isolate", table |-> InitialGuarded[i]]
      /\ \A i \in 1..3 : up[29 + i] = InitialRights[i]
  BY <1>1, InitialList
<1>3. \A i \in 1..8 : UpStatement(up[i])
  BY <1>2, IdentityCreated, CreationsUp
<1>4. \A i \in 1..7 : UpStatement(up[8 + i])
  BY <1>2, CasesCreated, CreationsUp
<1>5. UpStatement(up[16])
  BY <1>2 DEF UpStatement
<1>6. \A i \in 1..13 : UpStatement(up[16 + i])
  BY <1>2, IsolatesUp
<1>7. \A i \in 1..3 : UpStatement(InitialRights[i])
  BY DEF UpStatement, InitialRights
<1>8. \A i \in 1..3 : UpStatement(up[29 + i])
  BY <1>2, <1>7
<1>9. ASSUME NEW k \in 1..32 PROVE UpStatement(up[k])
  <2>1. k \in 1..8 \/ k - 8 \in 1..7 \/ k = 16 \/ k - 16 \in 1..13 \/ k - 29 \in 1..3
    OBVIOUS
  <2>2. 8 + (k - 8) = k /\ 16 + (k - 16) = k /\ 29 + (k - 29) = k
    OBVIOUS
  <2>3. QED
    BY <1>3, <1>4, <1>5, <1>6, <1>8, <2>1, <2>2
<1>10. QED
  BY <1>1, <1>2, <1>9 DEF AllUp

\* The upgrades that only create tables and put them under row level security.
LEMMA TablesUpward ==
  /\ AllUp(S!ProvenanceUp, 2) /\ AllUp(S!CommunicationsUp, 4) /\ AllUp(S!CaseDocumentsUp, 2)
  /\ AllUp(S!ConnectorsUp, 4) /\ AllUp(S!BankUp, 4) /\ AllUp(S!FailuresUp, 2)
<1>1. /\ \A k \in 1..2 : k = 1 \/ k = 2
      /\ \A k \in 1..4 : k = 1 \/ k = 2 \/ k = 3 \/ k = 4
  OBVIOUS
<1>2. AllUp(S!ProvenanceUp, 2)
  <2>1. UpStatement(S!ProvenanceUp[1]) /\ UpStatement(S!ProvenanceUp[2])
    BY ProvenanceList, SmallCreated, CreationsUp, IsolatesUp, Zenon
  <2>2. QED
    BY <1>1, <2>1, ProvenanceList, Zenon DEF AllUp
<1>3. AllUp(S!CommunicationsUp, 4)
  <2>1. /\ UpStatement(S!CommunicationsUp[1]) /\ UpStatement(S!CommunicationsUp[2])
        /\ UpStatement(S!CommunicationsUp[3]) /\ UpStatement(S!CommunicationsUp[4])
    BY CommunicationsList, SmallCreated, CreationsUp, IsolatesUp, Zenon
  <2>2. QED
    BY <1>1, <2>1, CommunicationsList, Zenon DEF AllUp
<1>4. AllUp(S!CaseDocumentsUp, 2)
  <2>1. UpStatement(S!CaseDocumentsUp[1]) /\ UpStatement(S!CaseDocumentsUp[2])
    BY CaseDocumentsList, SmallCreated, CreationsUp, IsolatesUp, Zenon
  <2>2. QED
    BY <1>1, <2>1, CaseDocumentsList, Zenon DEF AllUp
<1>5. AllUp(S!ConnectorsUp, 4)
  <2>1. /\ UpStatement(S!ConnectorsUp[1]) /\ UpStatement(S!ConnectorsUp[2])
        /\ UpStatement(S!ConnectorsUp[3]) /\ UpStatement(S!ConnectorsUp[4])
    BY ConnectorsList, SmallCreated, CreationsUp, IsolatesUp, Zenon
  <2>2. QED
    BY <1>1, <2>1, ConnectorsList, Zenon DEF AllUp
<1>6. AllUp(S!BankUp, 4)
  <2>1. /\ UpStatement(S!BankUp[1]) /\ UpStatement(S!BankUp[2])
        /\ UpStatement(S!BankUp[3]) /\ UpStatement(S!BankUp[4])
    BY BankList, SmallCreated, CreationsUp, IsolatesUp, Zenon
  <2>2. QED
    BY <1>1, <2>1, BankList, Zenon DEF AllUp
<1>7. AllUp(S!FailuresUp, 2)
  <2>1. UpStatement(S!FailuresUp[1]) /\ UpStatement(S!FailuresUp[2])
    BY FailuresList, SmallCreated, CreationsUp, IsolatesUp, Zenon
  <2>2. QED
    BY <1>1, <2>1, FailuresList, Zenon DEF AllUp
<1>8. QED
  BY <1>2, <1>3, <1>4, <1>5, <1>6, <1>7

\* The two that change columns as well.
LEMMA FeaturesUpward == AllUp(S!V1Up, 29) /\ AllUp(S!V2Up, 25)
<1>1. AllUp(S!V1Up, 29)
  <2>1. \A i \in 1..6 : UpStatement(S!V1Columns[i])
    BY DEF UpStatement, S!V1Columns, S!Column, S!Link
  <2>2. PICK up : up = S!V1Up
    OBVIOUS
  <2>3. /\ \A i \in 1..6 : UpStatement(up[i])
        /\ \A i \in 1..4 : UpStatement(up[6 + i])
        /\ \A i \in 1..8 : UpStatement(up[10 + i])
        /\ \A i \in 1..11 : UpStatement(up[18 + i])
    BY <2>1, <2>2, V1List, ConnectedCreated, ActionsCreated, CreationsUp, IsolatesUp
  <2>4. \A k \in 1..29 : UpStatement(up[k])
    <3> SUFFICES ASSUME NEW k \in 1..29 PROVE UpStatement(up[k])
      OBVIOUS
    <3>1. k \in 1..6 \/ k - 6 \in 1..4 \/ k - 10 \in 1..8 \/ k - 18 \in 1..11
      OBVIOUS
    <3>2. 6 + (k - 6) = k /\ 10 + (k - 10) = k /\ 18 + (k - 18) = k
      OBVIOUS
    <3>3. QED
      BY <2>3, <3>1, <3>2
  <2>5. QED
    BY <2>2, <2>4, V1List DEF AllUp
<1>2. AllUp(S!V2Up, 25)
  <2>1. UpStatement(S!V2Predictions[1])
    BY DEF UpStatement, S!V2Predictions, S!Column
  <2>2. PICK up : up = S!V2Up
    OBVIOUS
  <2>3. \A i \in 1..6 : UpStatement(S!V2Predictions[i])
    <3> SUFFICES ASSUME NEW i \in 1..6 PROVE UpStatement(S!V2Predictions[i])
      OBVIOUS
    <3>1. i = 1 \/ (i - 1 \in 1..5 /\ 1 + (i - 1) = i)
      OBVIOUS
    <3>2. QED
      BY <2>1, <3>1, PredictionsCreated, CreationsUp
  <2>4. /\ \A i \in 1..6 : UpStatement(up[i])
        /\ \A i \in 1..7 : UpStatement(up[6 + i])
        /\ \A i \in 1..12 : UpStatement(up[13 + i])
    BY <2>2, <2>3, V2List, AutomationCreated, CreationsUp, IsolatesUp
  <2>5. \A k \in 1..25 : UpStatement(up[k])
    <3> SUFFICES ASSUME NEW k \in 1..25 PROVE UpStatement(up[k])
      OBVIOUS
    <3>1. k \in 1..6 \/ k - 6 \in 1..7 \/ k - 13 \in 1..12
      OBVIOUS
    <3>2. 6 + (k - 6) = k /\ 13 + (k - 13) = k
      OBVIOUS
    <3>3. QED
      BY <2>4, <3>1, <3>2
  <2>6. QED
    BY <2>2, <2>5, V2List DEF AllUp
<1>3. QED
  BY <1>1, <1>2

\* The last two, and the change of the drafts' key.
LEMMA OthersUpward == AllUp(S!DraftKeyUp, 2) /\ AllUp(S!SessionsUp, 2) /\ AllUp(S!OwnershipUp, 38)
<1>1. \A k \in 1..2 : k = 1 \/ k = 2
  OBVIOUS
<1>2. AllUp(S!DraftKeyUp, 2)
  <2>1. UpStatement(S!DraftKeyUp[1]) /\ UpStatement(S!DraftKeyUp[2])
    BY DraftKeyList DEF UpStatement, S!Key
  <2>2. QED
    BY <1>1, <2>1, DraftKeyList, Zenon DEF AllUp
<1>3. AllUp(S!SessionsUp, 2)
  <2>1. UpStatement(S!SessionsUp[1])
    BY SmallCreated, CreationsUp, Zenon
  <2>2. UpStatement(S!SessionsUp[2])
    BY SessionsList DEF UpStatement
  <2>3. QED
    BY <1>1, <2>1, <2>2, SessionsList, Zenon DEF AllUp
<1>4. AllUp(S!OwnershipUp, 38)
  <2>1. PICK up : up = S!OwnershipUp
    OBVIOUS
  <2>2. \A i \in 1..11 : UpStatement(up[i])
    <3> SUFFICES ASSUME NEW i \in 1..11 PROVE UpStatement(up[i])
      OBVIOUS
    <3>1. up[i] = S!Key("unique", S!Parents[i], S!TenantKey)
      BY <2>1, OwnershipList
    <3>2. S!TenantKey # {"idempotency_key"}
      BY DEF S!TenantKey
    <3>3. QED
      BY <3>1, <3>2 DEF UpStatement, S!Key
  <2>3. \A i \in 1..27 : UpStatement(up[11 + i])
    <3> SUFFICES ASSUME NEW i \in 1..27 PROVE UpStatement(up[11 + i])
      OBVIOUS
    <3>1. up[11 + i] = S!Link("refer", S!Relationships[i][1], S!Relationships[i][2],
              S!Relationships[i][3], "tenant")
      BY <2>1, OwnershipList
    <3>2. QED
      BY <3>1 DEF UpStatement, S!Link
  <2>4. \A k \in 1..38 : UpStatement(up[k])
    <3> SUFFICES ASSUME NEW k \in 1..38 PROVE UpStatement(up[k])
      OBVIOUS
    <3>1. k \in 1..11 \/ (k - 11 \in 1..27 /\ 11 + (k - 11) = k)
      OBVIOUS
    <3>2. QED
      BY <2>2, <2>3, <3>1
  <2>5. QED
    BY <2>1, <2>4, OwnershipList DEF AllUp
<1>5. QED
  BY <1>2, <1>3, <1>4

\* All statements of the upgrades are of these kinds.
LEMMA UpStatements == \A r \in 1..12 : \E n \in Nat : AllUp(S!Upgrades[r], n)
<1>1. /\ S!Upgrades[2] = S!ProvenanceUp /\ S!Upgrades[3] = S!CommunicationsUp
      /\ S!Upgrades[4] = S!CaseDocumentsUp /\ S!Upgrades[5] = S!DraftKeyUp
      /\ S!Upgrades[6] = S!ConnectorsUp /\ S!Upgrades[7] = S!BankUp /\ S!Upgrades[8] = S!FailuresUp
      /\ S!Upgrades[9] = S!V1Up /\ S!Upgrades[10] = S!V2Up /\ S!Upgrades[11] = S!SessionsUp
      /\ S!Upgrades[12] = S!OwnershipUp
  BY DEF S!Upgrades
<1>2. 32 \in Nat /\ 2 \in Nat /\ 4 \in Nat /\ 29 \in Nat /\ 25 \in Nat /\ 38 \in Nat
  OBVIOUS
<1>3. \A r \in 1..12 : r = 1 \/ r = 2 \/ r = 3 \/ r = 4 \/ r = 5 \/ r = 6 \/ r = 7 \/ r = 8
                        \/ r = 9 \/ r = 10 \/ r = 11 \/ r = 12
  OBVIOUS
<1>4. QED
  BY <1>1, <1>2, <1>3, InitialUpward, TablesUpward, FeaturesUpward, OthersUpward

\* And of the downgrades.
LEMMA DownStatements == \A r \in 1..12 : \E n \in Nat : AllDown(S!Downgrades[r], n)
<1>1. /\ S!Downgrades[1] = S!InitialDown
      /\ S!Downgrades[2] = S!ProvenanceDown /\ S!Downgrades[3] = S!CommunicationsDown
      /\ S!Downgrades[4] = S!CaseDocumentsDown /\ S!Downgrades[5] = S!DraftKeyDown
      /\ S!Downgrades[6] = S!ConnectorsDown /\ S!Downgrades[7] = S!BankDown
      /\ S!Downgrades[8] = S!FailuresDown
      /\ S!Downgrades[9] = S!V1Down /\ S!Downgrades[10] = S!V2Down /\ S!Downgrades[11] = S!SessionsDown
      /\ S!Downgrades[12] = S!OwnershipDown
  BY DEF S!Downgrades
<1>2. 16 \in Nat /\ 1 \in Nat /\ 2 \in Nat /\ 18 \in Nat /\ 13 \in Nat /\ 38 \in Nat
  OBVIOUS
<1>3. \A r \in 1..12 : r = 1 \/ r = 2 \/ r = 3 \/ r = 4 \/ r = 5 \/ r = 6 \/ r = 7 \/ r = 8
                        \/ r = 9 \/ r = 10 \/ r = 11 \/ r = 12
  OBVIOUS
<1>4. AllDown(S!InitialDown, 16)
  <2>1. \A i \in 1..15 : DownStatement(S!InitialDown[i])
    BY InitialDownList, DropsDown
  <2>2. DownStatement(S!InitialDown[16])
    BY InitialDownList DEF DownStatement
  <2>3. \A k \in 1..16 : k \in 1..15 \/ k = 16
    OBVIOUS
  <2>4. QED
    BY <2>1, <2>2, <2>3, InitialDownList DEF AllDown
<1>5. /\ \A k \in 1..2 : k = 1 \/ k = 2
      /\ \A k \in 1..1 : k = 1
  OBVIOUS
<1>6. AllDown(S!ProvenanceDown, 1) /\ AllDown(S!CaseDocumentsDown, 1) /\ AllDown(S!FailuresDown, 1)
  <2>1. /\ DownStatement(S!ProvenanceDown[1]) /\ DownStatement(S!CaseDocumentsDown[1])
        /\ DownStatement(S!FailuresDown[1])
    BY ProvenanceDownList, CaseDocumentsDownList, FailuresDownList, DropsDown, Zenon
  <2>2. QED
    BY <1>5, <2>1, ProvenanceDownList, CaseDocumentsDownList, FailuresDownList, Zenon DEF AllDown
<1>7. AllDown(S!CommunicationsDown, 2) /\ AllDown(S!ConnectorsDown, 2) /\ AllDown(S!BankDown, 2)
  <2>1. /\ DownStatement(S!CommunicationsDown[1]) /\ DownStatement(S!CommunicationsDown[2])
        /\ DownStatement(S!ConnectorsDown[1]) /\ DownStatement(S!ConnectorsDown[2])
        /\ DownStatement(S!BankDown[1]) /\ DownStatement(S!BankDown[2])
    BY CommunicationsDownList, ConnectorsDownList, BankDownList, DropsDown, Zenon
  <2>2. QED
    BY <1>5, <2>1, CommunicationsDownList, ConnectorsDownList, BankDownList, Zenon DEF AllDown
<1>8. AllDown(S!DraftKeyDown, 2) /\ AllDown(S!SessionsDown, 2)
  <2>1. /\ DownStatement(S!DraftKeyDown[1]) /\ DownStatement(S!DraftKeyDown[2])
    BY DraftKeyList DEF DownStatement, S!Key
  <2>2. DownStatement(S!SessionsDown[1]) /\ DownStatement(S!SessionsDown[2])
    BY SessionsDownList DEF DownStatement, Dropping
  <2>3. QED
    BY <1>5, <2>1, <2>2, DraftKeyList, SessionsDownList, Zenon DEF AllDown
<1>9. AllDown(S!V1Down, 18)
  <2>1. \A i \in 1..6 : DownStatement(V1Restores[i])
    BY DEF DownStatement, V1Restores, S!Column, S!Link
  <2>2. PICK down : down = S!V1Down
    OBVIOUS
  <2>3. (\A i \in 1..12 : DownStatement(down[i])) /\ \A i \in 1..6 : DownStatement(down[12 + i])
    BY <2>1, <2>2, V1DownList, DropsDown
  <2>4. \A k \in 1..18 : k \in 1..12 \/ (k - 12 \in 1..6 /\ 12 + (k - 12) = k)
    OBVIOUS
  <2>5. QED
    BY <2>2, <2>3, <2>4, V1DownList DEF AllDown
<1>10. AllDown(S!V2Down, 13)
  <2>1. \A i \in 1..12 : DownStatement(S!V2Down[i])
    BY V2DownList, DropsDown
  <2>2. DownStatement(S!V2Down[13])
    BY V2DownList DEF DownStatement, S!Column
  <2>3. \A k \in 1..13 : k \in 1..12 \/ k = 13
    OBVIOUS
  <2>4. QED
    BY <2>1, <2>2, <2>3, V2DownList DEF AllDown
<1>11. AllDown(S!OwnershipDown, 38)
  <2>1. PICK down : down = S!OwnershipDown
    OBVIOUS
  <2>2. \A i \in 1..27 : DownStatement(down[i])
    BY <2>1, OwnershipDownList DEF DownStatement, S!Link
  <2>3. \A i \in 1..11 : DownStatement(down[27 + i])
    BY <2>1, OwnershipDownList DEF DownStatement, S!Key
  <2>4. \A k \in 1..38 : k \in 1..27 \/ (k - 27 \in 1..11 /\ 27 + (k - 27) = k)
    OBVIOUS
  <2>5. QED
    BY <2>1, <2>2, <2>3, <2>4, OwnershipDownList DEF AllDown
<1>12. QED
  BY <1>1, <1>2, <1>3, <1>4, <1>6, <1>7, <1>8, <1>9, <1>10, <1>11

-----------------------------------------------------------------------------
(* The ORM.                                                                *)

\* The ORM declares a table as it was created, but for the two that were changed since.
OrmCreation(p) ==
  IF p = 15 THEN S!Owned("draft_actions", {<<"approval_id", "approvals">>}, S!Scoped({"idempotency_key"}))
  ELSE IF p = 22 THEN S!Owned("bank_transactions", {<<"reversal_of_id", "bank_transactions">>},
                              S!Scoped({"source_fingerprint"}))
  ELSE Creation[p]

\* What the tables are created with.
LEMMA Placed ==
  /\ Creation[1] = S!Table("tenants", {}, {})
  /\ Creation[2] = S!Table("users", {}, {{"issuer", "subject"}})
  /\ Creation[3] = S!Owned("audit_entries", {}, {})
  /\ Creation[4] = S!Owned("customers", {}, S!Scoped({"code"}))
  /\ Creation[5] = S!Owned("documents", {}, S!Scoped({"sha256"}))
  /\ Creation[6] = S!Owned("idempotency_records", {}, S!Scoped({"key"}))
  /\ Creation[7] = S!Owned("memberships", {<<"user_id", "users">>}, S!Scoped({"user_id"}))
  /\ Creation[8] = S!Owned("outbox_events", {}, {})
  /\ Creation[9] = S!Owned("payment_cases", {}, {})
  /\ Creation[10] = S!Owned("approvals", {<<"case_id", "payment_cases">>}, {})
  /\ Creation[11] = S!Owned("blockers", {<<"case_id", "payment_cases">>}, {})
  /\ Creation[12] = S!Owned("evidence_spans", {<<"document_id", "documents">>}, {})
  /\ Creation[13] = S!Owned("invoices",
                        {<<"customer_id", "customers">>}, S!Scoped({"source_fingerprint"}))
  /\ Creation[14] = S!Owned("case_invoices",
                        {<<"case_id", "payment_cases">>, <<"invoice_id", "invoices">>},
                            S!Scoped({"case_id", "invoice_id"}))
  /\ Creation[15] = S!Owned("draft_actions", {<<"approval_id", "approvals">>}, {{"idempotency_key"}})
  /\ Creation[16] = S!Owned("document_sources", {<<"document_id", "documents">>}, {})
  /\ Creation[17] = S!Owned("communications", {}, S!Scoped({"provider", "external_id"}))
  /\ Creation[18] = S!Owned("communication_attachments",
                        {<<"communication_id", "communications">>, <<"document_id", "documents">>},
                            S!Scoped({"communication_id", "external_id"}))
  /\ Creation[19] = S!Owned("case_documents",
                        {<<"case_id", "payment_cases">>, <<"document_id", "documents">>},
                            S!Scoped({"case_id", "document_id"}))
  /\ Creation[20] = S!Owned("connector_credentials", {}, S!Scoped({"provider", "account"}))
  /\ Creation[21] = S!Owned("connector_cursors", {}, S!Scoped({"provider", "account"}))
  /\ Creation[22] = S!Owned("bank_transactions", {}, S!Scoped({"source_fingerprint"}))
  /\ Creation[23] = S!Owned("payment_allocations",
                        {<<"transaction_id", "bank_transactions">>, <<"invoice_id", "invoices">>},
                            S!Scoped({"transaction_id", "invoice_id"}))
  /\ Creation[24] = S!Owned("failure_records", {}, {})
  /\ Creation[25] = S!Owned("connector_configs", {}, S!Scoped({"provider"}))
  /\ Creation[26] = S!Owned("external_record_maps", {},
                        S!Scoped({"provider", "record_type", "external_id", "external_version"}))
  /\ Creation[27] = S!Owned("inbox_events", {}, S!Scoped({"provider", "external_event_id"}))
  /\ Creation[28] = S!Owned("payment_rules",
                        {<<"customer_id", "customers">>}, S!Scoped({"customer_id", "rule_type", "version"}))
  /\ Creation[29] = S!Owned("zalo_templates", {}, S!Scoped({"template_id", "version"}))
  /\ Creation[30] = S!Owned("notification_actions",
                        {<<"approval_id", "approvals">>}, S!Scoped({"idempotency_key"}))
  /\ Creation[31] = S!Owned("bulk_approval_batches", {}, S!Scoped({"idempotency_key"}))
  /\ Creation[32] = S!Owned("bulk_approval_items",
                        {<<"batch_id", "bulk_approval_batches">>, <<"approval_id", "approvals">>},
                            S!Scoped({"batch_id", "approval_id"}))
  /\ Creation[33] = S!Owned("forecast_snapshots", {}, {})
  /\ Creation[34] = S!Table("llm_pricing", {}, {{"provider", "model", "effective_from", "version"}})
  /\ Creation[35] = S!Owned("llm_usage_events", {}, {})
  /\ Creation[36] = S!Owned("llm_quality_metrics", {}, {})
  /\ Creation[37] = S!Owned("feature_definitions", {}, S!Scoped({"name", "version"}))
  /\ Creation[38] = S!Owned("feature_snapshots", {},
                        S!Scoped({"entity_type", "entity_id", "as_of", "feature_version"}))
  /\ Creation[39] = S!Owned("model_registry", {},
                        S!Scoped({"task_type", "model_name", "model_version"}))
  /\ Creation[40] = S!Owned("prediction_runs", {}, {})
  /\ Creation[41] = S!Owned("prediction_records",
                        {<<"run_id", "prediction_runs">>,
                            <<"feature_snapshot_id", "feature_snapshots">>},
                            S!Scoped({"run_id", "entity_type", "entity_id", "horizon_days"}))
  /\ Creation[42] = S!Owned("automation_policies",
                        {<<"customer_id", "customers">>}, S!Scoped({"customer_id", "policy_version"}))
  /\ Creation[43] = S!Owned("automation_decisions",
                        {<<"case_id", "payment_cases">>, <<"policy_id", "automation_policies">>},
                            S!Scoped({"idempotency_key"}))
  /\ Creation[44] = S!Owned("dispute_root_causes", {<<"case_id", "payment_cases">>}, {})
  /\ Creation[45] = S!Owned("escalation_recommendations", {<<"case_id", "payment_cases">>}, {})
  /\ Creation[46] = S!Owned("customer_behavior_snapshots",
                        {<<"customer_id", "customers">>},
                            S!Scoped({"customer_id", "as_of", "window_days", "profile_version"}))
  /\ Creation[47] = S!Owned("account_manager_benchmarks", {},
                        S!Scoped({"manager_id", "as_of", "window_days", "metric_version"}))
  /\ Creation[48] = S!Owned("derived_job_runs", {}, S!Scoped({"idempotency_key"}))
  /\ Creation[49] = S!Table("portfolio_sessions",
                        {<<"tenant_id", "tenants">>, <<"user_id", "users">>}, {{"token_hash"}})
<1>1. /\ S!InitialIdentity[1] = S!Table("tenants", {}, {})
      /\ S!InitialIdentity[2] = S!Table("users", {}, {{"issuer", "subject"}})
      /\ S!InitialIdentity[3] = S!Owned("audit_entries", {}, {})
      /\ S!InitialIdentity[4] = S!Owned("customers", {}, S!Scoped({"code"}))
      /\ S!InitialIdentity[5] = S!Owned("documents", {}, S!Scoped({"sha256"}))
      /\ S!InitialIdentity[6] = S!Owned("idempotency_records", {}, S!Scoped({"key"}))
      /\ S!InitialIdentity[7] = S!Owned("memberships", {<<"user_id", "users">>}, S!Scoped({"user_id"}))
      /\ S!InitialIdentity[8] = S!Owned("outbox_events", {}, {})
  BY DEF S!InitialIdentity
<1>2. /\ S!InitialCases[1] = S!Owned("payment_cases", {}, {})
      /\ S!InitialCases[2] = S!Owned("approvals", {<<"case_id", "payment_cases">>}, {})
      /\ S!InitialCases[3] = S!Owned("blockers", {<<"case_id", "payment_cases">>}, {})
      /\ S!InitialCases[4] = S!Owned("evidence_spans", {<<"document_id", "documents">>}, {})
      /\ S!InitialCases[5] = S!Owned("invoices",
                        {<<"customer_id", "customers">>}, S!Scoped({"source_fingerprint"}))
      /\ S!InitialCases[6] = S!Owned("case_invoices",
                        {<<"case_id", "payment_cases">>, <<"invoice_id", "invoices">>},
                            S!Scoped({"case_id", "invoice_id"}))
      /\ S!InitialCases[7] = S!Owned("draft_actions",
                        {<<"approval_id", "approvals">>}, {{"idempotency_key"}})
  BY DEF S!InitialCases
<1>3. /\ S!V1Connected[1] = S!Owned("connector_configs", {}, S!Scoped({"provider"}))
      /\ S!V1Connected[2] = S!Owned("external_record_maps", {},
                        S!Scoped({"provider", "record_type", "external_id", "external_version"}))
      /\ S!V1Connected[3] = S!Owned("inbox_events", {}, S!Scoped({"provider", "external_event_id"}))
      /\ S!V1Connected[4] = S!Owned("payment_rules",
                        {<<"customer_id", "customers">>}, S!Scoped({"customer_id", "rule_type", "version"}))
  BY DEF S!V1Connected, S!Inbox
<1>4. /\ S!V1Actions[1] = S!Owned("zalo_templates", {}, S!Scoped({"template_id", "version"}))
      /\ S!V1Actions[2] = S!Owned("notification_actions",
                        {<<"approval_id", "approvals">>}, S!Scoped({"idempotency_key"}))
      /\ S!V1Actions[3] = S!Owned("bulk_approval_batches", {}, S!Scoped({"idempotency_key"}))
      /\ S!V1Actions[4] = S!Owned("bulk_approval_items",
                        {<<"batch_id", "bulk_approval_batches">>, <<"approval_id", "approvals">>},
                            S!Scoped({"batch_id", "approval_id"}))
      /\ S!V1Actions[5] = S!Owned("forecast_snapshots", {}, {})
      /\ S!V1Actions[6] = S!Table("llm_pricing", {},
                        {{"provider", "model", "effective_from", "version"}})
      /\ S!V1Actions[7] = S!Owned("llm_usage_events", {}, {})
      /\ S!V1Actions[8] = S!Owned("llm_quality_metrics", {}, {})
  BY DEF S!V1Actions
<1>5. /\ S!V2Predictions[2] = S!Owned("feature_definitions", {}, S!Scoped({"name", "version"}))
      /\ S!V2Predictions[3] = S!Owned("feature_snapshots", {},
                        S!Scoped({"entity_type", "entity_id", "as_of", "feature_version"}))
      /\ S!V2Predictions[4] = S!Owned("model_registry", {},
                        S!Scoped({"task_type", "model_name", "model_version"}))
      /\ S!V2Predictions[5] = S!Owned("prediction_runs", {}, {})
      /\ S!V2Predictions[6] = S!Owned("prediction_records",
                        {<<"run_id", "prediction_runs">>,
                            <<"feature_snapshot_id", "feature_snapshots">>},
                            S!Scoped({"run_id", "entity_type", "entity_id", "horizon_days"}))
  BY DEF S!V2Predictions
<1>6. /\ S!V2Automation[1] = S!Owned("automation_policies",
                        {<<"customer_id", "customers">>}, S!Scoped({"customer_id", "policy_version"}))
      /\ S!V2Automation[2] = S!Owned("automation_decisions",
                        {<<"case_id", "payment_cases">>, <<"policy_id", "automation_policies">>},
                            S!Scoped({"idempotency_key"}))
      /\ S!V2Automation[3] = S!Owned("dispute_root_causes", {<<"case_id", "payment_cases">>}, {})
      /\ S!V2Automation[4] = S!Owned("escalation_recommendations",
                        {<<"case_id", "payment_cases">>}, {})
      /\ S!V2Automation[5] = S!Owned("customer_behavior_snapshots",
                        {<<"customer_id", "customers">>},
                            S!Scoped({"customer_id", "as_of", "window_days", "profile_version"}))
      /\ S!V2Automation[6] = S!Owned("account_manager_benchmarks", {},
                        S!Scoped({"manager_id", "as_of", "window_days", "metric_version"}))
      /\ S!V2Automation[7] = S!Owned("derived_job_runs", {}, S!Scoped({"idempotency_key"}))
  BY DEF S!V2Automation
<1>7. /\ Creation[1] = S!InitialIdentity[1]
      /\ Creation[2] = S!InitialIdentity[2]
      /\ Creation[3] = S!InitialIdentity[3]
      /\ Creation[4] = S!InitialIdentity[4]
      /\ Creation[5] = S!InitialIdentity[5]
      /\ Creation[6] = S!InitialIdentity[6]
      /\ Creation[7] = S!InitialIdentity[7]
      /\ Creation[8] = S!InitialIdentity[8]
  BY CreationBlocks
<1>8. /\ Creation[9] = S!InitialCases[1]
      /\ Creation[10] = S!InitialCases[2]
      /\ Creation[11] = S!InitialCases[3]
      /\ Creation[12] = S!InitialCases[4]
      /\ Creation[13] = S!InitialCases[5]
      /\ Creation[14] = S!InitialCases[6]
      /\ Creation[15] = S!InitialCases[7]
  BY CreationBlocks
<1>9. /\ Creation[25] = S!V1Connected[1]
      /\ Creation[26] = S!V1Connected[2]
      /\ Creation[27] = S!V1Connected[3]
      /\ Creation[28] = S!V1Connected[4]
  BY CreationBlocks
<1>10. /\ Creation[29] = S!V1Actions[1]
      /\ Creation[30] = S!V1Actions[2]
      /\ Creation[31] = S!V1Actions[3]
      /\ Creation[32] = S!V1Actions[4]
      /\ Creation[33] = S!V1Actions[5]
      /\ Creation[34] = S!V1Actions[6]
      /\ Creation[35] = S!V1Actions[7]
      /\ Creation[36] = S!V1Actions[8]
  BY CreationBlocks
<1>11. /\ Creation[37] = S!V2Predictions[2]
      /\ Creation[38] = S!V2Predictions[3]
      /\ Creation[39] = S!V2Predictions[4]
      /\ Creation[40] = S!V2Predictions[5]
      /\ Creation[41] = S!V2Predictions[6]
  BY CreationBlocks
<1>12. /\ Creation[42] = S!V2Automation[1]
      /\ Creation[43] = S!V2Automation[2]
      /\ Creation[44] = S!V2Automation[3]
      /\ Creation[45] = S!V2Automation[4]
      /\ Creation[46] = S!V2Automation[5]
      /\ Creation[47] = S!V2Automation[6]
      /\ Creation[48] = S!V2Automation[7]
  BY CreationBlocks
<1>13. /\ Creation[17] = S!CommunicationsUp[1] /\ Creation[18] = S!CommunicationsUp[2]
      /\ Creation[20] = S!ConnectorsUp[1] /\ Creation[21] = S!ConnectorsUp[2]
      /\ Creation[22] = S!BankUp[1] /\ Creation[23] = S!BankUp[2]
      /\ Creation[16] = S!ProvenanceUp[1] /\ Creation[19] = S!CaseDocumentsUp[1]
      /\ Creation[24] = S!FailuresUp[1] /\ Creation[49] = S!SessionsUp[1]
  BY CreationBlocks
<1>14. QED
  BY <1>1, <1>2, <1>3, <1>4, <1>5, <1>6, <1>7, <1>8, <1>9, <1>10, <1>11, <1>12, <1>13,
     ProvenanceList, CommunicationsList,
     CaseDocumentsList, ConnectorsList, BankList, FailuresList, SessionsList, Zenon

\* What the ORM declares.
LEMMA OrmParts ==
  /\ S!OrmParties = {OrmCreation(1), OrmCreation(2), OrmCreation(7), OrmCreation(49), OrmCreation(4)}
  /\ S!OrmCases = {OrmCreation(13), OrmCreation(9), OrmCreation(14), OrmCreation(5), OrmCreation(16),
                  OrmCreation(19), OrmCreation(12)}
  /\ S!OrmMail = {OrmCreation(17), OrmCreation(18), OrmCreation(20), OrmCreation(21)}
  /\ S!OrmMoney = {OrmCreation(22), OrmCreation(23), OrmCreation(24), OrmCreation(11), OrmCreation(10),
                  OrmCreation(15), OrmCreation(3), OrmCreation(8), OrmCreation(6)}
  /\ S!OrmV1 = {OrmCreation(25), OrmCreation(26), OrmCreation(27), OrmCreation(28), OrmCreation(29),
               OrmCreation(30), OrmCreation(31), OrmCreation(32), OrmCreation(33), OrmCreation(34),
               OrmCreation(35), OrmCreation(36)}
  /\ S!OrmPredictions = {OrmCreation(37), OrmCreation(38), OrmCreation(39), OrmCreation(40),
                        OrmCreation(41)}
  /\ S!OrmAutomation = {OrmCreation(42), OrmCreation(43), OrmCreation(44), OrmCreation(45),
                       OrmCreation(46), OrmCreation(47), OrmCreation(48)}
<1>1. S!OrmParties = {OrmCreation(1), OrmCreation(2), OrmCreation(7), OrmCreation(49), OrmCreation(4)}
  <2>1. /\ OrmCreation(1) = Creation[1]
        /\ OrmCreation(2) = Creation[2]
        /\ OrmCreation(7) = Creation[7]
        /\ OrmCreation(49) = Creation[49]
        /\ OrmCreation(4) = Creation[4]
    BY DEF OrmCreation
  <2>2. QED
    BY <2>1, Placed, Zenon DEF S!OrmParties
<1>2. S!OrmCases = {OrmCreation(13), OrmCreation(9), OrmCreation(14), OrmCreation(5), OrmCreation(16),
                   OrmCreation(19), OrmCreation(12)}
  <2>1. /\ OrmCreation(13) = Creation[13]
        /\ OrmCreation(9) = Creation[9]
        /\ OrmCreation(14) = Creation[14]
        /\ OrmCreation(5) = Creation[5]
        /\ OrmCreation(16) = Creation[16]
        /\ OrmCreation(19) = Creation[19]
        /\ OrmCreation(12) = Creation[12]
    BY DEF OrmCreation
  <2>2. QED
    BY <2>1, Placed, Zenon DEF S!OrmCases
<1>3. S!OrmMail = {OrmCreation(17), OrmCreation(18), OrmCreation(20), OrmCreation(21)}
  <2>1. /\ OrmCreation(17) = Creation[17]
        /\ OrmCreation(18) = Creation[18]
        /\ OrmCreation(20) = Creation[20]
        /\ OrmCreation(21) = Creation[21]
    BY DEF OrmCreation
  <2>2. QED
    BY <2>1, Placed, Zenon DEF S!OrmMail
<1>4. S!OrmMoney = {OrmCreation(22), OrmCreation(23), OrmCreation(24), OrmCreation(11), OrmCreation(10),
                   OrmCreation(15), OrmCreation(3), OrmCreation(8), OrmCreation(6)}
  <2>1. /\ OrmCreation(23) = Creation[23]
        /\ OrmCreation(24) = Creation[24]
        /\ OrmCreation(11) = Creation[11]
        /\ OrmCreation(10) = Creation[10]
        /\ OrmCreation(3) = Creation[3]
        /\ OrmCreation(8) = Creation[8]
        /\ OrmCreation(6) = Creation[6]
    BY DEF OrmCreation
  <2>2. /\ OrmCreation(15) = S!Owned("draft_actions", {<<"approval_id", "approvals">>},
               S!Scoped({"idempotency_key"}))
        /\ OrmCreation(22) = S!Owned("bank_transactions", {<<"reversal_of_id", "bank_transactions">>},
                                     S!Scoped({"source_fingerprint"}))
    BY DEF OrmCreation
  <2>3. QED
    BY <2>1, <2>2, Placed, Zenon DEF S!OrmMoney
<1>5. S!OrmV1 = {OrmCreation(25), OrmCreation(26), OrmCreation(27), OrmCreation(28), OrmCreation(29),
                OrmCreation(30), OrmCreation(31), OrmCreation(32), OrmCreation(33), OrmCreation(34),
                OrmCreation(35), OrmCreation(36)}
  <2>1. /\ OrmCreation(25) = Creation[25]
        /\ OrmCreation(26) = Creation[26]
        /\ OrmCreation(27) = Creation[27]
        /\ OrmCreation(28) = Creation[28]
        /\ OrmCreation(29) = Creation[29]
        /\ OrmCreation(30) = Creation[30]
        /\ OrmCreation(31) = Creation[31]
        /\ OrmCreation(32) = Creation[32]
        /\ OrmCreation(33) = Creation[33]
        /\ OrmCreation(34) = Creation[34]
        /\ OrmCreation(35) = Creation[35]
        /\ OrmCreation(36) = Creation[36]
    BY DEF OrmCreation
  <2>2. QED
    BY <2>1, Placed, Zenon DEF S!OrmV1
<1>6. S!OrmPredictions = {OrmCreation(37), OrmCreation(38), OrmCreation(39), OrmCreation(40),
                         OrmCreation(41)}
  <2>1. /\ OrmCreation(37) = Creation[37]
        /\ OrmCreation(38) = Creation[38]
        /\ OrmCreation(39) = Creation[39]
        /\ OrmCreation(40) = Creation[40]
        /\ OrmCreation(41) = Creation[41]
    BY DEF OrmCreation
  <2>2. QED
    BY <2>1, Placed, Zenon DEF S!OrmPredictions
<1>7. S!OrmAutomation = {OrmCreation(42), OrmCreation(43), OrmCreation(44), OrmCreation(45),
                        OrmCreation(46), OrmCreation(47), OrmCreation(48)}
  <2>1. /\ OrmCreation(42) = Creation[42]
        /\ OrmCreation(43) = Creation[43]
        /\ OrmCreation(44) = Creation[44]
        /\ OrmCreation(45) = Creation[45]
        /\ OrmCreation(46) = Creation[46]
        /\ OrmCreation(47) = Creation[47]
        /\ OrmCreation(48) = Creation[48]
    BY DEF OrmCreation
  <2>2. QED
    BY <2>1, Placed, Zenon DEF S!OrmAutomation
<1>8. QED
  BY <1>1, <1>2, <1>3, <1>4, <1>5, <1>6, <1>7

\* The tables that the ORM declares are those of the order of creation, each with its links and keys.
LEMMA OrmByPlace == S!Orm = {OrmCreation(p) : p \in 1..49}
<1>1. PICK o : o = [p \in 1..49 |-> OrmCreation(p)]
  OBVIOUS
<1>2. \A p \in 1..49 : OrmCreation(p) = o[p]
  BY <1>1
<1>3. /\ S!OrmParties = {o[1], o[2], o[7], o[49], o[4]}
      /\ S!OrmCases = {o[13], o[9], o[14], o[5], o[16], o[19], o[12]}
      /\ S!OrmMail = {o[17], o[18], o[20], o[21]}
      /\ S!OrmMoney = {o[22], o[23], o[24], o[11], o[10], o[15], o[3], o[8], o[6]}
      /\ S!OrmV1 = {o[25], o[26], o[27], o[28], o[29], o[30], o[31], o[32], o[33], o[34], o[35], o[36]}
      /\ S!OrmPredictions = {o[37], o[38], o[39], o[40], o[41]}
      /\ S!OrmAutomation = {o[42], o[43], o[44], o[45], o[46], o[47], o[48]}
  BY <1>2, OrmParts
<1>4. S!Orm = {o[p] : p \in 1..49}
  <2>1. \A x : x \in S!Orm => \E p \in 1..49 : x = o[p]
    BY <1>3 DEF S!Orm
  <2>2. ASSUME NEW p \in 1..49 PROVE o[p] \in S!Orm
    <3>1. \/ p = 1 \/ p = 2 \/ p = 3 \/ p = 4 \/ p = 5 \/ p = 6 \/ p = 7 \/ p = 8 \/ p = 9 \/ p = 10
          \/ p = 11 \/ p = 12 \/ p = 13 \/ p = 14 \/ p = 15 \/ p = 16 \/ p = 17 \/ p = 18 \/ p = 19
              \/ p = 20
          \/ p = 21 \/ p = 22 \/ p = 23 \/ p = 24 \/ p = 25 \/ p = 26 \/ p = 27 \/ p = 28 \/ p = 29
              \/ p = 30
          \/ p = 31 \/ p = 32 \/ p = 33 \/ p = 34 \/ p = 35 \/ p = 36 \/ p = 37 \/ p = 38 \/ p = 39
              \/ p = 40
          \/ p = 41 \/ p = 42 \/ p = 43 \/ p = 44 \/ p = 45 \/ p = 46 \/ p = 47 \/ p = 48 \/ p = 49
      OBVIOUS
    <3>2. QED
      BY <1>3, <3>1 DEF S!Orm
  <2>3. QED
    BY <2>1, <2>2
<1>5. QED
  BY <1>2, <1>4

\* The links that the newest revision ties to the tenant.
Linked == {
  <<"invoices", "customer_id", "customers">>,
  <<"case_invoices", "case_id", "payment_cases">>,
  <<"case_invoices", "invoice_id", "invoices">>,
  <<"document_sources", "document_id", "documents">>,
  <<"case_documents", "case_id", "payment_cases">>,
  <<"case_documents", "document_id", "documents">>,
  <<"evidence_spans", "document_id", "documents">>,
  <<"communication_attachments", "communication_id", "communications">>,
  <<"communication_attachments", "document_id", "documents">>,
  <<"bank_transactions", "reversal_of_id", "bank_transactions">>,
  <<"payment_allocations", "transaction_id", "bank_transactions">>,
  <<"payment_allocations", "invoice_id", "invoices">>,
  <<"blockers", "case_id", "payment_cases">>,
  <<"approvals", "case_id", "payment_cases">>,
  <<"draft_actions", "approval_id", "approvals">>,
  <<"payment_rules", "customer_id", "customers">>,
  <<"notification_actions", "approval_id", "approvals">>,
  <<"bulk_approval_items", "batch_id", "bulk_approval_batches">>,
  <<"bulk_approval_items", "approval_id", "approvals">>,
  <<"prediction_records", "run_id", "prediction_runs">>,
  <<"prediction_records", "feature_snapshot_id", "feature_snapshots">>,
  <<"automation_policies", "customer_id", "customers">>,
  <<"automation_decisions", "case_id", "payment_cases">>,
  <<"automation_decisions", "policy_id", "automation_policies">>,
  <<"dispute_root_causes", "case_id", "payment_cases">>,
  <<"escalation_recommendations", "case_id", "payment_cases">>,
  <<"customer_behavior_snapshots", "customer_id", "customers">>}

\* The links that the ORM declares with the tenant are relationships of the last revision.
LEMMA LinkedListed == \A x \in Linked : \E i \in 1..27 : S!Relationships[i] = x
<1>1. /\ S!Relationships[1] = <<"invoices", "customer_id", "customers">>
      /\ S!Relationships[2] = <<"case_invoices", "case_id", "payment_cases">>
      /\ S!Relationships[3] = <<"case_invoices", "invoice_id", "invoices">>
      /\ S!Relationships[4] = <<"document_sources", "document_id", "documents">>
      /\ S!Relationships[5] = <<"case_documents", "case_id", "payment_cases">>
      /\ S!Relationships[6] = <<"case_documents", "document_id", "documents">>
      /\ S!Relationships[7] = <<"evidence_spans", "document_id", "documents">>
      /\ S!Relationships[8] = <<"communication_attachments", "communication_id", "communications">>
      /\ S!Relationships[9] = <<"communication_attachments", "document_id", "documents">>
      /\ S!Relationships[10] = <<"bank_transactions", "reversal_of_id", "bank_transactions">>
      /\ S!Relationships[11] = <<"payment_allocations", "transaction_id", "bank_transactions">>
      /\ S!Relationships[12] = <<"payment_allocations", "invoice_id", "invoices">>
      /\ S!Relationships[13] = <<"blockers", "case_id", "payment_cases">>
      /\ S!Relationships[14] = <<"approvals", "case_id", "payment_cases">>
      /\ S!Relationships[15] = <<"draft_actions", "approval_id", "approvals">>
      /\ S!Relationships[16] = <<"payment_rules", "customer_id", "customers">>
      /\ S!Relationships[17] = <<"notification_actions", "approval_id", "approvals">>
      /\ S!Relationships[18] = <<"bulk_approval_items", "batch_id", "bulk_approval_batches">>
      /\ S!Relationships[19] = <<"bulk_approval_items", "approval_id", "approvals">>
      /\ S!Relationships[20] = <<"prediction_records", "run_id", "prediction_runs">>
      /\ S!Relationships[21] = <<"prediction_records", "feature_snapshot_id", "feature_snapshots">>
      /\ S!Relationships[22] = <<"automation_policies", "customer_id", "customers">>
      /\ S!Relationships[23] = <<"automation_decisions", "case_id", "payment_cases">>
      /\ S!Relationships[24] = <<"automation_decisions", "policy_id", "automation_policies">>
      /\ S!Relationships[25] = <<"dispute_root_causes", "case_id", "payment_cases">>
      /\ S!Relationships[26] = <<"escalation_recommendations", "case_id", "payment_cases">>
      /\ S!Relationships[27] = <<"customer_behavior_snapshots", "customer_id", "customers">>
  BY DEF S!Relationships
<1>2. /\ 1 \in 1..27 /\ 2 \in 1..27 /\ 3 \in 1..27 /\ 4 \in 1..27 /\ 5 \in 1..27 /\ 6 \in 1..27
      /\ 7 \in 1..27 /\ 8 \in 1..27 /\ 9 \in 1..27
      /\ 10 \in 1..27 /\ 11 \in 1..27 /\ 12 \in 1..27 /\ 13 \in 1..27 /\ 14 \in 1..27
      /\ 15 \in 1..27 /\ 16 \in 1..27 /\ 17 \in 1..27 /\ 18 \in 1..27
      /\ 19 \in 1..27 /\ 20 \in 1..27 /\ 21 \in 1..27 /\ 22 \in 1..27 /\ 23 \in 1..27
      /\ 24 \in 1..27 /\ 25 \in 1..27 /\ 26 \in 1..27 /\ 27 \in 1..27
  OBVIOUS
<1>3. QED
  BY <1>1, <1>2, ZenonT(60) DEF Linked

\* What a table refers to: its tenant, unless it is one of three, by one column only, users, and
\* otherwise tables that the newest revision ties to the tenant.
IsOwned(s) ==
  /\ s.table \notin {"tenants", "users", "llm_pricing"} <=> <<"tenant_id", "tenants">> \in s.refs
  /\ \A r \in s.refs : r[2] \in {"tenants", "users"} \/ <<s.table, r[1], r[2]>> \in Linked

\* What the tables of the identities refer to.
LEMMA IdentityOwned == \A i \in 1..8 : IsOwned(S!InitialIdentity[i])
BY DEF S!InitialIdentity, S!Owned, S!Table, S!Scoped, IsOwned, Linked

\* What the tables of the cases refer to.
LEMMA CasesOwned == \A i \in 1..7 : IsOwned(S!InitialCases[i])
BY DEF S!InitialCases, S!Owned, S!Table, S!Scoped, IsOwned, Linked

\* What the tables of the connectors refer to.
LEMMA ConnectedOwned == \A i \in 1..4 : IsOwned(S!V1Connected[i])
BY DEF S!V1Connected, S!Inbox, S!Owned, S!Table, S!Scoped, IsOwned, Linked

\* What the tables of the actions refer to.
LEMMA ActionsOwned == \A i \in 1..8 : IsOwned(S!V1Actions[i])
BY DEF S!V1Actions, S!Owned, S!Table, S!Scoped, IsOwned, Linked

\* What the tables of the predictions refer to.
LEMMA PredictionsOwned == \A i \in 1..5 : IsOwned(S!V2Predictions[1 + i])
BY DEF S!V2Predictions, S!Column, S!Owned, S!Table, S!Scoped, IsOwned, Linked

\* What the tables of the automation refer to.
LEMMA AutomationOwned == \A i \in 1..7 : IsOwned(S!V2Automation[i])
BY DEF S!V2Automation, S!Owned, S!Table, S!Scoped, IsOwned, Linked

\* What the tables of the smaller upgrades refer to.
LEMMA SmallOwned ==
  /\ IsOwned(Creation[16]) /\ IsOwned(Creation[17]) /\ IsOwned(Creation[18])
  /\ IsOwned(Creation[19]) /\ IsOwned(Creation[20]) /\ IsOwned(Creation[21])
  /\ IsOwned(Creation[22]) /\ IsOwned(Creation[23]) /\ IsOwned(Creation[24])
  /\ IsOwned(Creation[49])
<1>1. IsOwned(Creation[16])
  BY Placed DEF S!Owned, S!Table, S!Scoped, IsOwned, Linked
<1>2. IsOwned(Creation[17])
  BY Placed DEF S!Owned, S!Table, S!Scoped, IsOwned, Linked
<1>3. IsOwned(Creation[18])
  BY Placed DEF S!Owned, S!Table, S!Scoped, IsOwned, Linked
<1>4. IsOwned(Creation[19])
  BY Placed DEF S!Owned, S!Table, S!Scoped, IsOwned, Linked
<1>5. IsOwned(Creation[20])
  BY Placed DEF S!Owned, S!Table, S!Scoped, IsOwned, Linked
<1>6. IsOwned(Creation[21])
  BY Placed DEF S!Owned, S!Table, S!Scoped, IsOwned, Linked
<1>7. IsOwned(Creation[22])
  BY Placed DEF S!Owned, S!Table, S!Scoped, IsOwned, Linked
<1>8. IsOwned(Creation[23])
  BY Placed DEF S!Owned, S!Table, S!Scoped, IsOwned, Linked
<1>9. IsOwned(Creation[24])
  BY Placed DEF S!Owned, S!Table, S!Scoped, IsOwned, Linked
<1>10. IsOwned(Creation[49])
  BY Placed DEF S!Owned, S!Table, S!Scoped, IsOwned, Linked
<1>11. QED
  BY <1>1, <1>2, <1>3, <1>4, <1>5, <1>6, <1>7, <1>8, <1>9, <1>10

\* What every table refers to.
LEMMA AllOwned == \A p \in 1..49 : IsOwned(Creation[p])
<1>1. \A i \in 1..8 : IsOwned(Creation[i])
  BY CreationBlocks, IdentityOwned
<1>2. \A i \in 1..7 : IsOwned(Creation[8 + i])
  BY CreationBlocks, CasesOwned
<1>3. \A i \in 1..4 : IsOwned(Creation[24 + i])
  BY CreationBlocks, ConnectedOwned
<1>4. \A i \in 1..8 : IsOwned(Creation[28 + i])
  BY CreationBlocks, ActionsOwned
<1>5. \A i \in 1..5 : IsOwned(Creation[36 + i])
  BY CreationBlocks, PredictionsOwned
<1>6. \A i \in 1..7 : IsOwned(Creation[41 + i])
  BY CreationBlocks, AutomationOwned
<1>7. PICK c : c = Creation
  OBVIOUS
<1>8. ASSUME NEW p \in 1..49 PROVE IsOwned(c[p])
  <2>1. \/ p \in 1..8 \/ (p - 8 \in 1..7 /\ 8 + (p - 8) = p) \/ (p - 24 \in 1..4 /\ 24 + (p - 24) = p)
        \/ (p - 28 \in 1..8 /\ 28 + (p - 28) = p) \/ (p - 36 \in 1..5 /\ 36 + (p - 36) = p)
        \/ (p - 41 \in 1..7 /\ 41 + (p - 41) = p)
        \/ p = 16 \/ p = 17 \/ p = 18 \/ p = 19 \/ p = 20 \/ p = 21 \/ p = 22 \/ p = 23 \/ p = 24 \/ p = 49
    OBVIOUS
  <2>2. QED
    BY <1>1, <1>2, <1>3, <1>4, <1>5, <1>6, <1>7, <2>1, SmallOwned
<1>9. QED
  BY <1>7, <1>8

\* What the creations of the ORM and of the scripts share.
LEMMA OrmAndCreated ==
  /\ \A p \in 1..49 : p # 15 /\ p # 22 => OrmCreation(p) = Creation[p]
  /\ \A p \in 1..49 : OrmCreation(p).table = Name(p)
  /\ \A p \in 1..49 : <<"tenant_id", "tenants">> \in OrmCreation(p).refs
                         <=> Name(p) \notin {"tenants", "users", "llm_pricing"}
  /\ S!LinksOf(OrmCreation(15)) = S!LinksOf(Creation[15])
  /\ S!LinksOf(OrmCreation(22)) = S!LinksOf(Creation[22]) \union {Reversal}
  /\ S!KeysOf(OrmCreation(15)) = {OwnKey}
  /\ S!KeysOf(OrmCreation(22)) = S!KeysOf(Creation[22])
<1>1. /\ \A p \in 1..49 : p # 15 /\ p # 22 => OrmCreation(p) = Creation[p]
      /\ OrmCreation(15) = S!Owned("draft_actions", {<<"approval_id", "approvals">>},
             S!Scoped({"idempotency_key"}))
      /\ OrmCreation(22) = S!Owned("bank_transactions", {<<"reversal_of_id", "bank_transactions">>},
                                   S!Scoped({"source_fingerprint"}))
  BY DEF OrmCreation
<1>2. OrmCreation(15).table = "draft_actions" /\ OrmCreation(22).table = "bank_transactions"
  BY <1>1 DEF S!Owned, S!Table
<1>3. /\ OrmCreation(15).refs = {<<"approval_id", "approvals">>, <<"tenant_id", "tenants">>}
      /\ OrmCreation(22).refs = {<<"reversal_of_id", "bank_transactions">>, <<"tenant_id", "tenants">>}
      /\ OrmCreation(15).keys = {{"tenant_id", "idempotency_key"}}
      /\ OrmCreation(22).keys = {{"tenant_id", "source_fingerprint"}}
  BY <1>1 DEF S!Owned, S!Table, S!Scoped
<1>4. /\ Creation[15].table = "draft_actions" /\ Creation[22].table = "bank_transactions"
      /\ Creation[15].refs = {<<"approval_id", "approvals">>, <<"tenant_id", "tenants">>}
      /\ Creation[22].refs = {<<"tenant_id", "tenants">>}
      /\ Creation[22].keys = {{"tenant_id", "source_fingerprint"}}
  BY Placed DEF S!Owned, S!Table, S!Scoped
<1>5. \A p \in 1..49 : OrmCreation(p).table = Name(p)
  <2> SUFFICES ASSUME NEW p \in 1..49 PROVE OrmCreation(p).table = Name(p)
    OBVIOUS
  <2>1. CASE p = 15
    BY <1>2, <1>4, <2>1 DEF Name
  <2>2. CASE p = 22
    BY <1>2, <1>4, <2>2 DEF Name
  <2>3. CASE p # 15 /\ p # 22
    BY <1>1, <2>3 DEF Name
  <2>4. QED
    BY <2>1, <2>2, <2>3
<1>6. \A p \in 1..49 : <<"tenant_id", "tenants">> \in OrmCreation(p).refs
                         <=> Name(p) \notin {"tenants", "users", "llm_pricing"}
  <2> SUFFICES ASSUME NEW p \in 1..49
               PROVE  <<"tenant_id", "tenants">> \in OrmCreation(p).refs
                         <=> Name(p) \notin {"tenants", "users", "llm_pricing"}
    OBVIOUS
  <2>1. IsOwned(Creation[p])
    BY AllOwned
  <2>2. CASE p = 15
    BY <1>3, <1>4, <2>2 DEF Name
  <2>3. CASE p = 22
    BY <1>3, <1>4, <2>3 DEF Name
  <2>4. CASE p # 15 /\ p # 22
    <3>1. OrmCreation(p) = Creation[p]
      BY <1>1, <2>4
    <3>2. QED
      BY <2>1, <3>1, Zenon DEF IsOwned, Name
  <2>5. QED
    BY <2>2, <2>3, <2>4
<1>7. /\ S!LinksOf(OrmCreation(15)) = S!LinksOf(Creation[15])
      /\ S!LinksOf(OrmCreation(22)) = S!LinksOf(Creation[22]) \union {Reversal}
  <2>1. PICK a, b, c, e : /\ a = OrmCreation(15) /\ b = Creation[15]
                          /\ c = OrmCreation(22) /\ e = Creation[22]
    OBVIOUS
  <2>2. /\ a.table = b.table /\ a.refs = b.refs
        /\ c.table = e.table /\ c.refs = e.refs \union {<<"reversal_of_id", "bank_transactions">>}
        /\ e.table = "bank_transactions"
    BY <1>2, <1>3, <1>4, <2>1
  <2>3. S!LinksOf(a) = S!LinksOf(b)
    BY <2>2, Zenon DEF S!LinksOf
  <2>4. S!LinksOf(c) = S!LinksOf(e) \union {Reversal}
    <3>1. PICK new, t : new = <<"reversal_of_id", "bank_transactions">> /\ t = c.table
      OBVIOUS
    <3>2. <<t, new[1], new[2], "id">> = Reversal
      BY <2>2, <3>1 DEF Reversal
    <3>3. c.refs = e.refs \union {new} /\ e.table = t
      BY <2>2, <3>1
    <3>4. /\ S!LinksOf(c) = {<<t, r[1], r[2], "id">> : r \in e.refs \union {new}}
          /\ S!LinksOf(e) = {<<t, r[1], r[2], "id">> : r \in e.refs}
      BY <3>1, <3>3, Zenon DEF S!LinksOf
    <3>5. S!LinksOf(c) = S!LinksOf(e) \union {<<t, new[1], new[2], "id">>}
      BY <3>4
    <3>6. QED
      BY <3>2, <3>5
  <2>5. QED
    BY <2>1, <2>3, <2>4
<1>8. /\ S!KeysOf(OrmCreation(15)) = {OwnKey}
      /\ S!KeysOf(OrmCreation(22)) = S!KeysOf(Creation[22])
  BY <1>2, <1>3, <1>4 DEF S!KeysOf, OwnKey
<1>9. QED
  BY <1>1, <1>5, <1>6, <1>7, <1>8

\* The tables, links and keys that the ORM declares.
LEMMA OrmIs ==
  /\ S!OrmTables = Names
  /\ S!OrmLinks = LinksBetween(0, 49) \union {Reversal}
  /\ S!OrmKeys = (KeysBetween(0, 49) \ {GlobalKey}) \union {OwnKey}
  /\ S!TenantOwned = Names \ Unguarded
<1>1. S!OrmTables = Names
  <2>1. S!OrmTables = {OrmCreation(p).table : p \in 1..49}
    BY OrmByPlace DEF S!OrmTables
  <2>2. \A x : x \in S!OrmTables <=> \E p \in 1..49 : x = Name(p)
    BY <2>1, OrmAndCreated
  <2>3. QED
    BY <2>2, NamesListed
<1>2. S!OrmLinks = LinksBetween(0, 49) \union {Reversal}
  <2>1. \A x : x \in S!OrmLinks <=> \E p \in 1..49 : x \in S!LinksOf(OrmCreation(p))
    BY OrmByPlace, Zenon DEF S!OrmLinks
  <2>2. \A x : x \in LinksBetween(0, 49) <=> \E p \in 1..49 : x \in S!LinksOf(Creation[p])
    BY DEF LinksBetween
  <2>3. \A p \in 1..49 : /\ p # 22 => S!LinksOf(OrmCreation(p)) = S!LinksOf(Creation[p])
                         /\ p = 22 => S!LinksOf(OrmCreation(p)) = S!LinksOf(Creation[p]) \union {Reversal}
    BY OrmAndCreated
  <2>4. 22 \in 1..49
    OBVIOUS
  <2>5. QED
    BY <2>1, <2>2, <2>3, <2>4
<1>3. S!OrmKeys = (KeysBetween(0, 49) \ {GlobalKey}) \union {OwnKey}
  <2>1. \A x : x \in S!OrmKeys <=> \E p \in 1..49 : x \in S!KeysOf(OrmCreation(p))
    BY OrmByPlace, Zenon DEF S!OrmKeys
  <2>2. \A x : x \in KeysBetween(0, 49) <=> \E p \in 1..49 : x \in S!KeysOf(Creation[p])
    BY DEF KeysBetween
  <2>3. \A p \in 1..49 : /\ p # 15 => S!KeysOf(OrmCreation(p)) = S!KeysOf(Creation[p])
                         /\ p = 15 => /\ S!KeysOf(OrmCreation(p)) = {OwnKey}
                                      /\ S!KeysOf(Creation[p]) = {GlobalKey}
    BY OrmAndCreated, DraftCreation DEF GlobalKey
  <2>4. 15 \in 1..49 /\ Name(15) = "draft_actions"
    BY Named
  <2>5. \A p \in 1..49 : p # 15 => GlobalKey \notin S!KeysOf(Creation[p])
    <3>1. \A p \in 1..49 : \A x \in S!KeysOf(Creation[p]) : x[1] = Name(p)
      BY DEF S!KeysOf, Name
    <3>2. \A p \in 1..49 : p # 15 => Name(p) # Name(15)
      BY <2>4, NamesListed
    <3>3. GlobalKey[1] = "draft_actions"
      BY DEF GlobalKey
    <3>4. QED
      BY <2>4, <3>1, <3>2, <3>3
  <2>6. QED
    BY <2>1, <2>2, <2>3, <2>4, <2>5
<1>4. S!TenantOwned = Names \ Unguarded
  <2>1. \A x : x \in S!TenantOwned <=>
                 /\ \E p \in 1..49 : x = OrmCreation(p).table
                        /\ <<"tenant_id", "tenants">> \in OrmCreation(p).refs
                 /\ x # "portfolio_sessions"
    BY OrmByPlace, Zenon DEF S!TenantOwned
  <2>2. \A x : x \in S!TenantOwned <=>
                 /\ \E p \in 1..49 : x = Name(p) /\ Name(p) \notin {"tenants", "users", "llm_pricing"}
                 /\ x # "portfolio_sessions"
    BY <2>1, OrmAndCreated
  <2>3. QED
    BY <2>2, NamesListed DEF Unguarded
<1>5. QED
  BY <1>1, <1>2, <1>3, <1>4

-----------------------------------------------------------------------------
(* What the committed schema of a revision guarantees.                     *)

\* Tenant owned tables are guarded, the application role is held back.
LEMMA GuardedAt ==
  ASSUME NEW r, IsAt(db, r)
  PROVE  S!TenantTablesGuarded
<1>1. PICK n, s : n = CountAt(r) /\ s = db
  OBVIOUS
<1>2. /\ s.tables = TablesUpTo(n) /\ s.isolated = GuardedUpTo(n) /\ s.privileges = PrivilegesWith(n, r)
  BY <1>1 DEF IsAt, Shape, Fields
<1>3. PICK tables, guarded, rights :
         /\ tables = TablesUpTo(n) /\ guarded = GuardedUpTo(n)
         /\ rights = IF r > 0 THEN IdentityRights ELSE {}
  OBVIOUS
<1>4. /\ guarded = tables \ Unguarded
      /\ s.privileges = ((guarded \X S!Everything) \ Changing) \union rights
      /\ rights \subseteq IdentityRights
  BY <1>2, <1>3 DEF GuardedUpTo, PrivilegesWith
<1>5. ASSUME NEW t \in S!TenantOwned \intersect s.tables
      PROVE  t \in s.isolated /\ {t} \X {"SELECT", "INSERT"} \subseteq s.privileges
  <2>1. t \in guarded /\ t \in s.isolated
    BY <1>2, <1>3, <1>4, OrmIs
  <2>2. \A w \in {"SELECT", "INSERT"} : <<t, w>> \in guarded \X S!Everything /\ <<t, w>> \notin Changing
    BY <2>1 DEF S!Everything, Changing
  <2>3. QED
    BY <1>4, <2>1, <2>2
<1>6. ASSUME NEW p \in s.privileges
      PROVE  /\ p[1] = "audit_entries" => p[2] \notin {"UPDATE", "DELETE"}
             /\ p[1] = "tenants" => p[2] # "DELETE"
  <2>1. CASE p \in IdentityRights
    BY <2>1 DEF IdentityRights
  <2>2. CASE p \in guarded \X S!Everything /\ p \notin Changing
    <3>1. p = <<p[1], p[2]>> /\ p[1] \notin Unguarded
      BY <1>4, <2>2
    <3>2. QED
      BY <2>2, <3>1 DEF Changing, Unguarded
  <2>3. QED
    BY <1>4, <2>1, <2>2
<1>7. QED
  BY <1>1, <1>5, <1>6 DEF S!TenantTablesGuarded

\* The links and keys of the newest revision.
LEMMA HeadParts ==
  ASSUME NEW s, IsAt(s, 12)
  PROVE  /\ s.tables = Names
         /\ s.links = LinksBetween(0, 49) \union {Reversal} \union FirstOf(TenantLinkList, 27)
         /\ s.keys = (KeysBetween(0, 49) \ {GlobalKey}) \union {OwnKey} \union FirstOf(ParentKeyList, 11)
<1>1. s.tables = TablesUpTo(49) /\ s.links = LinksWith(49, 12) /\ s.keys = KeysWith(49, 12)
  BY Counts DEF IsAt, Shape, Fields
<1>2. TablesUpTo(49) = Names
  BY AllNames, NamesListed DEF TablesUpTo
<1>3. /\ LinksWith(49, 12) = LinksBetween(0, 49) \union {Reversal} \union FirstOf(TenantLinkList, 27)
      /\ KeysWith(49, 12) = (KeysBetween(0, 49) \ {GlobalKey}) \union {OwnKey}
             \union FirstOf(ParentKeyList, 11)
  BY DEF LinksWith, KeysWith
<1>4. QED
  BY <1>1, <1>2, <1>3

\* They are the ones of the ORM and those that tie links to the tenant.
LEMMA HeadMatches ==
  ASSUME IsAt(db, 12)
  PROVE  /\ db.tables = S!OrmTables
         /\ {l \in db.links : l[4] = "id"} = S!OrmLinks
         /\ {k \in db.keys : k[2] # S!TenantKey} = S!OrmKeys
<1>1. PICK s : s = db
  OBVIOUS
<1>2. IsAt(s, 12)
  BY <1>1
<1>3. PICK links, keys, own, parents :
         /\ links = LinksBetween(0, 49) \union {Reversal} /\ own = FirstOf(TenantLinkList, 27)
         /\ keys = (KeysBetween(0, 49) \ {GlobalKey}) \union {OwnKey}
         /\ parents = FirstOf(ParentKeyList, 11)
  OBVIOUS
<1>4. links = LinksWith(49, 11) /\ keys = KeysWith(49, 11)
  BY <1>3 DEF LinksWith, KeysWith
<1>5. /\ \A l \in links : l[4] = "id"
      /\ \A l \in own : l[4] = "tenant"
      /\ \A k \in keys : k[2] # S!TenantKey
      /\ \A k \in parents : k[2] = S!TenantKey
  <2>1. \A l \in links : l[4] = "id"
    BY <1>4, TenantsApart
  <2>2. \A l \in own : l[4] = "tenant"
    BY <1>3, TenantsApart DEF FirstOf
  <2>3. \A k \in keys : "id" \notin k[2]
    BY <1>4, TenantsApart
  <2>4. "id" \in S!TenantKey
    BY DEF S!TenantKey
  <2>5. \A k \in parents : k[2] = S!TenantKey
    BY <1>3, TenantsApart DEF FirstOf
  <2>6. QED
    BY <2>1, <2>2, <2>3, <2>4, <2>5
<1>6. s.tables = Names /\ s.links = links \union own /\ s.keys = keys \union parents
  BY <1>2, <1>3, HeadParts
<1>7. {l \in s.links : l[4] = "id"} = links /\ {k \in s.keys : k[2] # S!TenantKey} = keys
  BY <1>5, <1>6
<1>8. QED
  BY <1>1, <1>3, <1>6, <1>7, OrmIs

\* A link between tenant owned tables is one of the relationships.
LEMMA LinksAreLinked ==
  ASSUME NEW l \in LinksBetween(0, 49) \union {Reversal}
  PROVE  l = <<l[1], l[2], l[3], "id">>
      /\ (l[3] \in {"tenants", "users"} \/ <<l[1], l[2], l[3]>> \in Linked)
<1>1. CASE l = Reversal
  BY <1>1 DEF Reversal, Linked
<1>2. CASE l \in LinksBetween(0, 49)
  <2>1. PICK p \in 1..49 : l \in S!LinksOf(Creation[p])
    BY <1>2 DEF LinksBetween
  <2>2. PICK r \in Creation[p].refs : l = <<Creation[p].table, r[1], r[2], "id">>
    BY <2>1 DEF S!LinksOf
  <2>3. r[2] \in {"tenants", "users"} \/ <<Creation[p].table, r[1], r[2]>> \in Linked
    BY <2>1, <2>2, AllOwned DEF IsOwned
  <2>4. QED
    BY <2>2, <2>3
<1>3. QED
  BY <1>1, <1>2

\* So each of them is tied to the tenant too.
LEMMA HeadTied ==
  ASSUME IsAt(db, 12)
  PROVE  \A l \in db.links : {l[1], l[3]} \subseteq S!TenantOwned /\ l[4] = "id"
                                => <<l[1], l[2], l[3], "tenant">> \in db.links
<1>1. PICK s : s = db
  OBVIOUS
<1>2. PICK links, own : /\ links = LinksBetween(0, 49) \union {Reversal}
                      /\ own = FirstOf(TenantLinkList, 27)
  OBVIOUS
<1>3. s.links = links \union own
  BY <1>1, <1>2, HeadParts
<1>4. ASSUME NEW l \in s.links, l[3] \in S!TenantOwned, l[4] = "id"
      PROVE  <<l[1], l[2], l[3], "tenant">> \in s.links
  <2>1. l \in links
    <3>1. \A x \in own : x[4] = "tenant"
      BY <1>2, TenantsApart DEF FirstOf
    <3>2. QED
      BY <1>3, <1>4, <3>1
  <2>2. l[3] \notin {"tenants", "users"}
    BY <1>4, OrmIs DEF Unguarded
  <2>3. <<l[1], l[2], l[3]>> \in Linked
    BY <1>2, <2>1, <2>2, LinksAreLinked
  <2>4. PICK i \in 1..27 : S!Relationships[i] = <<l[1], l[2], l[3]>>
    BY <2>3, LinkedListed
  <2>5. TenantLink(i) = <<l[1], l[2], l[3], "tenant">>
    BY <2>4 DEF TenantLink
  <2>6. TenantLink(i) \in own
    BY <1>2, TenantsApart DEF FirstOf
  <2>7. QED
    BY <1>3, <2>5, <2>6
<1>5. QED
  BY <1>1, <1>4

\* A database at one of the revisions guards the tables of tenants, and at the newest one its links
\* stay in a tenant and its tables are those of the ORM.
LEMMA NewestIsTwelve ==
  ASSUME IsAt(db, revision)
  PROVE  S!TenantTablesGuarded /\ S!LinksStayInTenant /\ S!OrmMatchesHead
<1>1. S!TenantTablesGuarded
  BY GuardedAt
<1>2. S!LinksStayInTenant
  BY HeadTied, TwelveRevisions DEF S!LinksStayInTenant
<1>3. S!OrmMatchesHead
  BY HeadMatches, TwelveRevisions DEF S!OrmMatchesHead
<1>4. QED
  BY <1>1, <1>2, <1>3

-----------------------------------------------------------------------------
(* What a statement preserves.                                             *)

\* A statement that can be applied keeps a schema in order.
LEMMA OrderKept ==
  ASSUME NEW a, NEW s, IsSchema(a), S!SchemaOK(a), S!Applicable(a, s), UpStatement(s) \/ DownStatement(s)
  PROVE  IsSchema(S!Applied(a, s)) /\ S!SchemaOK(S!Applied(a, s))
<1>1. PICK b : b = S!Applied(a, s)
  OBVIOUS
<1>2. s.do \in Adding \union Taking
  BY DEF UpStatement, DownStatement, Adding, Taking
<1>3. IsSchema(b)
  BY <1>1, <1>2, AppliedFields
<1>4. /\ a.tables \subseteq Names
      /\ \A l \in a.links : l[1] \in a.tables /\ l[3] \in a.tables
      /\ \A x \in a.keys \union a.privileges \union a.columns : x[1] \in a.tables
      /\ a.isolated \subseteq a.tables
  BY OrmIs DEF S!SchemaOK
<1>5. SUFFICES /\ b.tables \subseteq Names
               /\ \A l \in b.links : l[1] \in b.tables /\ l[3] \in b.tables
               /\ \A x \in b.keys \union b.privileges \union b.columns : x[1] \in b.tables
               /\ b.isolated \subseteq b.tables
  BY <1>1, <1>3, OrmIs DEF S!SchemaOK
<1>6. CASE s.do = "create"
  <2>1. Fields(b, a.tables \union {s.table}, a.links \union S!LinksOf(s), a.keys \union S!KeysOf(s),
               a.columns, a.isolated, a.privileges, a.role, a.wide)
    BY <1>1, <1>2, <1>6, AppliedFields, Zenon
  <2>2. s.table \in Names
    BY <1>6 DEF UpStatement, DownStatement
  <2>3. \A r \in s.refs : r[2] \in a.tables
    BY <1>6 DEF S!Applicable
  <2>4. \A l \in S!LinksOf(s) : l[1] = s.table /\ l[3] \in a.tables
    BY <2>3 DEF S!LinksOf
  <2>5. \A k \in S!KeysOf(s) : k[1] = s.table
    BY DEF S!KeysOf
  <2>6. QED
    BY <1>4, <2>1, <2>2, <2>4, <2>5 DEF Fields
<1>7. CASE s.do = "drop"
  <2>1. Fields(b, a.tables \ {s.table}, {l \in a.links : l[1] # s.table},
               {k \in a.keys : k[1] # s.table}, {x \in a.columns : x[1] # s.table},
               a.isolated \ {s.table}, {p \in a.privileges : p[1] # s.table}, a.role,
               {x \in a.wide : x[1] # s.table})
    BY <1>1, <1>2, <1>7, AppliedFields, Zenon
  <2>2. \A l \in a.links : l[3] = s.table => l[1] = s.table
    BY <1>7 DEF S!Applicable
  <2>3. QED
    BY <1>4, <2>1, <2>2 DEF Fields
<1>8. CASE s.do = "add"
  <2>1. Fields(b, a.tables, a.links, a.keys, a.columns \union {<<s.table, s.column>>}, a.isolated,
               a.privileges, a.role, a.wide)
    BY <1>1, <1>2, <1>8, AppliedFields, Zenon
  <2>2. s.table \in a.tables
    BY <1>8 DEF S!Applicable
  <2>3. QED
    BY <1>4, <2>1, <2>2 DEF Fields
<1>9. CASE s.do = "unique"
  <2>1. Fields(b, a.tables, a.links, a.keys \union {<<s.table, s.columns>>}, a.columns, a.isolated,
               a.privileges, a.role, a.wide)
    BY <1>1, <1>2, <1>9, AppliedFields, Zenon
  <2>2. s.table \in a.tables
    BY <1>9 DEF S!Applicable
  <2>3. QED
    BY <1>4, <2>1, <2>2 DEF Fields
<1>10. CASE s.do = "refer"
  <2>1. Fields(b, a.tables, a.links \union {s.link}, a.keys, a.columns, a.isolated, a.privileges,
            a.role, a.wide)
    BY <1>1, <1>2, <1>10, AppliedFields, Zenon
  <2>2. s.link[1] \in a.tables /\ s.link[3] \in a.tables
    BY <1>10 DEF S!Applicable
  <2>3. QED
    BY <1>4, <2>1, <2>2 DEF Fields
<1>11. CASE s.do = "isolate"
  <2>1. Fields(b, a.tables, a.links, a.keys, a.columns, a.isolated \union {s.table},
               a.privileges \union ({s.table} \X S!Everything), a.role, a.wide)
    BY <1>1, <1>2, <1>11, AppliedFields, Zenon
  <2>2. s.table \in a.tables
    BY <1>11 DEF S!Applicable
  <2>3. QED
    BY <1>4, <2>1, <2>2 DEF Fields
<1>12. CASE s.do = "grant"
  <2>1. Fields(b, a.tables, a.links, a.keys, a.columns, a.isolated,
               a.privileges \union ({s.table} \X s.what), a.role, a.wide)
    BY <1>1, <1>2, <1>12, AppliedFields, Zenon
  <2>2. s.table \in a.tables
    BY <1>12 DEF S!Applicable
  <2>3. QED
    BY <1>4, <2>1, <2>2 DEF Fields
<1>13. CASE s.do \in {"remove", "ununique", "unrefer", "revoke", "role", "droprole", "widen", "narrow"}
  <2>1. /\ b.tables = a.tables /\ b.links \subseteq a.links /\ b.keys \subseteq a.keys
        /\ b.columns \subseteq a.columns /\ b.privileges \subseteq a.privileges /\ b.isolated = a.isolated
    <3>1. CASE s.do = "remove"
      <4>1. Fields(b, a.tables, {l \in a.links : <<l[1], l[2]>> # <<s.table, s.column>>}, a.keys,
                 a.columns \ {<<s.table, s.column>>}, a.isolated, a.privileges, a.role, a.wide)
        BY <1>1, <1>2, <3>1, AppliedFields, Zenon
      <4>2. QED
        BY <4>1 DEF Fields
    <3>2. CASE s.do = "ununique"
      <4>1. Fields(b, a.tables, a.links, a.keys \ {<<s.table, s.columns>>}, a.columns, a.isolated,
                 a.privileges, a.role, a.wide)
        BY <1>1, <1>2, <3>2, AppliedFields, Zenon
      <4>2. QED
        BY <4>1 DEF Fields
    <3>3. CASE s.do = "unrefer"
      <4>1. Fields(b, a.tables, a.links \ {s.link}, a.keys, a.columns, a.isolated, a.privileges,
                 a.role, a.wide)
        BY <1>1, <1>2, <3>3, AppliedFields, Zenon
      <4>2. QED
        BY <4>1 DEF Fields
    <3>4. CASE s.do = "revoke"
      <4>1. Fields(b, a.tables, a.links, a.keys, a.columns, a.isolated,
                 a.privileges \ ({s.table} \X s.what), a.role, a.wide)
        BY <1>1, <1>2, <3>4, AppliedFields, Zenon
      <4>2. QED
        BY <4>1 DEF Fields
    <3>5. CASE s.do = "role"
      <4>1. Fields(b, a.tables, a.links, a.keys, a.columns, a.isolated, a.privileges, TRUE, a.wide)
        BY <1>1, <1>2, <3>5, AppliedFields, Zenon
      <4>2. QED
        BY <4>1 DEF Fields
    <3>6. CASE s.do = "droprole"
      <4>1. Fields(b, a.tables, a.links, a.keys, a.columns, a.isolated, a.privileges, FALSE, a.wide)
        BY <1>1, <1>2, <3>6, AppliedFields, Zenon
      <4>2. QED
        BY <4>1 DEF Fields
    <3>7. CASE s.do = "widen"
      <4>1. Fields(b, a.tables, a.links, a.keys, a.columns, a.isolated, a.privileges, a.role,
                 a.wide \union {<<s.table, s.column>>})
        BY <1>1, <1>2, <3>7, AppliedFields, Zenon
      <4>2. QED
        BY <4>1 DEF Fields
    <3>8. CASE s.do = "narrow"
      <4>1. Fields(b, a.tables, a.links, a.keys, a.columns, a.isolated, a.privileges, a.role,
                 a.wide \ {<<s.table, s.column>>})
        BY <1>1, <1>2, <3>8, AppliedFields, Zenon
      <4>2. QED
        BY <4>1 DEF Fields
    <3>9. QED
      BY <1>13, <3>1, <3>2, <3>3, <3>4, <3>5, <3>6, <3>7, <3>8
  <2>2. QED
    BY <1>4, <2>1
<1>14. QED
  BY <1>6, <1>7, <1>8, <1>9, <1>10, <1>11, <1>12, <1>13 DEF UpStatement, DownStatement

\* What an upgrade's statement leaves alone: tables and wide columns stay, new keys are those
\* of a new table or the one named.
LEMMA UpLeaves ==
  ASSUME NEW a, NEW s, IsSchema(a), UpStatement(s), NEW b, b = S!Applied(a, s)
  PROVE  /\ a.tables \subseteq b.tables /\ a.wide \subseteq b.wide
         /\ \A k \in b.keys : \/ k \in a.keys
                              \/ s.do = "create" /\ k[1] = s.table
                              \/ s.do = "unique" /\ k = <<s.table, s.columns>>
<1>1. s.do \in Adding \union Taking
  BY DEF UpStatement, Adding, Taking
<1>2. CASE s.do = "create"
  <2>1. Fields(b, a.tables \union {s.table}, a.links \union S!LinksOf(s), a.keys \union S!KeysOf(s),
               a.columns, a.isolated, a.privileges, a.role, a.wide)
    BY <1>1, <1>2, AppliedFields, Zenon
  <2>2. QED
    BY <1>2, <2>1 DEF Fields, S!KeysOf
<1>3. CASE s.do = "add"
  <2>1. Fields(b, a.tables, a.links, a.keys, a.columns \union {<<s.table, s.column>>}, a.isolated,
               a.privileges, a.role, a.wide)
    BY <1>1, <1>3, AppliedFields, Zenon
  <2>2. QED
    BY <1>3, <2>1 DEF Fields
<1>4. CASE s.do = "unique"
  <2>1. Fields(b, a.tables, a.links, a.keys \union {<<s.table, s.columns>>}, a.columns, a.isolated,
               a.privileges, a.role, a.wide)
    BY <1>1, <1>4, AppliedFields, Zenon
  <2>2. QED
    BY <1>4, <2>1 DEF Fields
<1>5. CASE s.do = "ununique"
  <2>1. Fields(b, a.tables, a.links, a.keys \ {<<s.table, s.columns>>}, a.columns, a.isolated,
               a.privileges, a.role, a.wide)
    BY <1>1, <1>5, AppliedFields, Zenon
  <2>2. QED
    BY <1>5, <2>1 DEF Fields
<1>6. CASE s.do = "refer"
  <2>1. Fields(b, a.tables, a.links \union {s.link}, a.keys, a.columns, a.isolated, a.privileges,
            a.role, a.wide)
    BY <1>1, <1>6, AppliedFields, Zenon
  <2>2. QED
    BY <1>6, <2>1 DEF Fields
<1>7. CASE s.do = "isolate"
  <2>1. Fields(b, a.tables, a.links, a.keys, a.columns, a.isolated \union {s.table},
               a.privileges \union ({s.table} \X S!Everything), a.role, a.wide)
    BY <1>1, <1>7, AppliedFields, Zenon
  <2>2. QED
    BY <1>7, <2>1 DEF Fields
<1>8. CASE s.do = "grant"
  <2>1. Fields(b, a.tables, a.links, a.keys, a.columns, a.isolated,
               a.privileges \union ({s.table} \X s.what), a.role, a.wide)
    BY <1>1, <1>8, AppliedFields, Zenon
  <2>2. QED
    BY <1>8, <2>1 DEF Fields
<1>9. CASE s.do = "revoke"
  <2>1. Fields(b, a.tables, a.links, a.keys, a.columns, a.isolated,
               a.privileges \ ({s.table} \X s.what), a.role, a.wide)
    BY <1>1, <1>9, AppliedFields, Zenon
  <2>2. QED
    BY <1>9, <2>1 DEF Fields
<1>10. CASE s.do = "role"
  <2>1. Fields(b, a.tables, a.links, a.keys, a.columns, a.isolated, a.privileges, TRUE, a.wide)
    BY <1>1, <1>10, AppliedFields, Zenon
  <2>2. QED
    BY <1>10, <2>1 DEF Fields
<1>11. CASE s.do = "widen"
  <2>1. Fields(b, a.tables, a.links, a.keys, a.columns, a.isolated, a.privileges, a.role,
               a.wide \union {<<s.table, s.column>>})
    BY <1>1, <1>11, AppliedFields, Zenon
  <2>2. QED
    BY <1>11, <2>1 DEF Fields
<1>12. QED
  BY <1>2, <1>3, <1>4, <1>5, <1>6, <1>7, <1>8, <1>9, <1>10, <1>11 DEF UpStatement

\* What a downgrade's statement leaves alone: there are no new tables and links.
LEMMA DownLeaves ==
  ASSUME NEW a, NEW s, IsSchema(a), DownStatement(s), NEW b, b = S!Applied(a, s)
  PROVE  b.links \subseteq a.links /\ b.tables \subseteq a.tables
<1>1. s.do \in Adding \union Taking
  BY DEF DownStatement, Adding, Taking
<1>2. CASE s.do = "drop"
  <2>1. Fields(b, a.tables \ {s.table}, {l \in a.links : l[1] # s.table},
               {k \in a.keys : k[1] # s.table}, {x \in a.columns : x[1] # s.table},
               a.isolated \ {s.table}, {p \in a.privileges : p[1] # s.table}, a.role,
               {x \in a.wide : x[1] # s.table})
    BY <1>1, <1>2, AppliedFields, Zenon
  <2>2. QED
    BY <2>1 DEF Fields
<1>3. CASE s.do = "remove"
  <2>1. Fields(b, a.tables, {l \in a.links : <<l[1], l[2]>> # <<s.table, s.column>>}, a.keys,
               a.columns \ {<<s.table, s.column>>}, a.isolated, a.privileges, a.role, a.wide)
    BY <1>1, <1>3, AppliedFields, Zenon
  <2>2. QED
    BY <2>1 DEF Fields
<1>4. CASE s.do = "unique"
  <2>1. Fields(b, a.tables, a.links, a.keys \union {<<s.table, s.columns>>}, a.columns, a.isolated,
               a.privileges, a.role, a.wide)
    BY <1>1, <1>4, AppliedFields, Zenon
  <2>2. QED
    BY <2>1 DEF Fields
<1>5. CASE s.do = "ununique"
  <2>1. Fields(b, a.tables, a.links, a.keys \ {<<s.table, s.columns>>}, a.columns, a.isolated,
               a.privileges, a.role, a.wide)
    BY <1>1, <1>5, AppliedFields, Zenon
  <2>2. QED
    BY <2>1 DEF Fields
<1>6. CASE s.do = "unrefer"
  <2>1. Fields(b, a.tables, a.links \ {s.link}, a.keys, a.columns, a.isolated, a.privileges,
               a.role, a.wide)
    BY <1>1, <1>6, AppliedFields, Zenon
  <2>2. QED
    BY <2>1 DEF Fields
<1>7. CASE s.do = "droprole"
  <2>1. Fields(b, a.tables, a.links, a.keys, a.columns, a.isolated, a.privileges, FALSE, a.wide)
    BY <1>1, <1>7, AppliedFields, Zenon
  <2>2. QED
    BY <2>1 DEF Fields
<1>8. CASE s.do = "narrow"
  <2>1. Fields(b, a.tables, a.links, a.keys, a.columns, a.isolated, a.privileges, a.role,
               a.wide \ {<<s.table, s.column>>})
    BY <1>1, <1>8, AppliedFields, Zenon
  <2>2. QED
    BY <2>1 DEF Fields
<1>9. QED
  BY <1>2, <1>3, <1>4, <1>5, <1>6, <1>7, <1>8 DEF DownStatement

\* Where the facts about rows live, and when they are permitted.
LEMMA PermittedWhen ==
  /\ S!Facts = {"shared_key", "long_cursor", "foreign_link"}
  /\ \A a : S!Permitted(a, "shared_key") <=> "draft_actions" \in a.tables /\ GlobalKey \notin a.keys
  /\ \A a : S!Permitted(a, "long_cursor") <=> /\ "connector_cursors" \in a.tables
                                              /\ <<"connector_cursors", "cursor">> \in a.wide
  /\ \A a : S!Permitted(a, "foreign_link") <=> /\ "bulk_approval_items" \in a.tables
                                               /\ S!ItemLink \notin a.links
  /\ S!Home("shared_key") = "draft_actions" /\ S!Home("long_cursor") = "connector_cursors"
  /\ S!Home("foreign_link") = "bulk_approval_items"
<1>1. /\ S!Home("shared_key") = "draft_actions" /\ S!Home("long_cursor") = "connector_cursors"
      /\ S!Home("foreign_link") = "bulk_approval_items"
  BY DEF S!Home
<1>2. \A a : S!Permitted(a, "shared_key") <=> "draft_actions" \in a.tables /\ GlobalKey \notin a.keys
  BY <1>1 DEF S!Permitted, GlobalKey
<1>3. \A a : S!Permitted(a, "long_cursor") <=> /\ "connector_cursors" \in a.tables
                                              /\ <<"connector_cursors", "cursor">> \in a.wide
  BY <1>1 DEF S!Permitted
<1>4. \A a : S!Permitted(a, "foreign_link") <=> /\ "bulk_approval_items" \in a.tables
                                               /\ S!ItemLink \notin a.links
  BY <1>1 DEF S!Permitted
<1>5. QED
  BY <1>1, <1>2, <1>3, <1>4 DEF S!Facts

\* No upgrade disturbs a key that tenants share, or a long cursor.
LEMMA UpKeeps ==
  ASSUME NEW a, NEW s, IsSchema(a), UpStatement(s), S!Applicable(a, s),
         NEW f \in {"shared_key", "long_cursor"}, S!Permitted(a, f)
  PROVE  S!Permitted(S!Applied(a, s), f)
<1>1. PICK b : b = S!Applied(a, s)
  OBVIOUS
<1>2. /\ a.tables \subseteq b.tables /\ a.wide \subseteq b.wide
      /\ \A k \in b.keys : \/ k \in a.keys
                           \/ s.do = "create" /\ k[1] = s.table
                           \/ s.do = "unique" /\ k = <<s.table, s.columns>>
  BY <1>1, UpLeaves
<1>3. CASE f = "long_cursor"
  BY <1>1, <1>2, <1>3, PermittedWhen
<1>4. CASE f = "shared_key"
  <2>1. "draft_actions" \in a.tables /\ GlobalKey \notin a.keys
    BY <1>4, PermittedWhen
  <2>2. s.do = "create" => s.table # "draft_actions"
    BY <2>1 DEF S!Applicable
  <2>3. s.do = "unique" => GlobalKey # <<s.table, s.columns>>
    BY DEF UpStatement, GlobalKey
  <2>4. GlobalKey \notin b.keys
    BY <1>2, <2>1, <2>2, <2>3 DEF GlobalKey
  <2>5. QED
    BY <1>1, <1>2, <1>4, <2>1, <2>4, PermittedWhen
<1>5. QED
  BY <1>3, <1>4

\* No downgrade disturbs a link between tenants.
LEMMA DownKeeps ==
  ASSUME NEW a, NEW s, IsSchema(a), DownStatement(s), S!Permitted(a, "foreign_link"),
         S!Home("foreign_link") \in S!Applied(a, s).tables
  PROVE  S!Permitted(S!Applied(a, s), "foreign_link")
<1>1. PICK b : b = S!Applied(a, s)
  OBVIOUS
<1>2. b.links \subseteq a.links
  BY <1>1, DownLeaves
<1>3. QED
  BY <1>1, <1>2, PermittedWhen

\* Dropping a table disturbs no row elsewhere.
LEMMA DropKeeps ==
  ASSUME NEW a, NEW s, IsSchema(a), s.do = "drop", NEW f \in S!Facts, S!Permitted(a, f),
         S!Home(f) \in S!Applied(a, s).tables
  PROVE  S!Permitted(S!Applied(a, s), f)
<1>1. PICK b : b = S!Applied(a, s)
  OBVIOUS
<1>2. b.links \subseteq a.links /\ b.keys \subseteq a.keys
  BY <1>1, DropFields DEF OneLess, Fields
<1>3. b.tables = a.tables \ {s.table} /\ b.wide = {x \in a.wide : x[1] # s.table}
  <2>1. OneLess(b, a, s.table)
    BY <1>1, DropFields, Zenon
  <2>2. QED
    BY <2>1 DEF OneLess, Fields
<1>4. CASE f = "shared_key"
  BY <1>1, <1>2, <1>3, <1>4, PermittedWhen
<1>5. CASE f = "foreign_link"
  BY <1>1, <1>2, <1>3, <1>5, PermittedWhen
<1>6. CASE f = "long_cursor"
  BY <1>1, <1>2, <1>3, <1>6, PermittedWhen
<1>7. QED
  BY <1>4, <1>5, <1>6, PermittedWhen

-----------------------------------------------------------------------------
(* The schemas on the way of a command are in order.                       *)

\* A schema whose links and rights are of tables that exist.
InOrder(s) == IsSchema(s) /\ S!SchemaOK(s)

\* A statement of the kind that the way uses.
Kind(way, s) == (way = "up" /\ UpStatement(s)) \/ (way = "down" /\ DownStatement(s))

\* Statements that apply one after the other keep a schema in order.
LEMMA WalkOrder ==
  ASSUME NEW base, NEW script, Walk(base, script), InOrder(base),
         \A k \in 1..Len(script) : UpStatement(script[k]) \/ DownStatement(script[k])
  PROVE  \A k \in 0..Len(script) : InOrder(Course(base, script)[k])
<1>1. PICK d, n : d = Course(base, script) /\ n = Len(script)
  OBVIOUS
<1>2. /\ n \in Nat /\ d[0] = base
      /\ \A k \in 1..n : d[k] = S!Applied(d[k - 1], script[k]) /\ S!Applicable(d[k - 1], script[k])
  BY <1>1 DEF Walk
<1> DEFINE good == {k \in 0..n : InOrder(d[k])}
<1>3. 0 \in good
  BY <1>2
<1>4. \A k \in 1..n : k - 1 \in good => k \in good
  <2> SUFFICES ASSUME NEW k \in 1..n, k - 1 \in good PROVE k \in good
    OBVIOUS
  <2>1. PICK a, s : a = d[k - 1] /\ s = script[k]
    OBVIOUS
  <2>2. InOrder(a) /\ S!Applicable(a, s) /\ (UpStatement(s) \/ DownStatement(s)) /\ d[k] = S!Applied(a, s)
    BY <1>1, <1>2, <2>1
  <2>3. InOrder(S!Applied(a, s))
    BY <2>2, OrderKept, Zenon DEF InOrder
  <2>4. QED
    BY <1>2, <2>2, <2>3
<1>5. 0..n \subseteq good
  <2> HIDE DEF good
  <2>1. QED
    BY <1>2, <1>3, <1>4, CountUp
<1>6. QED
  BY <1>1, <1>5

\* The way of a command has statements of its kind only.
LEMMA Kinds ==
  ASSUME NEW way, NEW r, Ahead(way, r)
  PROVE  \A k \in 1..Len(ScriptFor(way, r)) : Kind(way, ScriptFor(way, r)[k])
<1>1. PICK script : script = ScriptFor(way, r)
  OBVIOUS
<1>2. CASE way = "up"
  <2>1. r + 1 \in 1..12
    <3>1. r \in 0..11
      BY <1>2 DEF Ahead
    <3>2. QED
      BY <3>1
  <2>2. PICK o : o = r + 1
    OBVIOUS
  <2>3. script = S!Upgrades[o]
    BY <1>1, <1>2, <2>2, Zenon DEF ScriptFor
  <2>4. PICK n \in Nat : AllUp(script, n)
    BY <2>1, <2>2, <2>3, UpStatements
  <2>5. QED
    BY <1>1, <1>2, <2>4 DEF AllUp, IsList, Kind
<1>3. CASE way = "down"
  <2>1. r \in 1..12 /\ "down" # "up"
    BY <1>3 DEF Ahead
  <2>2. script = S!Downgrades[r]
    BY <1>1, <1>3, <2>1, Zenon DEF ScriptFor
  <2>3. PICK n \in Nat : AllDown(script, n)
    BY <2>1, <2>2, DownStatements
  <2>4. QED
    BY <1>1, <1>3, <2>3 DEF AllDown, IsList, Kind
<1>4. way = "up" \/ way = "down"
  BY DEF Ahead
<1>5. QED
  BY <1>2, <1>3, <1>4

\* The schema of every revision is in order.
LEMMA RevisionsInOrder == \A r \in 0..12 : InOrder(S!SchemaOf[r])
<1> DEFINE good == {r \in 0..12 : InOrder(S!SchemaOf[r])}
<1>1. 0 \in good
  BY SchemaSteps DEF InOrder, IsSchema, S!SchemaOK, S!NoSchema
<1>2. ASSUME NEW r \in 1..12, r - 1 \in good PROVE r \in good
  <2>1. PICK o, script, way : o = r - 1 /\ way = "up" /\ script = ScriptFor(way, o)
    OBVIOUS
  <2>2. Ahead(way, o) /\ NextFor(way, o) = r
    BY <2>1 DEF Ahead, NextFor
  <2>3. PICK base : base = S!SchemaOf[o]
    OBVIOUS
  <2>4. Walk(base, script) /\ Course(base, script)[Len(script)] = S!SchemaOf[r]
    BY <2>1, <2>2, <2>3, Paths DEF Path
  <2>5. \A k \in 1..Len(script) : UpStatement(script[k]) \/ DownStatement(script[k])
    BY <2>1, <2>2, Kinds DEF Kind
  <2>6. InOrder(base)
    BY <1>2, <2>1, <2>3
  <2>7. \A k \in 0..Len(script) : InOrder(Course(base, script)[k])
    BY <2>4, <2>5, <2>6, WalkOrder, Zenon
  <2>8. Len(script) \in 0..Len(script)
    BY <2>4 DEF Walk
  <2>9. QED
    BY <2>4, <2>7, <2>8
<1>3. 0..12 \subseteq good
  <2>1. (\A r \in 1..12 : r - 1 \in good => r \in good) /\ 12 \in Nat
    BY <1>2
  <2> HIDE DEF good
  <2>2. QED
    BY <1>1, <2>1, CountUp
<1>4. QED
  BY <1>3

\* What the script of a command does, statement by statement.
Track(way, r, n) ==
  /\ n \in Nat \ {0} /\ n = Len(ScriptFor(way, r)) /\ DOMAIN ScriptFor(way, r) = 1..n
  /\ Path(way, r)[0] = S!SchemaOf[r] /\ Path(way, r)[n] = S!SchemaOf[NextFor(way, r)]
  /\ \A k \in 0..n : InOrder(Path(way, r)[k])
  /\ \A k \in 1..n : /\ Path(way, r)[k] = S!Applied(Path(way, r)[k - 1], ScriptFor(way, r)[k])
                     /\ S!Applicable(Path(way, r)[k - 1], ScriptFor(way, r)[k])
                     /\ Kind(way, ScriptFor(way, r)[k])

\* Every way of a command has a track.
LEMMA Tracks ==
  ASSUME NEW way, NEW r, Ahead(way, r)
  PROVE  \E n : Track(way, r, n)
<1>1. PICK base, script, n, d : /\ base = S!SchemaOf[r] /\ script = ScriptFor(way, r) /\ n = Len(script)
                                /\ d = Path(way, r)
  OBVIOUS
<1>2. Walk(base, script) /\ d = Course(base, script) /\ d[n] = S!SchemaOf[NextFor(way, r)]
  BY <1>1, Paths DEF Path
<1>3. \A k \in 1..n : Kind(way, script[k])
  BY <1>1, Kinds
<1>4. InOrder(base)
  <2>1. r \in 0..12
    BY DEF Ahead
  <2>2. QED
    BY <1>1, <2>1, RevisionsInOrder
<1>5. \A k \in 0..n : InOrder(d[k])
  <2>1. \A k \in 1..Len(script) : UpStatement(script[k]) \/ DownStatement(script[k])
    BY <1>1, <1>3 DEF Kind
  <2>2. QED
    BY <1>1, <1>2, <1>4, <2>1, WalkOrder, Zenon
<1>6. /\ n \in Nat \ {0} /\ DOMAIN script = 1..n /\ d[0] = base
      /\ \A k \in 1..n : d[k] = S!Applied(d[k - 1], script[k]) /\ S!Applicable(d[k - 1], script[k])
  BY <1>1, <1>2 DEF Walk
<1>7. Track(way, r, n)
  BY <1>1, <1>2, <1>3, <1>5, <1>6 DEF Track
<1>8. QED
  BY <1>7

-----------------------------------------------------------------------------
(* Migrations.                                                             *)

\* The rows of the tables that are there have a place in the schema.
RowsFit(schema) == \A f \in data : S!Home(f) \in schema.tables => S!Permitted(schema, f)

\* The tables of all rows are there.
RowsHoused(schema) == \A f \in data : S!Home(f) \in schema.tables

\* A command is on its way from the committed revision to its target, between two statements
\* of a script or between two scripts, and the schema it has made so far is the one due there.
CommandInv ==
  /\ run = [way |-> run.way, target |-> run.target, at |-> run.at, step |-> run.step, schema |-> run.schema]
  /\ run.way \in {"up", "down"} /\ run.at \in 0..12 /\ run.target \in 0..12
  /\ (run.at # run.target => /\ Ahead(run.way, run.at)
                             /\ run.step \in 1..Len(ScriptFor(run.way, run.at))
                             /\ run.schema = Path(run.way, run.at)[run.step - 1])
  /\ (run.at = run.target => run.schema = S!SchemaOf[run.at])
  /\ (run.way = "up" => run.at <= run.target)
  /\ (run.way = "down" => run.at >= run.target)
  /\ RowsFit(run.schema)
  /\ (run.way = "up" => RowsHoused(run.schema))

\* The committed schema is that of the revision, and permits the rows there are.
MigrationsInv ==
  /\ revision \in 0..12 /\ db = S!SchemaOf[revision] /\ data \subseteq S!Facts
  /\ \A f \in data : S!Permitted(db, f)
  /\ run # S!Idle => CommandInv

\* A command that has not arrived goes on with the script for its revision.
LEMMA OnTheWay ==
  ASSUME CommandInv, run.at # run.target
  PROVE  /\ S!Script = ScriptFor(run.way, run.at)
         /\ \E n : Track(run.way, run.at, n) /\ run.step \in 1..n
<1>1. Ahead(run.way, run.at) /\ run.step \in 1..Len(ScriptFor(run.way, run.at))
  BY DEF CommandInv
<1>2. PICK n : Track(run.way, run.at, n)
  BY <1>1, Tracks
<1>3. n = Len(ScriptFor(run.way, run.at))
  BY <1>2 DEF Track
<1>4. S!Script = ScriptFor(run.way, run.at)
  BY DEF S!Script, ScriptFor
<1>5. QED
  BY <1>1, <1>2, <1>3, <1>4

\* The start of a command preserves the invariant.
LEMMA StartStep ==
  ASSUME MigrationsInv, NEW target \in Targets, S!Start(target)
  PROVE  MigrationsInv'
<1>1. /\ target # revision /\ target \in 0..12 /\ revision \in 0..12
      /\ db' = db /\ revision' = revision /\ data' = data
      /\ run' = [way |-> IF target > revision THEN "up" ELSE "down", target |-> target,
                 at |-> revision, step |-> 1, schema |-> db]
  BY MigrationsAssumption, TwelveRevisions DEF MigrationsInv, S!Start
<1>2. PICK way, o, g : way = run'.way /\ o = revision /\ g = target
  OBVIOUS
<1>3. /\ run'.way = way /\ run'.target = g /\ run'.at = o /\ run'.step = 1 /\ run'.schema = db
      /\ run' = [way |-> way, target |-> g, at |-> o, step |-> 1, schema |-> db]
  BY <1>1, <1>2
<1>4. /\ (way = "up" /\ o < g) \/ (way = "down" /\ o > g)
      /\ o # g /\ o \in 0..12 /\ g \in 0..12
  BY <1>1, <1>2
<1>5. Ahead(way, o)
  BY <1>4 DEF Ahead
<1>6. PICK n : Track(way, o, n)
  BY <1>5, Tracks
<1>7. 1 \in 1..n /\ n = Len(ScriptFor(way, o)) /\ Path(way, o)[0] = S!SchemaOf[o]
  BY <1>6 DEF Track
<1>8. db = S!SchemaOf[o] /\ (\A f \in data : S!Permitted(db, f))
  BY <1>2 DEF MigrationsInv
<1>9. CommandInv'
  <2>1. RowsFit(run.schema)' /\ RowsHoused(run.schema)'
    BY <1>1, <1>3, <1>8 DEF RowsFit, RowsHoused, S!Permitted
  <2>2. run'.schema = Path(run'.way, run'.at)[run'.step - 1]
    BY <1>3, <1>7, <1>8
  <2>3. run'.step \in 1..Len(ScriptFor(run'.way, run'.at)) /\ Ahead(run'.way, run'.at)
    BY <1>3, <1>5, <1>7
  <2>4. /\ run'.way \in {"up", "down"} /\ run'.at \in 0..12 /\ run'.target \in 0..12
        /\ run'.at # run'.target
        /\ (run'.way = "up" => run'.at <= run'.target) /\ (run'.way = "down" => run'.at >= run'.target)
    BY <1>3, <1>4
  <2>5. run' = [way |-> run'.way, target |-> run'.target, at |-> run'.at, step |-> run'.step,
            schema |-> run'.schema]
    BY <1>3
  <2>6. QED
    BY <2>1, <2>2, <2>3, <2>4, <2>5 DEF CommandInv
<1>10. QED
  BY <1>1, <1>8, <1>9 DEF MigrationsInv

\* A statement of a command, or its failure, preserves the invariant.
LEMMA ExecuteStep ==
  ASSUME MigrationsInv, S!Execute
  PROVE  MigrationsInv'
<1>1. /\ run # S!Idle /\ run.at # run.target /\ CommandInv
  BY DEF S!Execute, S!Running, MigrationsInv
<1>2. PICK way, o, g, k, a : way = run.way /\ o = run.at /\ g = run.target /\ k = run.step /\ a = run.schema
  OBVIOUS
<1>3. /\ run = [way |-> way, target |-> g, at |-> o, step |-> k, schema |-> a]
      /\ Ahead(way, o) /\ a = Path(way, o)[k - 1] /\ o \in 0..12 /\ g \in 0..12 /\ o # g
      /\ (way = "up" => o <= g) /\ (way = "down" => o >= g) /\ way \in {"up", "down"}
  BY <1>1, <1>2 DEF CommandInv
<1>4. PICK script, n : script = ScriptFor(way, o) /\ Track(way, o, n) /\ k \in 1..n /\ S!Script = script
  BY <1>1, <1>2, OnTheWay
<1>5. PICK s, b : s = script[k] /\ b = S!Applied(a, s)
  OBVIOUS
<1>6. /\ InOrder(a) /\ b = Path(way, o)[k] /\ Kind(way, s) /\ n = Len(script) /\ n \in Nat \ {0}
      /\ Path(way, o)[n] = S!SchemaOf[NextFor(way, o)]
  <2>1. k - 1 \in 0..n
    <3>1. n \in Nat /\ k \in 1..n
      BY <1>4 DEF Track
    <3>2. QED
      BY <3>1
  <2>2. QED
    BY <1>3, <1>4, <1>5, <2>1 DEF Track
<1>7. S!Statement = s
  BY <1>2, <1>4, <1>5 DEF S!Statement
<1>8. /\ db' = db /\ revision' = revision /\ data' = data
      /\ run' = [way |-> way, target |-> g, at |-> IF k = n THEN NextFor(way, o) ELSE o,
                 step |-> IF k = n THEN 1 ELSE k + 1, schema |-> b]
  <2>1. PICK next : next = IF run.way = "up" THEN run.at + 1 ELSE run.at - 1
    OBVIOUS
  <2>2. next = NextFor(way, o)
    BY <1>2, <2>1 DEF NextFor
  <2>3. run' = [run EXCEPT !.schema = b, !.step = IF k = n THEN 1 ELSE k + 1,
            !.at = IF k = n THEN next ELSE o]
    BY <1>2, <1>4, <1>5, <1>6, <1>7, <2>1 DEF S!Execute
  <2>4. QED
    BY <1>3, <2>2, <2>3 DEF S!Execute
<1>9. RowsFit(b)
  <2>1. SUFFICES ASSUME NEW f \in data, S!Home(f) \in b.tables PROVE S!Permitted(b, f)
    BY DEF RowsFit
  <2>2. S!Home(f) \in a.tables => S!Permitted(a, f)
    BY <1>1, <1>2 DEF CommandInv, RowsFit
  <2>3. S!Home(f) \in a.tables => S!Permitted(b, f) \/ s.do = "drop"
    BY <1>2, <1>5, <1>7 DEF S!Execute, S!Accepted
  <2>4. f \in S!Facts
    BY DEF MigrationsInv
  <2>5. CASE S!Home(f) \in a.tables
    BY <1>5, <1>6, <2>1, <2>2, <2>3, <2>4, <2>5, DropKeeps DEF InOrder
  <2>6. S!Home(f) \in a.tables
    <3>1. CASE way = "up"
      BY <1>1, <1>2, <3>1 DEF CommandInv, RowsHoused
    <3>2. CASE way = "down"
      <4>1. DownStatement(s)
        BY <1>6, <3>2 DEF Kind
      <4>2. QED
        BY <1>5, <1>6, <2>1, <4>1, DownLeaves DEF InOrder
    <3>3. QED
      BY <1>3, <3>1, <3>2
  <2>7. QED
    BY <2>5, <2>6
<1>10. way = "up" => RowsHoused(b)
  <2>1. SUFFICES ASSUME way = "up" PROVE RowsHoused(b)
    OBVIOUS
  <2>2. UpStatement(s)
    BY <1>6, <2>1 DEF Kind
  <2>3. a.tables \subseteq b.tables
    BY <1>5, <1>6, <2>2, UpLeaves DEF InOrder
  <2>4. RowsHoused(a)
    BY <1>1, <1>2, <2>1 DEF CommandInv
  <2>5. QED
    BY <2>3, <2>4 DEF RowsHoused
<1>11. RowsFit(run.schema)' /\ (run.way = "up" => RowsHoused(run.schema))'
  BY <1>8, <1>9, <1>10 DEF RowsFit, RowsHoused
<1>12. CommandInv'
  <2>1. CASE k # n
    <3>1. /\ run' = [way |-> way, target |-> g, at |-> o, step |-> k + 1, schema |-> b]
          /\ run'.way = way /\ run'.target = g /\ run'.at = o /\ run'.step = k + 1 /\ run'.schema = b
      BY <1>8, <2>1
    <3>2. k + 1 \in 1..n /\ k + 1 - 1 = k
      <4>1. n \in Nat /\ k \in 1..n
        BY <1>4, <1>6
      <4>2. QED
        BY <2>1, <4>1
    <3>3. run'.schema = Path(way, o)[run'.step - 1]
      <4>1. run'.step - 1 = k
        <5>1. k \in Nat
          BY <1>4, <1>6
        <5>2. QED
          BY <3>1, <5>1
      <4>2. run'.schema = Path(way, o)[k]
        BY <1>6, <3>1
      <4>3. QED
        BY <4>1, <4>2
    <3>4. run'.step \in 1..Len(ScriptFor(way, o))
      BY <1>4, <1>6, <3>1, <3>2
    <3>5. QED
      BY <1>3, <1>11, <3>1, <3>3, <3>4 DEF CommandInv
  <2>2. CASE k = n
    <3>1. PICK next : next = NextFor(way, o)
      OBVIOUS
    <3>2. /\ run' = [way |-> way, target |-> g, at |-> next, step |-> 1, schema |-> b]
          /\ run'.way = way /\ run'.target = g /\ run'.at = next /\ run'.step = 1 /\ run'.schema = b
      BY <1>8, <2>2, <3>1
    <3>3. /\ next \in 0..12 /\ (way = "up" => next <= g) /\ (way = "down" => next >= g)
          /\ (next # g => Ahead(way, next))
      <4>1. CASE way = "up"
        BY <1>3, <3>1, <4>1 DEF NextFor, Ahead
      <4>2. CASE way = "down"
        BY <1>3, <3>1, <4>2 DEF NextFor, Ahead
      <4>3. QED
        BY <1>3, <4>1, <4>2
    <3>4. b = S!SchemaOf[next]
      BY <1>6, <2>2, <3>1
    <3>5. next # g => 1 \in 1..Len(ScriptFor(way, next)) /\ b = Path(way, next)[0]
      <4>1. SUFFICES ASSUME next # g PROVE 1 \in 1..Len(ScriptFor(way, next)) /\ b = Path(way, next)[0]
        OBVIOUS
      <4>2. PICK m : Track(way, next, m)
        BY <3>3, <4>1, Tracks
      <4>3. QED
        BY <3>4, <4>2 DEF Track
    <3>6. 1 - 1 = 0
      OBVIOUS
    <3>7. QED
      BY <1>3, <1>11, <3>2, <3>3, <3>4, <3>5, <3>6 DEF CommandInv
  <2>3. QED
    BY <2>1, <2>2
<1>13. QED
  BY <1>8, <1>12 DEF MigrationsInv

\* The commit of a command preserves the invariant.
LEMMA FinishStep ==
  ASSUME MigrationsInv, S!Finish
  PROVE  MigrationsInv'
<1>1. run # S!Idle /\ run.at = run.target /\ CommandInv
  BY DEF S!Finish, MigrationsInv
<1>2. /\ db' = run.schema /\ revision' = run.target /\ run' = S!Idle
      /\ data' = {f \in data : S!Home(f) \in run.schema.tables}
  BY DEF S!Finish
<1>3. run.schema = S!SchemaOf[run.target] /\ run.target \in 0..12 /\ RowsFit(run.schema)
  BY <1>1 DEF CommandInv
<1>4. \A f \in data' : S!Permitted(db', f)
  BY <1>2, <1>3 DEF RowsFit
<1>5. data' \subseteq S!Facts
  BY <1>2 DEF MigrationsInv
<1>6. (\A f \in data : S!Permitted(db, f))'
  BY <1>4
<1>7. QED
  BY <1>2, <1>3, <1>5, <1>6 DEF MigrationsInv

\* A row that the application writes preserves the invariant.
LEMMA InsertStep ==
  ASSUME MigrationsInv, NEW f \in Data, S!Insert(f)
  PROVE  MigrationsInv'
<1>1. /\ data' = data \union {f} /\ db' = db /\ revision' = revision /\ run' = run /\ run = S!Idle
      /\ S!Permitted(db, f) /\ f \in S!Facts
  BY MigrationsAssumption DEF S!Insert
<1>2. (\A e \in data : S!Permitted(db, e))'
  BY <1>1 DEF MigrationsInv
<1>3. QED
  BY <1>1, <1>2 DEF MigrationsInv

\* Every step of the migrations preserves the invariant.
LEMMA MigrationsStep ==
  ASSUME MigrationsInv, [S!Next]_(S!vars)
  PROVE  MigrationsInv'
<1>1. CASE UNCHANGED S!vars
  BY <1>1 DEF S!vars, MigrationsInv, CommandInv, RowsFit, RowsHoused
<1>2. CASE \E f \in Data : S!Insert(f)
  BY <1>2, InsertStep
<1>3. CASE \E target \in Targets : S!Start(target)
  BY <1>3, StartStep
<1>4. CASE S!Execute
  BY <1>4, ExecuteStep
<1>5. CASE S!Refuse \/ S!Crash
  <2>1. run' = S!Idle /\ db' = db /\ revision' = revision /\ data' = data
    BY <1>5 DEF S!Refuse, S!Crash
  <2>2. QED
    BY <2>1 DEF MigrationsInv
<1>6. CASE S!Finish
  BY <1>6, FinishStep
<1>7. QED
  BY <1>1, <1>2, <1>3, <1>4, <1>5, <1>6 DEF S!Next

\* Only a removal of a table takes one away.
LEMMA DownTables ==
  ASSUME NEW a, NEW s, IsSchema(a), DownStatement(s), s.do # "drop"
  PROVE  S!Applied(a, s).tables = a.tables
<1>1. PICK b : b = S!Applied(a, s)
  OBVIOUS
<1>2. s.do \in Adding \union Taking
  BY DEF DownStatement, Adding, Taking
<1>3. s.do \in {"remove", "unique", "ununique", "unrefer", "droprole", "narrow"}
  BY DEF DownStatement
<1>4. CASE s.do = "remove"
  <2>1. Fields(b, a.tables, {l \in a.links : <<l[1], l[2]>> # <<s.table, s.column>>}, a.keys,
               a.columns \ {<<s.table, s.column>>}, a.isolated, a.privileges, a.role, a.wide)
    BY <1>1, <1>2, <1>4, AppliedFields, Zenon
  <2>2. QED
    BY <1>1, <2>1 DEF Fields
<1>5. CASE s.do = "unique"
  <2>1. Fields(b, a.tables, a.links, a.keys \union {<<s.table, s.columns>>}, a.columns, a.isolated,
               a.privileges, a.role, a.wide)
    BY <1>1, <1>2, <1>5, AppliedFields, Zenon
  <2>2. QED
    BY <1>1, <2>1 DEF Fields
<1>6. CASE s.do = "ununique"
  <2>1. Fields(b, a.tables, a.links, a.keys \ {<<s.table, s.columns>>}, a.columns, a.isolated,
               a.privileges, a.role, a.wide)
    BY <1>1, <1>2, <1>6, AppliedFields, Zenon
  <2>2. QED
    BY <1>1, <2>1 DEF Fields
<1>7. CASE s.do = "unrefer"
  <2>1. Fields(b, a.tables, a.links \ {s.link}, a.keys, a.columns, a.isolated, a.privileges,
               a.role, a.wide)
    BY <1>1, <1>2, <1>7, AppliedFields, Zenon
  <2>2. QED
    BY <1>1, <2>1 DEF Fields
<1>8. CASE s.do = "droprole"
  <2>1. Fields(b, a.tables, a.links, a.keys, a.columns, a.isolated, a.privileges, FALSE, a.wide)
    BY <1>1, <1>2, <1>8, AppliedFields, Zenon
  <2>2. QED
    BY <1>1, <2>1 DEF Fields
<1>9. CASE s.do = "narrow"
  <2>1. Fields(b, a.tables, a.links, a.keys, a.columns, a.isolated, a.privileges, a.role,
               a.wide \ {<<s.table, s.column>>})
    BY <1>1, <1>2, <1>9, AppliedFields, Zenon
  <2>2. QED
    BY <1>1, <2>1 DEF Fields
<1>10. QED
  BY <1>3, <1>4, <1>5, <1>6, <1>7, <1>8, <1>9

\* The invariant of the migrations.
LEMMA MigrationsAlways == Spec => [](focus = "migrations" => MigrationsInv)
<1> DEFINE Held == focus = "migrations" => MigrationsInv
<1>1. Init => Held
  <2> SUFFICES ASSUME Init, focus = "migrations" PROVE MigrationsInv
    OBVIOUS
  <2>1. db = S!NoSchema /\ revision = 0 /\ data = {} /\ run = S!Idle
    BY DEF Init, InitMigrations, S!Init
  <2>2. QED
    BY <2>1, SchemaSteps DEF MigrationsInv
<1>2. Held /\ [Next]_vars => Held'
  BY OneComponent, MigrationsStep
<1>3. QED
  BY <1>1, <1>2, PTL DEF Spec

\* The committed schema is the one that the upgrades up to the revision build, whatever
\* upgrades, downgrades, refusals and crashes led to it (the twelve scripts of
\* migrations/versions).
THEOREM SchemaIsOfRevision == Spec => []SchemaFollowsRevision
<1> DEFINE Held == focus = "migrations" => MigrationsInv
<1>1. Held => SchemaFollowsRevision
  BY DEF MigrationsInv, SchemaFollowsRevision, S!SchemaFollowsRevision
<1>2. QED
  BY <1>1, MigrationsAlways, PTL

\* Every schema, committed or under way, is in order, and a command is between two of the
\* statements of its script.
THEOREM MigrationsTyped == Spec => []TypeOK
<1> DEFINE Held == focus = "migrations" => MigrationsInv
<1>1. Held => TypeOK
  <2> SUFFICES ASSUME MigrationsInv PROVE S!TypeOK
    BY DEF TypeOK
  <2>1. S!SchemaOK(db) /\ revision \in S!Revisions /\ data \subseteq S!Facts
    BY RevisionsInOrder, TwelveRevisions DEF MigrationsInv, InOrder
  <2>2. ASSUME run # S!Idle
        PROVE  /\ S!SchemaOK(run.schema) /\ run.way \in {"up", "down"} /\ run.at \in S!Revisions
               /\ S!Running => run.step \in DOMAIN S!Script
    <3>1. CommandInv
      BY <2>2 DEF MigrationsInv
    <3>2. CASE run.at = run.target
      BY <3>1, <3>2, RevisionsInOrder, TwelveRevisions DEF CommandInv, InOrder, S!Running
    <3>3. CASE run.at # run.target
      <4>1. PICK n : Track(run.way, run.at, n) /\ run.step \in 1..n
        BY <3>1, <3>3, OnTheWay
      <4>2. S!Script = ScriptFor(run.way, run.at)
        BY <3>1, <3>3, OnTheWay
      <4>3. run.step - 1 \in 0..n /\ run.schema = Path(run.way, run.at)[run.step - 1]
        BY <3>1, <3>3, <4>1 DEF CommandInv, Track
      <4>4. S!SchemaOK(run.schema)
        BY <4>1, <4>3 DEF Track, InOrder
      <4>5. run.step \in DOMAIN S!Script
        BY <4>1, <4>2 DEF Track
      <4>6. QED
        BY <3>1, <4>4, <4>5, TwelveRevisions DEF CommandInv
    <3>4. QED
      BY <3>2, <3>3
  <2>3. QED
    BY <2>1, <2>2 DEF S!TypeOK
<1>2. QED
  BY <1>1, MigrationsAlways, PTL

\* No statement of a migration ever meets a schema it cannot be applied to, and rows stop a
\* command only where a constraint is narrowed: on the way down by the draft key that two
\* tenants share or a long cursor, on the way up by a link between tenants.
THEOREM StatementsAlwaysApply == Spec => []StatementsApply
<1> DEFINE Held == focus = "migrations" => MigrationsInv
<1>1. Held => StatementsApply
  <2> SUFFICES ASSUME MigrationsInv, S!Running
               PROVE  /\ S!Applicable(run.schema, S!Statement)
                      /\ ~ S!Accepted =>
                           \/ run.way = "down" /\ data \intersect {"shared_key", "long_cursor"} # {}
                           \/ run.way = "up" /\ "foreign_link" \in data
    BY DEF StatementsApply, S!StatementsApply
  <2>1. CommandInv /\ run.at # run.target
    BY DEF MigrationsInv, S!Running
  <2>2. PICK way, o, k, a : way = run.way /\ o = run.at /\ k = run.step /\ a = run.schema
    OBVIOUS
  <2>3. PICK n, script : Track(way, o, n) /\ k \in 1..n /\ script = ScriptFor(way, o) /\ S!Script = script
    BY <2>1, <2>2, OnTheWay
  <2>4. PICK s : s = script[k]
    OBVIOUS
  <2>5. S!Statement = s
    BY <2>2, <2>3, <2>4 DEF S!Statement
  <2>6. InOrder(a) /\ S!Applicable(a, s) /\ Kind(way, s)
    <3>1. k - 1 \in 0..n
      <4>1. n \in Nat /\ k \in 1..n
        BY <2>3 DEF Track
      <4>2. QED
        BY <4>1
    <3>2. a = Path(way, o)[k - 1]
      BY <2>1, <2>2 DEF CommandInv
    <3>3. QED
      BY <2>3, <2>4, <3>1, <3>2 DEF Track
  <2>7. ASSUME ~ S!Accepted
        PROVE  \/ run.way = "down" /\ data \intersect {"shared_key", "long_cursor"} # {}
               \/ run.way = "up" /\ "foreign_link" \in data
    <3>1. PICK b : b = S!Applied(a, s)
      OBVIOUS
    <3>2. PICK f \in data : S!Home(f) \in a.tables /\ ~ S!Permitted(b, f)
      BY <2>2, <2>5, <2>7, <3>1 DEF S!Accepted
    <3>3. S!Permitted(a, f) /\ f \in S!Facts
      BY <2>1, <2>2, <3>2 DEF CommandInv, RowsFit, MigrationsInv
    <3>4. CASE way = "up"
      <4>1. UpStatement(s)
        BY <2>6, <3>4 DEF Kind
      <4>2. f \notin {"shared_key", "long_cursor"}
        BY <2>6, <3>1, <3>2, <3>3, <4>1, UpKeeps DEF InOrder
      <4>3. f = "foreign_link"
        BY <3>3, <4>2, PermittedWhen
      <4>4. QED
        BY <2>2, <3>2, <3>4, <4>3
    <3>5. CASE way = "down"
      <4>1. DownStatement(s)
        BY <2>6, <3>5 DEF Kind
      <4>2. ~ (s.do = "drop")
        <5>1. SUFFICES ASSUME s.do = "drop" PROVE FALSE
          OBVIOUS
        <5>2. S!Accepted
          BY <2>5, <5>1 DEF S!Accepted
        <5>3. QED
          BY <2>7, <5>2
      <4>3. f # "foreign_link"
        <5>1. SUFFICES ASSUME f = "foreign_link" PROVE FALSE
          OBVIOUS
        <5>2. S!Home(f) \in b.tables
          BY <2>6, <3>1, <3>2, <4>1, <4>2, DownTables DEF InOrder
        <5>3. QED
          BY <2>6, <3>1, <3>2, <3>3, <4>1, <5>1, <5>2, DownKeeps DEF InOrder
      <4>4. f = "shared_key" \/ f = "long_cursor"
        BY <3>3, <4>3, PermittedWhen
      <4>5. QED
        BY <2>2, <3>2, <3>5, <4>4
    <3>6. QED
      BY <2>6, <3>4, <3>5 DEF Kind
  <2>8. QED
    BY <2>2, <2>5, <2>6, <2>7
<1>2. QED
  BY <1>1, MigrationsAlways, PTL

\* What the committed schema of a revision guarantees holds of every committed schema.
LEMMA CommittedGuarantees == MigrationsInv => S!TenantTablesGuarded /\ S!LinksStayInTenant
  /\ S!OrmMatchesHead
<1> SUFFICES ASSUME MigrationsInv PROVE S!TenantTablesGuarded /\ S!LinksStayInTenant /\ S!OrmMatchesHead
  OBVIOUS
<1>1. IsAt(db, revision)
  BY SchemaAt DEF MigrationsInv
<1>2. QED
  BY <1>1, NewestIsTwelve

\* At every committed revision the tenant owned tables are under forced row level security,
\* and the application role can use them but change no audit entry and delete no tenant.
THEOREM TablesGuarded == Spec => []TenantTablesGuarded
<1> DEFINE Held == focus = "migrations" => MigrationsInv
<1>1. Held => TenantTablesGuarded
  BY CommittedGuarantees DEF TenantTablesGuarded
<1>2. QED
  BY <1>1, MigrationsAlways, PTL

\* At the newest revision every link between tenant owned tables is also one of the tenant
\* (0012_tenant_ownership).
THEOREM LinksInTenant == Spec => []LinksStayInTenant
<1> DEFINE Held == focus = "migrations" => MigrationsInv
<1>1. Held => LinksStayInTenant
  BY CommittedGuarantees DEF LinksStayInTenant
<1>2. QED
  BY <1>1, MigrationsAlways, PTL

\* At the newest revision the tables, links and unique keys are those that the ORM declares.
THEOREM OrmAtHead == Spec => []OrmMatchesHead
<1> DEFINE Held == focus = "migrations" => MigrationsInv
<1>1. Held => OrmMatchesHead
  BY CommittedGuarantees DEF OrmMatchesHead
<1>2. QED
  BY <1>1, MigrationsAlways, PTL

\* The two components that use the schema have the same scripts.
LEMMA SameUpgrades == T!Upgrades = S!Upgrades
<1>1. T!InitialIdentity = S!InitialIdentity
  BY Zenon DEF T!InitialIdentity, S!InitialIdentity, T!Table, S!Table, T!Owned, S!Owned,
     T!Scoped, S!Scoped
<1>2. T!InitialCases = S!InitialCases
  BY Zenon DEF T!InitialCases, S!InitialCases, T!Table, S!Table, T!Owned, S!Owned,
     T!Scoped, S!Scoped
<1>3. T!InitialSecurity = S!InitialSecurity
  BY Zenon DEF T!InitialSecurity, S!InitialSecurity, T!Isolate, S!Isolate, T!OnEach, S!OnEach
<1>4. T!ProvenanceUp = S!ProvenanceUp
  BY Zenon DEF T!ProvenanceUp, S!ProvenanceUp, T!Table, S!Table, T!Owned, S!Owned,
     T!Scoped, S!Scoped, T!Isolate, S!Isolate, T!OnEach, S!OnEach
<1>5. T!CommunicationsUp = S!CommunicationsUp
  BY Zenon DEF T!CommunicationsUp, S!CommunicationsUp, T!Table, S!Table, T!Owned, S!Owned,
     T!Scoped, S!Scoped, T!Isolate, S!Isolate, T!OnEach, S!OnEach
<1>6. T!CaseDocumentsUp = S!CaseDocumentsUp
  BY Zenon DEF T!CaseDocumentsUp, S!CaseDocumentsUp, T!Table, S!Table, T!Owned, S!Owned,
     T!Scoped, S!Scoped, T!Isolate, S!Isolate, T!OnEach, S!OnEach
<1>7. T!DraftKeyUp = S!DraftKeyUp
  BY Zenon DEF T!DraftKeyUp, S!DraftKeyUp, T!Key, S!Key
<1>8. T!ConnectorsUp = S!ConnectorsUp
  BY Zenon DEF T!ConnectorsUp, S!ConnectorsUp, T!Table, S!Table, T!Owned, S!Owned,
     T!Scoped, S!Scoped, T!Isolate, S!Isolate, T!OnEach, S!OnEach
<1>9. T!BankUp = S!BankUp
  BY Zenon DEF T!BankUp, S!BankUp, T!Table, S!Table, T!Owned, S!Owned, T!Scoped, S!Scoped,
     T!Isolate, S!Isolate, T!OnEach, S!OnEach
<1>10. T!FailuresUp = S!FailuresUp
  BY Zenon DEF T!FailuresUp, S!FailuresUp, T!Table, S!Table, T!Owned, S!Owned, T!Scoped, S!Scoped,
     T!Isolate, S!Isolate, T!OnEach, S!OnEach
<1>11. T!V1Up = S!V1Up
  <2>1. T!V1Columns = S!V1Columns
    BY Zenon DEF T!V1Columns, S!V1Columns, T!Column, S!Column, T!Link, S!Link
  <2>2. T!V1Connected = S!V1Connected
    BY Zenon DEF T!V1Connected, S!V1Connected, T!Inbox, S!Inbox, T!Table, S!Table,
       T!Owned, S!Owned, T!Scoped, S!Scoped
  <2>3. T!V1Actions = S!V1Actions
    BY Zenon DEF T!V1Actions, S!V1Actions, T!Table, S!Table, T!Owned, S!Owned, T!Scoped, S!Scoped
  <2>4. T!Isolate(T!V1Tables) = S!Isolate(S!V1Tables)
    BY Zenon DEF T!V1Tables, S!V1Tables, T!Isolate, S!Isolate, T!OnEach, S!OnEach
  <2>5. QED
    BY <2>1, <2>2, <2>3, <2>4, Zenon DEF T!V1Up, S!V1Up
<1>12. T!V2Up = S!V2Up
  <2>1. T!V2Predictions = S!V2Predictions
    BY Zenon DEF T!V2Predictions, S!V2Predictions, T!Column, S!Column, T!Table, S!Table,
       T!Owned, S!Owned, T!Scoped, S!Scoped
  <2>2. T!V2Automation = S!V2Automation
    BY Zenon DEF T!V2Automation, S!V2Automation, T!Table, S!Table, T!Owned, S!Owned,
       T!Scoped, S!Scoped
  <2>3. T!Isolate(T!V2Tables) = S!Isolate(S!V2Tables)
    BY Zenon DEF T!V2Tables, S!V2Tables, T!Isolate, S!Isolate, T!OnEach, S!OnEach
  <2>4. QED
    BY <2>1, <2>2, <2>3, Zenon DEF T!V2Up, S!V2Up
<1>13. T!SessionsUp = S!SessionsUp
  BY Zenon DEF T!SessionsUp, S!SessionsUp, T!Column, S!Column, T!Table, S!Table, T!Owned, S!Owned,
     T!Scoped, S!Scoped
<1>14. T!OwnershipUp = S!OwnershipUp
  BY Zenon DEF T!OwnershipUp, S!OwnershipUp, T!ParentKeys, S!ParentKeys,
     T!TenantLinks, S!TenantLinks, T!Parents, S!Parents, T!Relationships, S!Relationships,
     T!TenantKey, S!TenantKey, T!Key, S!Key, T!Link, S!Link
<1>15. QED
  BY <1>1, <1>2, <1>3, <1>4, <1>5, <1>6, <1>7, <1>8, <1>9, <1>10, <1>11, <1>12,
     <1>13, <1>14, Zenon DEF
     T!Upgrades, S!Upgrades

\* The schema after the last of some scripts, as both define it.
HeadOf(scripts) ==
  LET reached[r \in 0 .. Len(scripts)] ==
        IF r = 0 THEN {S!NoSchema}
        ELSE {S!FoldLeft(S!Applied, s, scripts[r]) : s \in reached[r - 1]}
      schemaOf == [r \in 0 .. Len(scripts) |-> CHOOSE s \in reached[r] : TRUE]
  IN  schemaOf[Len(scripts)]

\* They mean the same schema by the newest revision.
LEMMA SameHead == T!HeadSchema = S!HeadSchema
<1>1. S!HeadSchema = HeadOf(S!Upgrades)
  BY Zenon DEF S!HeadSchema, S!SchemaOf, S!Reached, S!Revisions, HeadOf
<1>2. T!HeadSchema = HeadOf(T!Upgrades)
  BY Zenon DEF HeadOf, T!HeadSchema, S!HeadSchema, T!SchemaOf, S!SchemaOf, T!Reached, S!Reached,
     T!Revisions, S!Revisions, T!NoSchema, S!NoSchema, T!Applied, S!Applied, T!Without, S!Without,
     T!LinksOf, S!LinksOf, T!KeysOf, S!KeysOf, T!Everything, S!Everything, T!FoldLeft, S!FoldLeft,
     T!MapThenFoldSet, S!MapThenFoldSet, T!Max, S!Max
<1>3. QED
  BY <1>1, <1>2, SameUpgrades, Zenon

-----------------------------------------------------------------------------
(* TenantLifecycle.                                                        *)

\* When a covered table has its turn.
Turn == [payment_allocations |-> 1, failure_records |-> 2, communication_attachments |-> 3,
  evidence_spans |-> 4, case_documents |-> 5, document_sources |-> 6, blockers |-> 7, draft_actions |-> 8,
  approvals |-> 9, case_invoices |-> 10, communications |-> 11, bank_transactions |-> 12,
  invoices |-> 13, customers |-> 14, payment_cases |-> 15, documents |-> 16,
  connector_cursors |-> 17, connector_credentials |-> 18, idempotency_records |-> 19,
  outbox_events |-> 20, audit_entries |-> 21, memberships |-> 22, tenants |-> 23]

\* The turn of each table in the order of deletion.
LEMMA Turns ==
  /\ Len(T!DeletionOrder) = 23 /\ DOMAIN T!DeletionOrder = 1..23
  /\ \A i \in 1..23 : T!DeletionOrder[i] \in DOMAIN Turn /\ Turn[T!DeletionOrder[i]] = i
  /\ \A t \in T!Covered : Turn[t] \in 1..23 /\ T!DeletionOrder[Turn[t]] = t
  /\ Turn["tenants"] = 23 /\ "users" \notin T!Covered
<1>1. Len(T!DeletionOrder) = 23 /\ DOMAIN T!DeletionOrder = 1..23
  BY DEF T!DeletionOrder, T!Tables
<1>2. \A i \in 1..23 : T!DeletionOrder[i] \in DOMAIN Turn /\ Turn[T!DeletionOrder[i]] = i
  BY DEF T!DeletionOrder, T!Tables, Turn
<1>3. \A t \in T!Covered : Turn[t] \in 1..23 /\ T!DeletionOrder[Turn[t]] = t
  BY <1>1, <1>2 DEF T!Covered
<1>4. Turn["tenants"] = 23 /\ "users" \notin DOMAIN Turn
  BY DEF Turn
<1>5. "users" \notin T!Covered
  BY <1>1, <1>2, <1>4 DEF T!Covered
<1>6. QED
  BY <1>1, <1>2, <1>3, <1>4, <1>5

\* Of the relationships that tie covered tables the child comes first.
LEMMA LinkedInTurn ==
  \A x \in Linked : x[1] = x[3] \/ x[1] \notin DOMAIN Turn \/ x[3] \notin DOMAIN Turn
      \/ Turn[x[1]] < Turn[x[3]]
BY DEF Linked, Turn

\* Every link of the newest schema is to the tenants, to the users, or listed.
LEMMA HeadLinked ==
  /\ T!HeadSchema.tables = Names
  /\ T!HeadSchema.links = LinksBetween(0, 49) \union {Reversal} \union FirstOf(TenantLinkList, 27)
  /\ \A l \in T!HeadSchema.links : l[3] \in {"tenants", "users"} \/ <<l[1], l[2], l[3]>> \in Linked
<1>1. PICK s : s = S!HeadSchema
  OBVIOUS
<1>2. T!HeadSchema = s
  BY <1>1, SameHead
<1>3. /\ s.tables = Names
      /\ s.links = LinksBetween(0, 49) \union {Reversal} \union FirstOf(TenantLinkList, 27)
  <2>1. S!HeadSchema = S!SchemaOf[12] /\ 12 \in 0..12
    BY TwelveRevisions DEF S!HeadSchema
  <2>2. QED
    BY <1>1, <2>1, SchemaAt, HeadParts
<1>4. ASSUME NEW l \in s.links PROVE l[3] \in {"tenants", "users"} \/ <<l[1], l[2], l[3]>> \in Linked
  <2>1. CASE l \in LinksBetween(0, 49) \union {Reversal}
    BY <2>1, LinksAreLinked
  <2>2. CASE l \in FirstOf(TenantLinkList, 27)
    <3>1. PICK k \in 1..27 : l = TenantLink(k)
      BY <2>2, TenantsApart DEF FirstOf
    <3>2. <<l[1], l[2], l[3]>> = <<S!Relationships[k][1], S!Relationships[k][2], S!Relationships[k][3]>>
      BY <3>1 DEF TenantLink
    <3>3. \A m \in 1..27 : <<S!Relationships[m][1], S!Relationships[m][2],
              S!Relationships[m][3]>> \in Linked
      BY SMTT(30) DEF S!Relationships, Linked
    <3>4. QED
      BY <3>2, <3>3
  <2>3. QED
    BY <1>3, <1>4, <2>1, <2>2
<1>5. QED
  BY <1>2, <1>3, <1>4

\* So do the children of all links of the newest schema.
LEMMA ChildrenFirst ==
  ASSUME NEW i \in 1..23, NEW c \in T!Children(T!DeletionOrder[i]), c \in T!Covered
  PROVE  \E j \in 1..23 : j < i /\ T!DeletionOrder[j] = c
<1>1. PICK t, links : t = T!DeletionOrder[i] /\ links = T!HeadSchema.links
  OBVIOUS
<1>2. PICK l \in links : l[3] = t /\ l[1] = c /\ c # t
  BY <1>1 DEF T!Children
<1>3. l[3] \in {"tenants", "users"} \/ <<l[1], l[2], l[3]>> \in Linked
  BY <1>1, <1>2, HeadLinked
<1>4. /\ t \in DOMAIN Turn /\ Turn[t] = i /\ c \in DOMAIN Turn /\ Turn[c] \in 1..23
      /\ T!DeletionOrder[Turn[c]] = c
      /\ t \in T!Covered
  BY <1>1, Turns DEF T!Covered
<1>5. CASE t = "tenants"
  <2>1. i = 23 /\ Turn[c] # 23
    <3>1. i = 23
      BY <1>4, <1>5, Turns
    <3>2. QED
      BY <1>1, <1>2, <1>4, <3>1
  <2>2. QED
    BY <1>4, <2>1
<1>6. CASE t = "users"
  BY <1>4, <1>6, Turns
<1>7. CASE <<l[1], l[2], l[3]>> \in Linked
  <2>1. Turn[c] < Turn[t]
    BY <1>2, <1>4, <1>7, LinkedInTurn
  <2>2. QED
    BY <1>4, <2>1
<1>8. QED
  BY <1>2, <1>3, <1>5, <1>6, <1>7

\* While a deletion is open, the rows of the tables whose turn has been are among those it has
\* deleted, but for those that came late.
OrderInv ==
  /\ \A r \in rows : r[2] \in {"before", "late"}
  /\ T!Open => /\ deletion.step \in 1..24 /\ deletion.role \in T!Roles
               /\ \A j \in 1..23 : j < deletion.step =>
                     \A r \in rows : r[1] = T!DeletionOrder[j] /\ r[2] = "before" => r \in deletion.gone
  /\ T!OrderRespectsLinks

\* Every step of a deletion preserves the invariant.
LEMMA OrderStep ==
  ASSUME DeletionInv, OrderInv, [T!Next]_(T!vars)
  PROVE  OrderInv'
<1>1. CASE UNCHANGED T!vars
  BY <1>1 DEF T!vars, OrderInv, T!Open, T!OrderRespectsLinks
<1>2. ASSUME NEW t \in Late, T!Arrive(t) PROVE OrderInv'
  <2>1. T!Open /\ rows' = rows \union {<<t, "late">>} /\ deletion' = deletion
    BY <1>2 DEF T!Arrive
  <2>2. deletion'.phase # "failed"
    BY <2>1 DEF T!Open
  <2>3. QED
    BY <2>1, <2>2 DEF OrderInv, T!Open, T!OrderRespectsLinks
<1>3. ASSUME NEW approved \in BOOLEAN, NEW role \in T!Roles, T!Begin(approved, role) PROVE OrderInv'
  <2>1. rows' = rows
    BY <1>3 DEF T!Begin
  <2>2. CASE approved
    <3>1. deletion' = [phase |-> "open", step |-> 1, gone |-> {}, role |-> role]
      BY <1>3, <2>2 DEF T!Begin
    <3>2. \A j \in 1..23 : ~ (j < 1)
      OBVIOUS
    <3>3. QED
      BY <2>1, <3>1, <3>2 DEF OrderInv, T!Open, T!OrderRespectsLinks
  <2>3. CASE ~ approved
    <3>1. deletion' = T!Settled("refused")
      BY <1>3, <2>3 DEF T!Begin
    <3>2. QED
      BY <2>1, <3>1 DEF OrderInv, T!Open, T!OrderRespectsLinks, T!Settled
  <2>4. QED
    BY <2>2, <2>3
<1>4. CASE T!DeleteFrom
  <2>1. PICK k, gone, role : k = deletion.step /\ gone = deletion.gone /\ role = deletion.role
    OBVIOUS
  <2>2. T!Open /\ k \in 1..23 /\ rows' = rows /\ role \in T!Roles
    BY <1>4, <2>1, Turns DEF T!DeleteFrom, OrderInv
  <2>3. PICK more : more = gone \union T!In(rows, T!DeletionOrder[k])
    OBVIOUS
  <2>4. deletion' = [phase |-> "open", step |-> k + 1, gone |-> more, role |-> role]
    <3>1. deletion' = [deletion EXCEPT !.gone = more, !.step = k + 1]
      BY <1>4, <2>1, <2>3 DEF T!DeleteFrom, T!Target
    <3>2. deletion = [phase |-> "open", step |-> k, gone |-> gone, role |-> role]
      BY <2>1, <2>2 DEF DeletionInv
    <3>3. QED
      BY <3>1, <3>2
  <2>5. deletion'.phase = "open" /\ deletion'.gone = more /\ deletion'.step = k + 1 /\ deletion'.role = role
    BY <2>4
  <2>6. ASSUME NEW j \in 1..23, j < k + 1, NEW r \in rows, r[1] = T!DeletionOrder[j], r[2] = "before"
        PROVE  r \in more
    <3>1. CASE j = k
      BY <2>3, <2>6, <3>1 DEF T!In
    <3>2. CASE j < k
      BY <2>1, <2>2, <2>3, <2>6, <3>2 DEF OrderInv
    <3>3. QED
      BY <2>2, <2>6, <3>1, <3>2
  <2>7. k + 1 \in 1..24
    BY <2>2
  <2>8. QED
    BY <2>2, <2>5, <2>6, <2>7 DEF OrderInv, T!OrderRespectsLinks
<1>5. CASE T!RollBack
  <2>1. PICK k, gone, role : k = deletion.step /\ gone = deletion.gone /\ role = deletion.role
    OBVIOUS
  <2>2. /\ T!Open /\ k \in 1..23 /\ rows' = rows /\ role \in {"owner", "ar_app"}
        /\ ~ (T!Allowed /\ T!Unreferenced) /\ deletion' = [phase |-> "failed", role |-> role]
    BY <1>5, <2>1, Turns DEF T!RollBack, OrderInv, T!Roles
  <2>3. ASSUME role = "owner"
        PROVE  \E r \in rows : r[1] \notin T!Covered \/ r[2] = "late"
    <3>1. ~ T!Unreferenced
      BY <2>1, <2>2, <2>3 DEF T!Allowed
    <3>2. PICK c \in T!Children(T!DeletionOrder[k]) : T!In(rows \ gone, c) # {}
      BY <2>1, <2>2, <3>1 DEF T!Unreferenced, T!Target, T!Remaining
    <3>3. PICK r \in rows : r \notin gone /\ r[1] = c
      BY <3>2 DEF T!In
    <3>4. CASE c \in T!Covered
      <4>1. PICK j \in 1..23 : j < k /\ T!DeletionOrder[j] = c
        BY <2>2, <3>2, <3>4, ChildrenFirst
      <4>2. r[2] # "before"
        BY <2>1, <2>2, <3>3, <4>1 DEF OrderInv
      <4>3. QED
        BY <3>3, <4>2 DEF OrderInv
    <3>5. CASE c \notin T!Covered
      BY <3>3, <3>5
    <3>6. QED
      BY <3>4, <3>5
  <2>4. deletion'.phase = "failed" /\ deletion'.role = role
    BY <2>2
  <2>5. T!OrderRespectsLinks'
    BY <2>2, <2>3, <2>4 DEF T!OrderRespectsLinks
  <2>6. QED
    BY <2>2, <2>4, <2>5 DEF OrderInv, T!Open
<1>6. CASE T!Commit
  <2>1. rows' \subseteq rows /\ deletion'.phase = "deleted"
    BY <1>6 DEF T!Commit, T!Settled
  <2>2. QED
    BY <2>1 DEF OrderInv, T!Open, T!OrderRespectsLinks
<1>7. CASE T!Crash
  <2>1. rows' = rows /\ deletion'.phase = "none"
    BY <1>7 DEF T!Crash, T!Settled
  <2>2. QED
    BY <2>1 DEF OrderInv, T!Open, T!OrderRespectsLinks
<1>8. QED
  BY <1>1, <1>2, <1>3, <1>4, <1>5, <1>6, <1>7 DEF T!Next

\* A deletion by the owner of the tables fails only for a row in a table that the order leaves
\* out, or one that arrived meanwhile: the order respects every foreign key of the newest
\* schema (delete_tenant_rows).
THEOREM DeletionOrderRespectsLinks == Spec => []OrderRespectsLinks
<1> DEFINE Held == focus = "lifecycle" => OrderInv
<1>1. Init => Held
  <2> SUFFICES ASSUME Init, focus = "lifecycle" PROVE OrderInv
    OBVIOUS
  <2>1. T!Init
    BY DEF Init, InitLifecycle
  <2>2. deletion.phase = "none" /\ \A r \in rows : r[2] = "before"
    BY <2>1 DEF T!Init, T!Settled
  <2>3. QED
    BY <2>2 DEF OrderInv, T!Open, T!OrderRespectsLinks
<1>2. LifecycleInv /\ Held /\ [Next]_vars => Held'
  BY OneComponent, OrderStep DEF LifecycleInv
<1>3. Held => OrderRespectsLinks
  BY DEF OrderInv, OrderRespectsLinks
<1>4. QED
  BY <1>1, <1>2, <1>3, LifecycleAlways, PTL DEF Spec

-----------------------------------------------------------------------------
(* LifecycleAssumption.                                                    *)

\* The tables whose rows belong to a tenant.
TenantTables == Names \ {"tenants", "users", "llm_pricing"}

\* Each of them links to the tenants.
LEMMA ChildrenOfTenants == TenantTables \subseteq T!Children("tenants")
<1> SUFFICES ASSUME NEW t \in TenantTables PROVE t \in T!Children("tenants")
  OBVIOUS
<1>1. PICK p \in 1..49 : Name(p) = t
  BY NamesListed DEF TenantTables
<1>2. PICK s : s = Creation[p] /\ s.table = t
  BY <1>1 DEF Name
<1>3. <<"tenant_id", "tenants">> \in s.refs
  BY <1>2, AllOwned DEF IsOwned, TenantTables
<1>4. <<t, "tenant_id", "tenants", "id">> \in S!LinksOf(s)
  BY <1>2, <1>3 DEF S!LinksOf
<1>5. <<t, "tenant_id", "tenants", "id">> \in LinksBetween(0, 49)
  BY <1>2, <1>4 DEF LinksBetween
<1>6. <<t, "tenant_id", "tenants", "id">> \in T!HeadSchema.links
  BY <1>5, HeadLinked
<1>7. QED
  BY <1>6 DEF T!Children, TenantTables

\* Their rows need parents in such tables only.
LEMMA ParentsOfTenants ==
  /\ TenantTables \subseteq DOMAIN T!ParentsOf
  /\ \A t \in TenantTables : T!ParentsOf[t] \subseteq TenantTables
<1>1. TenantTables \subseteq T!HeadSchema.tables
  BY HeadLinked DEF TenantTables
<1>2. ASSUME NEW t \in TenantTables, NEW p \in T!ParentsOf[t] PROVE p \in TenantTables
  <2>1. PICK l \in T!HeadSchema.links : l[3] = p /\ p \notin {"tenants", "users"}
    BY <1>1, <1>2 DEF T!ParentsOf
  <2>2. <<l[1], l[2], l[3]>> \in Linked
    BY <2>1, HeadLinked
  <2>3. \A x \in Linked : x[3] \in TenantTables
    BY DEF Linked, TenantTables, Names, Place
  <2>4. QED
    BY <2>1, <2>2, <2>3
<1>3. QED
  BY <1>1, <1>2 DEF T!ParentsOf

\* LifecycleAssumption asks for nothing but that the rows of the instance are of tables of tenants:
\* the migrations link those to the tenant that delete_tenant_rows deletes last.
THEOREM TenantsAreLinked ==
  Leaves \union Late \subseteq TenantTables =>
    (T!Covered \ {"tenants"}) \union Late \union UNION {T!WithParents[t] : t \in Leaves}
        \subseteq T!Children("tenants")
<1> SUFFICES ASSUME Leaves \union Late \subseteq TenantTables
             PROVE  (T!Covered \ {"tenants"}) \union Late \union UNION {T!WithParents[t] : t \in Leaves}
                      \subseteq TenantTables
  BY ChildrenOfTenants
<1>1. T!Covered \ {"tenants"} \subseteq TenantTables
  <2>1. \A t \in DOMAIN Turn : t \in Names /\ t # "users" /\ t # "llm_pricing"
    BY DEF Turn, Names, Place
  <2>2. QED
    BY <2>1, Turns DEF T!Covered, TenantTables
<1>2. ASSUME NEW t \in Leaves PROVE T!WithParents[t] \subseteq TenantTables
  <2> DEFINE Up(tables) == tables \union UNION {T!ParentsOf[s] : s \in tables}
  <2>1. ASSUME NEW tables, tables \subseteq TenantTables PROVE Up(tables) \subseteq TenantTables
    BY <2>1, ParentsOfTenants
  <2>2. t \in T!HeadSchema.tables
    BY HeadLinked DEF TenantTables
  <2>3. T!WithParents[t] = Up(Up(Up({t})))
    BY <2>2, Zenon DEF T!WithParents
  <2> HIDE DEF Up
  <2>4. {t} \subseteq TenantTables
    OBVIOUS
  <2>5. QED
    BY <2>1, <2>3, <2>4
<1>3. QED
  BY <1>1, <1>2
==============================================================================
