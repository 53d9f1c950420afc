---------------------------- MODULE SchemaProofs -----------------------------
(***************************************************************************)
(* Lemmas about the schema: what each script of a migration makes of the   *)
(* schema it is meant for.                                                 *)
(***************************************************************************)
EXTENDS SequencesProofs

-----------------------------------------------------------------------------
(* What a fold of Applied over a script of statements computes.            *)

\* What the statements at a set of positions make of a schema: the last one is applied last.
PrefixRun(h, base, script, set) == IF set = {} THEN base
  ELSE S!Applied(h[set \ {S!Max(set)}], script[S!Max(set)])
\* h has it for each subset of set.
ArePrefixes(h, base, script, set) == h = [part \in SUBSET set |-> PrefixRun(h, base, script, part)]
\* The function that the fold computes.
Prefixes(base, script, set) == CHOOSE h : ArePrefixes(h, base, script, set)

\* A fold is its value for all positions.
LEMMA RunIsEntry ==
  \A base, script :
    S!FoldLeft(S!Applied, base, script) = Prefixes(base, script, DOMAIN script)[DOMAIN script]
BY Zenon DEF S!FoldLeft, S!MapThenFoldSet, Prefixes, ArePrefixes, PrefixRun

\* Which is what S!Max chooses.
LEMMA LastIn ==
  ASSUME NEW n \in Nat, NEW set \in SUBSET (0..n), set # {}
  PROVE  S!Max(set) \in set /\ \A y \in set : S!Max(set) >= y
BY GreatestNat DEF S!Max

\* The last of the positions up to n, if n is among them.
LEMMA LastIs ==
  ASSUME NEW n \in Nat, NEW set \in SUBSET (0..n), n \in set
  PROVE  S!Max(set) = n
<1>1. S!Max(set) \in set /\ S!Max(set) >= n
  BY LastIn
<1>2. S!Max(set) \in 0..n
  BY <1>1
<1>3. QED
  BY <1>1, <1>2

\* It exists for every initial segment.
LEMMA PrefixesExist ==
  ASSUME NEW base, NEW script, NEW n \in Nat
  PROVE  \E h : ArePrefixes(h, base, script, 1..n)
<1> DEFINE lower == {k \in Nat : ~ \E h : ArePrefixes(h, base, script, 1..k)}
<1>1. SUFFICES ASSUME lower # {} PROVE FALSE
  OBVIOUS
<1>2. PICK k \in lower : \A y \in lower : k <= y
  <2>1. lower \in SUBSET Nat
    OBVIOUS
  <2> HIDE DEF lower
  <2>2. QED
    BY <1>1, <2>1, LeastNat
<1>3. CASE k = 0
  <2>1. ArePrefixes([part \in SUBSET (1..0) |-> base], base, script, 1..0)
    BY DEF ArePrefixes, PrefixRun
  <2>2. QED
    BY <1>2, <1>3, <2>1
<1>4. CASE k # 0
  <2>1. k - 1 \in Nat /\ k - 1 \notin lower
    BY <1>2, <1>4
  <2>2. PICK g : ArePrefixes(g, base, script, 1..(k - 1))
    BY <2>1
  <2> DEFINE h == [part \in SUBSET (1..k) |->
                     IF k \in part THEN S!Applied(g[part \ {k}], script[k]) ELSE g[part]]
  <2>3. ASSUME NEW part \in SUBSET (1..k)
        PROVE  h[part] = PrefixRun(h, base, script, part)
    <3>1. CASE k \in part
      <4>1. part \ {k} \in SUBSET (1..(k - 1)) /\ part \ {k} \in SUBSET (1..k) /\ k \notin part \ {k}
        BY <1>2
      <4>2. S!Max(part) = k
        BY <1>2, <3>1, LastIs
      <4>3. h[part \ {k}] = g[part \ {k}]
        BY <4>1
      <4>4. h[part] = S!Applied(g[part \ {k}], script[k])
        BY <3>1
      <4> HIDE DEF h
      <4>5. QED
        BY <3>1, <4>2, <4>3, <4>4 DEF PrefixRun
    <3>2. CASE k \notin part
      <4>1. part \in SUBSET (1..(k - 1))
        BY <1>2, <3>2
      <4>2. g[part] = PrefixRun(g, base, script, part) /\ h[part] = g[part]
        BY <2>2, <3>2, <4>1 DEF ArePrefixes
      <4>3. CASE part = {}
        BY <4>2, <4>3 DEF PrefixRun
      <4>4. CASE part # {}
        <5>1. part \ {S!Max(part)} \in SUBSET (1..k) /\ k \notin part \ {S!Max(part)}
          BY <3>2
        <5>2. h[part \ {S!Max(part)}] = g[part \ {S!Max(part)}]
          BY <5>1
        <5> HIDE DEF h
        <5>3. QED
          BY <4>2, <4>4, <5>2 DEF PrefixRun
      <4>5. QED
        BY <4>3, <4>4
    <3>3. QED
      BY <3>1, <3>2
  <2>4. ArePrefixes(h, base, script, 1..k)
    BY <2>3 DEF ArePrefixes
  <2>5. QED
    BY <1>2, <2>4
<1>5. QED
  BY <1>3, <1>4

\* A fold goes through the script from the first to the last statement.
LEMMA RunSteps ==
  ASSUME NEW base, NEW script, NEW n \in Nat, DOMAIN script = 1..n
  PROVE  \E dict :
           /\ dict[0] = base
           /\ \A k \in 1..n : dict[k] = S!Applied(dict[k - 1], script[k])
           /\ dict[n] = S!FoldLeft(S!Applied, base, script)
<1> DEFINE h == Prefixes(base, script, 1..n)
           dict == [k \in 0..n |-> h[1..k]]
<1>1. ArePrefixes(h, base, script, 1..n)
  BY PrefixesExist DEF Prefixes
<1>2. ASSUME NEW k \in 0..n PROVE dict[k] = PrefixRun(h, base, script, 1..k)
  <2>1. 1..k \in SUBSET (1..n)
    OBVIOUS
  <2>2. QED
    BY <1>1, <2>1 DEF ArePrefixes
<1>3. dict[0] = base
  <2>1. 1..0 = {}
    OBVIOUS
  <2>2. dict[0] = PrefixRun(h, base, script, {})
    BY <1>2, <2>1
  <2>3. QED
    BY <2>2 DEF PrefixRun
<1>4. ASSUME NEW k \in 1..n PROVE dict[k] = S!Applied(dict[k - 1], script[k])
  <2>1. S!Max(1..k) = k /\ 1..k # {}
    <3>1. k \in Nat /\ 1..k \in SUBSET (0..k) /\ k \in 1..k
      OBVIOUS
    <3>2. QED
      BY <3>1, LastIs
  <2>2. (1..k) \ {k} = 1..(k - 1)
    OBVIOUS
  <2>3. dict[k] = S!Applied(h[1..(k - 1)], script[k])
    <3>1. dict[k] = PrefixRun(h, base, script, 1..k)
      BY <1>2
    <3> HIDE DEF dict, h
    <3>2. QED
      BY <2>1, <2>2, <3>1 DEF PrefixRun
  <2>4. QED
    BY <2>3
<1>5. dict[n] = S!FoldLeft(S!Applied, base, script)
  BY RunIsEntry
<1>6. QED
  BY <1>3, <1>4, <1>5

\* What a script makes of a schema.
Outcome(base, script) == S!FoldLeft(S!Applied, base, script)
\* d are the schemas between the statements of a script that starts from base.
IsCourse(d, base, script) ==
  /\ d[0] = base
  /\ \A k \in 1..Len(script) : d[k] = S!Applied(d[k - 1], script[k])
  /\ d[Len(script)] = Outcome(base, script)
Course(base, script) == CHOOSE d : IsCourse(d, base, script)

\* The course of a script exists: each schema of it is the statement applied to the one before.
LEMMA CourseSteps ==
  ASSUME NEW base, NEW script, Len(script) \in Nat, DOMAIN script = 1..Len(script)
  PROVE  IsCourse(Course(base, script), base, script)
<1>1. \E d : IsCourse(d, base, script)
  BY RunSteps DEF IsCourse, Outcome
<1>2. QED
  BY <1>1 DEF Course

-----------------------------------------------------------------------------
(* The schemas of the revisions.                                           *)

\* Twelve revisions follow the empty database.
LEMMA TwelveRevisions == S!Revisions = 0..12 /\ Len(S!Upgrades) = 12
BY DEF S!Revisions, S!Upgrades

\* What the recursive definition of Reached says of g at the revision r, and up to n.
ReachedAt(g, r) == IF r = 0 THEN {S!NoSchema}
                   ELSE {Outcome(s, S!Upgrades[r]) : s \in g[r - 1]}
IsReached(g, n) == g = [r \in 0..n |-> ReachedAt(g, r)]

\* The schemas of the revisions up to any one of them exist as a recursive function.
LEMMA ReachedExists == \A n \in Nat : \E g : IsReached(g, n)
<1> DEFINE lower == {k \in Nat : ~ \E g : IsReached(g, k)}
<1>1. SUFFICES ASSUME lower # {} PROVE FALSE
  OBVIOUS
<1>2. PICK k \in lower : \A y \in lower : k <= y
  <2>1. lower \in SUBSET Nat
    OBVIOUS
  <2> HIDE DEF lower
  <2>2. QED
    BY <1>1, <2>1, LeastNat
<1>3. CASE k = 0
  <2>1. IsReached([r \in 0..0 |-> {S!NoSchema}], 0)
    BY DEF IsReached, ReachedAt
  <2>2. QED
    BY <1>2, <1>3, <2>1
<1>4. CASE k # 0
  <2>1. k - 1 \in Nat /\ k - 1 \notin lower
    BY <1>2, <1>4
  <2>2. PICK g : IsReached(g, k - 1)
    BY <2>1
  <2> DEFINE h == [r \in 0..k |-> IF r = k THEN ReachedAt(g, k) ELSE g[r]]
  <2>3. ASSUME NEW r \in 0..k PROVE h[r] = ReachedAt(h, r)
    <3>1. CASE r = 0
      BY <1>4, <2>1, <2>2, <3>1 DEF IsReached, ReachedAt
    <3>2. CASE r # 0
      <4>1. r - 1 \in 0..(k - 1) /\ h[r - 1] = g[r - 1]
        BY <2>1, <3>2
      <4>2. h[r] = ReachedAt(g, r)
        <5>1. CASE r = k
          BY <2>1, <5>1
        <5>2. CASE r # k
          <6>1. r \in 0..(k - 1) /\ h[r] = g[r]
            BY <2>1, <5>2
          <6> HIDE DEF h
          <6>2. g[r] = ReachedAt(g, r)
            BY <2>2, <6>1, Zenon DEF IsReached
          <6>3. QED
            BY <6>1, <6>2
        <5>3. QED
          BY <5>1, <5>2
      <4> HIDE DEF h
      <4>3. QED
        BY <3>2, <4>1, <4>2 DEF ReachedAt
    <3>3. QED
      BY <3>1, <3>2
  <2>4. IsReached(h, k)
    BY <2>3 DEF IsReached
  <2>5. QED
    BY <1>2, <2>4
<1>5. QED
  BY <1>3, <1>4

\* Reached is that function.
LEMMA ReachedIs == IsReached(S!Reached, 12)
<1>1. S!Reached = CHOOSE g : g = [r \in S!Revisions |-> ReachedAt(g, r)]
  BY Zenon DEF S!Reached, ReachedAt, Outcome
<1>2. S!Reached = CHOOSE g : IsReached(g, 12)
  BY <1>1, TwelveRevisions, Zenon DEF IsReached
<1>3. QED
  BY <1>2, ReachedExists

\* Before the first upgrade there is nothing, and each upgrade runs on what the one
\* before it has left.
LEMMA SchemaSteps ==
  /\ S!SchemaOf[0] = S!NoSchema
  /\ \A r \in 1..12 : S!SchemaOf[r] = Outcome(S!SchemaOf[r - 1], S!Upgrades[r])
<1> DEFINE Only(r) == S!Reached[r] = {S!SchemaOf[r]}
           bad == {r \in 0..12 : ~ Only(r)}
<1>1. \A r \in 0..12 : S!Reached[r] = ReachedAt(S!Reached, r)
  BY ReachedIs DEF IsReached
<1>2. \A r \in 0..12 : S!SchemaOf[r] = CHOOSE s \in S!Reached[r] : TRUE
  BY TwelveRevisions DEF S!SchemaOf
<1>3. ASSUME NEW r \in 0..12, NEW s, S!Reached[r] = {s} PROVE S!SchemaOf[r] = s /\ Only(r)
  BY <1>2, <1>3
<1>4. S!SchemaOf[0] = S!NoSchema /\ Only(0)
  <2>1. S!Reached[0] = {S!NoSchema}
    BY <1>1 DEF ReachedAt
  <2> HIDE DEF Only
  <2>2. QED
    BY <1>3, <2>1
<1>5. ASSUME NEW r \in 1..12, Only(r - 1)
      PROVE  Only(r) /\ S!SchemaOf[r] = Outcome(S!SchemaOf[r - 1], S!Upgrades[r])
  <2>1. S!Reached[r] = {Outcome(s, S!Upgrades[r]) : s \in S!Reached[r - 1]}
    BY <1>1 DEF ReachedAt
  <2>2. S!Reached[r] = {Outcome(S!SchemaOf[r - 1], S!Upgrades[r])}
    BY <1>5, <2>1
  <2>3. PICK s : s = Outcome(S!SchemaOf[r - 1], S!Upgrades[r])
    OBVIOUS
  <2>4. S!SchemaOf[r] = s /\ Only(r)
    <3>1. S!Reached[r] = {s} /\ r \in 0..12
      BY <2>2, <2>3
    <3> HIDE DEF Only
    <3>2. QED
      BY <1>3, <3>1
  <2>5. QED
    BY <2>3, <2>4
<1>6. bad = {}
  <2> SUFFICES ASSUME bad # {} PROVE FALSE
    OBVIOUS
  <2>1. PICK k \in bad : \A j \in bad : k <= j
    <3>1. bad \in SUBSET Nat
      OBVIOUS
    <3> HIDE DEF bad
    <3>2. QED
      BY <3>1, LeastNat
  <2>2. k # 0 /\ k - 1 \in 0..12 /\ k - 1 \notin bad
    BY <1>4, <2>1
  <2>3. QED
    BY <1>5, <2>1, <2>2
<1>7. QED
  BY <1>4, <1>5, <1>6

IsSchema(s) ==
  s = [tables |-> s.tables, links |-> s.links, keys |-> s.keys, columns |-> s.columns,
       isolated |-> s.isolated, privileges |-> s.privileges, role |-> s.role, wide |-> s.wide]

Adding == {"create", "add", "unique", "refer", "isolate", "grant", "role", "widen"}
Taking == {"drop", "remove", "ununique", "unrefer", "revoke", "droprole", "narrow"}

\* A schema is given by its fields.
LEMMA SameSchema ==
  ASSUME NEW a, NEW b, IsSchema(a), IsSchema(b),
         a.tables = b.tables, a.links = b.links, a.keys = b.keys, a.columns = b.columns,
         a.isolated = b.isolated, a.privileges = b.privileges, a.role = b.role, a.wide = b.wide
  PROVE  a = b
BY Zenon DEF IsSchema

\* What one statement does to the fields of a schema.
Fields(a, tables, links, keys, columns, isolated, privileges, role, wide) ==
  /\ a.tables = tables /\ a.links = links /\ a.keys = keys /\ a.columns = columns
  /\ a.isolated = isolated /\ a.privileges = privileges /\ a.role = role /\ a.wide = wide

\* What each kind of statement changes in a schema; all other parts stay.
LEMMA AppliedFields ==
  ASSUME NEW a, IsSchema(a), NEW s, s.do \in Adding \union Taking
  PROVE  /\ IsSchema(S!Applied(a, s))
         /\ s.do = "create" => Fields(S!Applied(a, s),
              a.tables \union {s.table}, a.links \union S!LinksOf(s),
              a.keys \union S!KeysOf(s), a.columns, a.isolated, a.privileges, a.role, a.wide)
         /\ s.do = "add" => Fields(S!Applied(a, s),
              a.tables, a.links, a.keys, a.columns \union {<<s.table, s.column>>}, a.isolated,
              a.privileges, a.role, a.wide)
         /\ s.do = "unique" => Fields(S!Applied(a, s),
              a.tables, a.links, a.keys \union {<<s.table, s.columns>>}, a.columns, a.isolated,
              a.privileges, a.role, a.wide)
         /\ s.do = "refer" => Fields(S!Applied(a, s),
              a.tables, a.links \union {s.link}, a.keys, a.columns, a.isolated, a.privileges,
              a.role, a.wide)
         /\ s.do = "isolate" => Fields(S!Applied(a, s),
              a.tables, a.links, a.keys, a.columns, a.isolated \union {s.table},
              a.privileges \union ({s.table} \X S!Everything), a.role, a.wide)
         /\ s.do = "grant" => Fields(S!Applied(a, s),
              a.tables, a.links, a.keys, a.columns, a.isolated,
              a.privileges \union ({s.table} \X s.what), a.role, a.wide)
         /\ s.do = "role" => Fields(S!Applied(a, s),
              a.tables, a.links, a.keys, a.columns, a.isolated, a.privileges, TRUE, a.wide)
         /\ s.do = "widen" => Fields(S!Applied(a, s),
              a.tables, a.links, a.keys, a.columns, a.isolated, a.privileges, a.role,
              a.wide \union {<<s.table, s.column>>})
         /\ s.do = "drop" => Fields(S!Applied(a, s),
              a.tables \ {s.table}, {l \in a.links : l[1] # s.table},
              {k \in a.keys : k[1] # s.table}, {x \in a.columns : x[1] # s.table},
              a.isolated \ {s.table}, {p \in a.privileges : p[1] # s.table}, a.role,
              {x \in a.wide : x[1] # s.table})
         /\ s.do = "remove" => Fields(S!Applied(a, s),
              a.tables, {l \in a.links : <<l[1], l[2]>> # <<s.table, s.column>>}, a.keys,
              a.columns \ {<<s.table, s.column>>}, a.isolated, a.privileges, a.role, a.wide)
         /\ s.do = "ununique" => Fields(S!Applied(a, s),
              a.tables, a.links, a.keys \ {<<s.table, s.columns>>}, a.columns, a.isolated,
              a.privileges, a.role, a.wide)
         /\ s.do = "unrefer" => Fields(S!Applied(a, s),
              a.tables, a.links \ {s.link}, a.keys, a.columns, a.isolated, a.privileges,
              a.role, a.wide)
         /\ s.do = "revoke" => Fields(S!Applied(a, s),
              a.tables, a.links, a.keys, a.columns, a.isolated,
              a.privileges \ ({s.table} \X s.what), a.role, a.wide)
         /\ s.do = "droprole" => Fields(S!Applied(a, s),
              a.tables, a.links, a.keys, a.columns, a.isolated, a.privileges, FALSE, a.wide)
         /\ s.do = "narrow" => Fields(S!Applied(a, s),
              a.tables, a.links, a.keys, a.columns, a.isolated, a.privileges, a.role,
              a.wide \ {<<s.table, s.column>>})
<1>1. PICK b : b = S!Applied(a, s)
  OBVIOUS
<1>2. CASE s.do = "create"
  <2>1. b = [a EXCEPT !.tables = @ \union {s.table}, !.links = @ \union S!LinksOf(s),
            !.keys = @ \union S!KeysOf(s)]
    BY <1>1, <1>2, Zenon DEF S!Applied
  <2>2. IsSchema(b) /\ Fields(b, a.tables \union {s.table}, a.links \union S!LinksOf(s),
               a.keys \union S!KeysOf(s), a.columns, a.isolated, a.privileges, a.role, a.wide)
    BY <2>1, Zenon DEF Fields, IsSchema
  <2>3. QED
    BY <1>1, <1>2, <2>2, Zenon
<1>3. CASE s.do = "add"
  <2>1. b = [a EXCEPT !.columns = @ \union {<<s.table, s.column>>}]
    BY <1>1, <1>3, Zenon DEF S!Applied
  <2>2. IsSchema(b) /\ Fields(b, a.tables, a.links, a.keys, a.columns \union {<<s.table,
               s.column>>}, a.isolated, a.privileges, a.role, a.wide)
    BY <2>1, Zenon DEF Fields, IsSchema
  <2>3. QED
    BY <1>1, <1>3, <2>2, Zenon
<1>4. CASE s.do = "unique"
  <2>1. b = [a EXCEPT !.keys = @ \union {<<s.table, s.columns>>}]
    BY <1>1, <1>4, Zenon DEF S!Applied
  <2>2. IsSchema(b) /\ Fields(b, a.tables, a.links, a.keys \union {<<s.table, s.columns>>},
               a.columns, a.isolated, a.privileges, a.role, a.wide)
    BY <2>1, Zenon DEF Fields, IsSchema
  <2>3. QED
    BY <1>1, <1>4, <2>2, Zenon
<1>5. CASE s.do = "refer"
  <2>1. b = [a EXCEPT !.links = @ \union {s.link}]
    BY <1>1, <1>5, Zenon DEF S!Applied
  <2>2. IsSchema(b) /\ Fields(b, a.tables, a.links \union {s.link}, a.keys, a.columns, a.isolated,
               a.privileges, a.role, a.wide)
    BY <2>1, Zenon DEF Fields, IsSchema
  <2>3. QED
    BY <1>1, <1>5, <2>2, Zenon
<1>6. CASE s.do = "isolate"
  <2>1. b = [a EXCEPT !.isolated = @ \union {s.table},
            !.privileges = @ \union ({s.table} \X S!Everything)]
    BY <1>1, <1>6, Zenon DEF S!Applied
  <2>2. IsSchema(b) /\ Fields(b, a.tables, a.links, a.keys, a.columns, a.isolated \union {s.table},
               a.privileges \union ({s.table} \X S!Everything), a.role, a.wide)
    BY <2>1, Zenon DEF Fields, IsSchema
  <2>3. QED
    BY <1>1, <1>6, <2>2, Zenon
<1>7. CASE s.do = "grant"
  <2>1. b = [a EXCEPT !.privileges = @ \union ({s.table} \X s.what)]
    BY <1>1, <1>7, Zenon DEF S!Applied
  <2>2. IsSchema(b) /\ Fields(b, a.tables, a.links, a.keys, a.columns, a.isolated,
               a.privileges \union ({s.table} \X s.what), a.role, a.wide)
    BY <2>1, Zenon DEF Fields, IsSchema
  <2>3. QED
    BY <1>1, <1>7, <2>2, Zenon
<1>8. CASE s.do = "role"
  <2>1. b = [a EXCEPT !.role = TRUE]
    BY <1>1, <1>8, Zenon DEF S!Applied
  <2>2. IsSchema(b) /\ Fields(b, a.tables, a.links, a.keys, a.columns, a.isolated, a.privileges,
               TRUE, a.wide)
    BY <2>1, Zenon DEF Fields, IsSchema
  <2>3. QED
    BY <1>1, <1>8, <2>2, Zenon
<1>9. CASE s.do = "widen"
  <2>1. b = [a EXCEPT !.wide = @ \union {<<s.table, s.column>>}]
    BY <1>1, <1>9, Zenon DEF S!Applied
  <2>2. IsSchema(b) /\ Fields(b, a.tables, a.links, a.keys, a.columns, a.isolated, a.privileges,
               a.role, a.wide \union {<<s.table, s.column>>})
    BY <2>1, Zenon DEF Fields, IsSchema
  <2>3. QED
    BY <1>1, <1>9, <2>2, Zenon
<1>10. CASE s.do = "drop"
  <2>1. b = S!Without(a, s.table)
    BY <1>1, <1>10, Zenon DEF S!Applied
  <2>2. IsSchema(b) /\ Fields(b, a.tables \ {s.table}, {l \in a.links : l[1] # s.table},
               {k \in a.keys : k[1] # s.table}, {x \in a.columns : x[1] # s.table},
               a.isolated \ {s.table}, {p \in a.privileges : p[1] # s.table}, a.role,
               {x \in a.wide : x[1] # s.table})
    BY <2>1, Zenon DEF Fields, IsSchema, S!Without
  <2>3. QED
    BY <1>1, <1>10, <2>2, Zenon
<1>11. CASE s.do = "remove"
  <2>1. b = [a EXCEPT !.columns = @ \ {<<s.table, s.column>>}, !.links = {l \in @ : <<l[1],
            l[2]>> # <<s.table, s.column>>}]
    BY <1>1, <1>11, Zenon DEF S!Applied
  <2>2. IsSchema(b) /\ Fields(b, a.tables, {l \in a.links : <<l[1], l[2]>> # <<s.table, s.column>>},
               a.keys, a.columns \ {<<s.table, s.column>>}, a.isolated, a.privileges, a.role,
               a.wide)
    BY <2>1, Zenon DEF Fields, IsSchema
  <2>3. QED
    BY <1>1, <1>11, <2>2, Zenon
<1>12. CASE s.do = "ununique"
  <2>1. b = [a EXCEPT !.keys = @ \ {<<s.table, s.columns>>}]
    BY <1>1, <1>12, Zenon DEF S!Applied
  <2>2. IsSchema(b) /\ Fields(b, a.tables, a.links, a.keys \ {<<s.table, s.columns>>}, a.columns,
               a.isolated, a.privileges, a.role, a.wide)
    BY <2>1, Zenon DEF Fields, IsSchema
  <2>3. QED
    BY <1>1, <1>12, <2>2, Zenon
<1>13. CASE s.do = "unrefer"
  <2>1. b = [a EXCEPT !.links = @ \ {s.link}]
    BY <1>1, <1>13, Zenon DEF S!Applied
  <2>2. IsSchema(b) /\ Fields(b, a.tables, a.links \ {s.link}, a.keys, a.columns, a.isolated,
               a.privileges, a.role, a.wide)
    BY <2>1, Zenon DEF Fields, IsSchema
  <2>3. QED
    BY <1>1, <1>13, <2>2, Zenon
<1>14. CASE s.do = "revoke"
  <2>1. b = [a EXCEPT !.privileges = @ \ ({s.table} \X s.what)]
    BY <1>1, <1>14, Zenon DEF S!Applied
  <2>2. IsSchema(b) /\ Fields(b, a.tables, a.links, a.keys, a.columns, a.isolated,
               a.privileges \ ({s.table} \X s.what), a.role, a.wide)
    BY <2>1, Zenon DEF Fields, IsSchema
  <2>3. QED
    BY <1>1, <1>14, <2>2, Zenon
<1>15. CASE s.do = "droprole"
  <2>1. b = [a EXCEPT !.role = FALSE]
    BY <1>1, <1>15, Zenon DEF S!Applied
  <2>2. IsSchema(b) /\ Fields(b, a.tables, a.links, a.keys, a.columns, a.isolated, a.privileges,
               FALSE, a.wide)
    BY <2>1, Zenon DEF Fields, IsSchema
  <2>3. QED
    BY <1>1, <1>15, <2>2, Zenon
<1>16. CASE s.do = "narrow"
  <2>1. b = [a EXCEPT !.wide = @ \ {<<s.table, s.column>>}]
    BY <1>1, <1>16, Zenon DEF S!Applied
  <2>2. IsSchema(b) /\ Fields(b, a.tables, a.links, a.keys, a.columns, a.isolated, a.privileges,
               a.role, a.wide \ {<<s.table, s.column>>})
    BY <2>1, Zenon DEF Fields, IsSchema
  <2>3. QED
    BY <1>1, <1>16, <2>2, Zenon
<1>17. QED
  BY <1>2, <1>3, <1>4, <1>5, <1>6, <1>7, <1>8, <1>9, <1>10, <1>11, <1>12, <1>13,
     <1>14, <1>15, <1>16, Zenon DEF Adding, Taking

-----------------------------------------------------------------------------
(* The scripts, statement by statement.                                    *)

\* s is a sequence of n elements.
IsList(s, n) == DOMAIN s = 1..n /\ Len(s) = n /\ s = [i \in 1..n |-> s[i]]

\* list is made of the m elements of s and the n elements of t.
IsJoined(list, s, t, m, n) ==
  /\ IsList(list, m + n)
  /\ \A i \in 1..m : list[i] = s[i]
  /\ \A i \in 1..n : list[m + i] = t[i]

\* The members of two lists one after the other.
LEMMA Joined ==
  ASSUME NEW s, NEW t, NEW m \in Nat, NEW n \in Nat, IsList(s, m), IsList(t, n)
  PROVE  IsJoined(s \o t, s, t, m, n)
<1> DEFINE all == {s[i] : i \in 1..m} \union {t[i] : i \in 1..n}
<1>1. s \in Seq(all) /\ t \in Seq(all)
  <2>1. s \in [1..m -> all] /\ t \in [1..n -> all]
    BY DEF IsList
  <2> HIDE DEF all
  <2>2. QED
    BY <2>1, SeqDef
<1> HIDE DEF all
<1>2. /\ s \o t \in Seq(all) /\ Len(s \o t) = m + n
      /\ \A i \in 1..(m + n) : (s \o t)[i] = IF i <= m THEN s[i] ELSE t[i - m]
  <2>1. Len(s) = m /\ Len(t) = n
    BY DEF IsList
  <2>2. /\ s \o t \in Seq(all) /\ Len(s \o t) = Len(s) + Len(t)
        /\ \A i \in 1..(Len(s) + Len(t)) : (s \o t)[i] = IF i <= Len(s) THEN s[i] ELSE t[i - Len(s)]
    BY <1>1, ConcatProperties
  <2>3. QED
    BY <2>1, <2>2
<1>3. DOMAIN (s \o t) = 1..(m + n) /\ s \o t = [i \in 1..(m + n) |-> (s \o t)[i]]
  BY <1>2, LenProperties
<1>4. \A i \in 1..n : m + i \in 1..(m + n) /\ ~ (m + i <= m) /\ (m + i) - m = i
  OBVIOUS
<1>5. \A i \in 1..m : i \in 1..(m + n) /\ i <= m
  OBVIOUS
<1>6. QED
  BY <1>2, <1>3, <1>4, <1>5 DEF IsList, IsJoined

\* The same statement for each of a list of tables.
IsOnEach(list, do, names, n) ==
  IsList(list, n) /\ \A i \in 1..n : list[i] = [do |-> do, table |-> names[i]]

\* The same statement on each table of a list.
LEMMA OnEachList ==
  ASSUME NEW names, NEW n \in Nat, IsList(names, n), NEW do
  PROVE  IsOnEach(S!OnEach(do, names), do, names, n)
BY DEF IsList, S!OnEach, IsOnEach

\* list has the n elements of s from the last to the first.
IsReversed(list, s, n) == IsList(list, n) /\ \A i \in 1..n : list[i] = s[n - i + 1]

\* The members of a list backwards.
LEMMA Reversed ==
  ASSUME NEW s, NEW n \in Nat, IsList(s, n)
  PROVE  IsReversed(S!Reverse(s), s, n)
BY DEF IsList, S!Reverse, IsReversed

\* A script that creates tables and then puts tables under row level security.
GuardedScript(script, made, names, m, n) ==
  /\ IsList(script, m + n)
  /\ \A x \in 1..m : script[x] = made[x]
  /\ \A x \in 1..n : script[m + x] = [do |-> "isolate", table |-> names[x]]

\* A script that creates tables and then isolates those of a list, member by member.
LEMMA Guarded ==
  ASSUME NEW made, NEW names, NEW m \in Nat, NEW n \in Nat, IsList(made, m), IsList(names, n)
  PROVE  GuardedScript(made \o S!Isolate(names), made, names, m, n)
<1>1. PICK iso : iso = S!OnEach("isolate", names)
  OBVIOUS
<1>2. IsOnEach(iso, "isolate", names, n)
  BY <1>1, OnEachList, Zenon
<1>3. IsJoined(made \o iso, made, iso, m, n)
  BY <1>2, Joined, Zenon DEF IsOnEach
<1>4. made \o S!Isolate(names) = made \o iso
  BY <1>1, Zenon DEF S!Isolate
<1>5. GuardedScript(made \o iso, made, names, m, n)
  BY <1>2, <1>3 DEF GuardedScript, IsJoined, IsOnEach
<1>6. QED
  BY <1>4, <1>5, Zenon

\* The tables in the order in which the upgrades create them.
Creation == [p \in 1..49 |->
  IF p <= 8 THEN S!InitialIdentity[p] ELSE IF p <= 15 THEN S!InitialCases[p - 8]
  ELSE IF p = 16 THEN S!ProvenanceUp[1] ELSE IF p <= 18 THEN S!CommunicationsUp[p - 16]
  ELSE IF p = 19 THEN S!CaseDocumentsUp[1] ELSE IF p <= 21 THEN S!ConnectorsUp[p - 19]
  ELSE IF p <= 23 THEN S!BankUp[p - 21] ELSE IF p = 24 THEN S!FailuresUp[1]
  ELSE IF p <= 28 THEN S!V1Connected[p - 24] ELSE IF p <= 36 THEN S!V1Actions[p - 28]
  ELSE IF p <= 41 THEN S!V2Predictions[p - 35] ELSE IF p <= 48 THEN S!V2Automation[p - 41]
  ELSE S!SessionsUp[1]]

\* Where the statements of each upgrade that create tables stand in the order of creation.
LEMMA CreationBlocks ==
  /\ \A i \in 1..8 : Creation[i] = S!InitialIdentity[i]
  /\ \A i \in 1..7 : Creation[8 + i] = S!InitialCases[i]
  /\ Creation[16] = S!ProvenanceUp[1]
  /\ \A i \in 1..2 : Creation[16 + i] = S!CommunicationsUp[i]
  /\ Creation[19] = S!CaseDocumentsUp[1]
  /\ \A i \in 1..2 : Creation[19 + i] = S!ConnectorsUp[i]
  /\ \A i \in 1..2 : Creation[21 + i] = S!BankUp[i]
  /\ Creation[24] = S!FailuresUp[1]
  /\ \A i \in 1..4 : Creation[24 + i] = S!V1Connected[i]
  /\ \A i \in 1..8 : Creation[28 + i] = S!V1Actions[i]
  /\ \A i \in 1..5 : Creation[36 + i] = S!V2Predictions[1 + i]
  /\ \A i \in 1..7 : Creation[41 + i] = S!V2Automation[i]
  /\ Creation[49] = S!SessionsUp[1]
BY DEF Creation

\* The upgrade to revision 2, statement by statement.
LEMMA ProvenanceList ==
  /\ IsList(S!ProvenanceUp, 2)
  /\ S!ProvenanceUp[1] = S!Owned("document_sources", {<<"document_id", "documents">>}, {})
  /\ S!ProvenanceUp[2] = [do |-> "isolate", table |-> "document_sources"]
<1> DEFINE made == <<S!Owned("document_sources", {<<"document_id", "documents">>}, {})>>
           names == <<"document_sources">>
<1>1. IsList(made, 1) /\ IsList(names, 1)
  BY DEF IsList
<1>2. S!ProvenanceUp = made \o S!Isolate(names)
  BY Zenon DEF S!ProvenanceUp
<1>3. GuardedScript(S!ProvenanceUp, made, names, 1, 1)
  <2> HIDE DEF made, names
  <2>1. 1 \in Nat
    OBVIOUS
  <2>2. QED
    BY <1>1, <1>2, <2>1, Guarded, Zenon
<1>4. QED
  BY <1>3 DEF GuardedScript

\* The upgrade to revision 3, statement by statement.
LEMMA CommunicationsList ==
  /\ IsList(S!CommunicationsUp, 4)
  /\ S!CommunicationsUp[1] = S!Owned("communications", {}, S!Scoped({"provider", "external_id"}))
  /\ S!CommunicationsUp[2] = S!Owned("communication_attachments",
            {<<"communication_id", "communications">>, <<"document_id", "documents">>},
            S!Scoped({"communication_id", "external_id"}))
  /\ S!CommunicationsUp[3] = [do |-> "isolate", table |-> "communications"]
  /\ S!CommunicationsUp[4] = [do |-> "isolate", table |-> "communication_attachments"]
<1> DEFINE made == <<S!Owned("communications", {}, S!Scoped({"provider", "external_id"})),
             S!Owned("communication_attachments",
            {<<"communication_id", "communications">>, <<"document_id", "documents">>},
            S!Scoped({"communication_id", "external_id"}))>>
           names == <<"communications", "communication_attachments">>
<1>1. IsList(made, 2) /\ IsList(names, 2)
  BY DEF IsList
<1>2. S!CommunicationsUp = made \o S!Isolate(names)
  BY Zenon DEF S!CommunicationsUp
<1>3. GuardedScript(S!CommunicationsUp, made, names, 2, 2)
  <2> HIDE DEF made, names
  <2>1. 2 \in Nat
    OBVIOUS
  <2>2. QED
    BY <1>1, <1>2, <2>1, Guarded, Zenon
<1>4. QED
  BY <1>3 DEF GuardedScript

\* The upgrade to revision 4, statement by statement.
LEMMA CaseDocumentsList ==
  /\ IsList(S!CaseDocumentsUp, 2)
  /\ S!CaseDocumentsUp[1] = S!Owned("case_documents",
         {<<"case_id", "payment_cases">>, <<"document_id", "documents">>},
            S!Scoped({"case_id", "document_id"}))
  /\ S!CaseDocumentsUp[2] = [do |-> "isolate", table |-> "case_documents"]
<1> DEFINE made == <<S!Owned("case_documents",
       {<<"case_id", "payment_cases">>, <<"document_id", "documents">>},
            S!Scoped({"case_id", "document_id"}))>>
           names == <<"case_documents">>
<1>1. IsList(made, 1) /\ IsList(names, 1)
  BY DEF IsList
<1>2. S!CaseDocumentsUp = made \o S!Isolate(names)
  BY Zenon DEF S!CaseDocumentsUp
<1>3. GuardedScript(S!CaseDocumentsUp, made, names, 1, 1)
  <2> HIDE DEF made, names
  <2>1. 1 \in Nat
    OBVIOUS
  <2>2. QED
    BY <1>1, <1>2, <2>1, Guarded, Zenon
<1>4. QED
  BY <1>3 DEF GuardedScript

\* The upgrade to revision 6, statement by statement.
LEMMA ConnectorsList ==
  /\ IsList(S!ConnectorsUp, 4)
  /\ S!ConnectorsUp[1] = S!Owned("connector_credentials", {}, S!Scoped({"provider", "account"}))
  /\ S!ConnectorsUp[2] = S!Owned("connector_cursors", {}, S!Scoped({"provider", "account"}))
  /\ S!ConnectorsUp[3] = [do |-> "isolate", table |-> "connector_credentials"]
  /\ S!ConnectorsUp[4] = [do |-> "isolate", table |-> "connector_cursors"]
<1> DEFINE made == <<S!Owned("connector_credentials", {}, S!Scoped({"provider", "account"})),
             S!Owned("connector_cursors", {}, S!Scoped({"provider", "account"}))>>
           names == <<"connector_credentials", "connector_cursors">>
<1>1. IsList(made, 2) /\ IsList(names, 2)
  BY DEF IsList
<1>2. S!ConnectorsUp = made \o S!Isolate(names)
  BY Zenon DEF S!ConnectorsUp
<1>3. GuardedScript(S!ConnectorsUp, made, names, 2, 2)
  <2> HIDE DEF made, names
  <2>1. 2 \in Nat
    OBVIOUS
  <2>2. QED
    BY <1>1, <1>2, <2>1, Guarded, Zenon
<1>4. QED
  BY <1>3 DEF GuardedScript

\* The upgrade to revision 7, statement by statement.
LEMMA BankList ==
  /\ IsList(S!BankUp, 4)
  /\ S!BankUp[1] = S!Owned("bank_transactions", {}, S!Scoped({"source_fingerprint"}))
  /\ S!BankUp[2] = S!Owned("payment_allocations",
            {<<"transaction_id", "bank_transactions">>, <<"invoice_id", "invoices">>},
            S!Scoped({"transaction_id", "invoice_id"}))
  /\ S!BankUp[3] = [do |-> "isolate", table |-> "bank_transactions"]
  /\ S!BankUp[4] = [do |-> "isolate", table |-> "payment_allocations"]
<1> DEFINE made == <<S!Owned("bank_transactions", {}, S!Scoped({"source_fingerprint"})),
             S!Owned("payment_allocations",
            {<<"transaction_id", "bank_transactions">>, <<"invoice_id", "invoices">>},
            S!Scoped({"transaction_id", "invoice_id"}))>>
           names == <<"bank_transactions", "payment_allocations">>
<1>1. IsList(made, 2) /\ IsList(names, 2)
  BY DEF IsList
<1>2. S!BankUp = made \o S!Isolate(names)
  BY Zenon DEF S!BankUp
<1>3. GuardedScript(S!BankUp, made, names, 2, 2)
  <2> HIDE DEF made, names
  <2>1. 2 \in Nat
    OBVIOUS
  <2>2. QED
    BY <1>1, <1>2, <2>1, Guarded, Zenon
<1>4. QED
  BY <1>3 DEF GuardedScript

\* The upgrade to revision 8, statement by statement.
LEMMA FailuresList ==
  /\ IsList(S!FailuresUp, 2)
  /\ S!FailuresUp[1] = S!Owned("failure_records", {}, {})
  /\ S!FailuresUp[2] = [do |-> "isolate", table |-> "failure_records"]
<1> DEFINE made == <<S!Owned("failure_records", {}, {})>>
           names == <<"failure_records">>
<1>1. IsList(made, 1) /\ IsList(names, 1)
  BY DEF IsList
<1>2. S!FailuresUp = made \o S!Isolate(names)
  BY Zenon DEF S!FailuresUp
<1>3. GuardedScript(S!FailuresUp, made, names, 1, 1)
  <2> HIDE DEF made, names
  <2>1. 1 \in Nat
    OBVIOUS
  <2>2. QED
    BY <1>1, <1>2, <2>1, Guarded, Zenon
<1>4. QED
  BY <1>3 DEF GuardedScript

InitialGuarded == <<"audit_entries", "customers", "documents", "idempotency_records", "memberships",
                    "outbox_events", "payment_cases", "approvals", "blockers", "evidence_spans",
                    "invoices", "case_invoices", "draft_actions">>
InitialRights ==
  <<[do |-> "revoke", table |-> "audit_entries", what |-> {"UPDATE", "DELETE"}],
    [do |-> "grant", table |-> "tenants", what |-> {"SELECT", "INSERT", "UPDATE"}],
    [do |-> "grant", table |-> "users", what |-> {"SELECT", "INSERT", "UPDATE"}]>>

\* The upgrade to revision 1: tables, the role, their isolation and three changes of rights.
LEMMA InitialList ==
  /\ IsList(S!Upgrades[1], 32)
  /\ \A i \in 1..8 : S!Upgrades[1][i] = S!InitialIdentity[i]
  /\ \A i \in 1..7 : S!Upgrades[1][8 + i] = S!InitialCases[i]
  /\ S!Upgrades[1][16] = [do |-> "role"]
  /\ \A i \in 1..13 : S!Upgrades[1][16 + i] = [do |-> "isolate", table |-> InitialGuarded[i]]
  /\ \A i \in 1..3 : S!Upgrades[1][29 + i] = InitialRights[i]
<1>1. /\ IsList(S!InitialIdentity, 8) /\ IsList(S!InitialCases, 7)
      /\ IsList(InitialGuarded, 13) /\ IsList(InitialRights, 3)
  BY DEF IsList, S!InitialIdentity, S!InitialCases, InitialGuarded, InitialRights
<1>2. PICK made : made = S!InitialIdentity \o S!InitialCases
  OBVIOUS
<1>3. PICK role : role = <<[do |-> "role"]>>
  OBVIOUS
<1>4. PICK guards : guards = S!OnEach("isolate", InitialGuarded)
  OBVIOUS
<1>5. IsList(role, 1) /\ role[1] = [do |-> "role"]
  BY <1>3 DEF IsList
<1>6. IsOnEach(guards, "isolate", InitialGuarded, 13)
  BY <1>1, <1>4, OnEachList, 13 \in Nat, Zenon
<1>7. IsJoined(made, S!InitialIdentity, S!InitialCases, 8, 7)
  BY <1>1, <1>2, Joined, 8 \in Nat, 7 \in Nat, Zenon
<1>8. PICK front : front = role \o guards
  OBVIOUS
<1>9. IsJoined(front, role, guards, 1, 13)
  BY <1>5, <1>6, <1>8, Joined, 1 \in Nat, 13 \in Nat, Zenon DEF IsOnEach
<1>10. PICK security : security = front \o InitialRights
  OBVIOUS
<1>11. IsJoined(security, front, InitialRights, 14, 3)
  <2>1. IsList(front, 14)
    BY <1>9 DEF IsJoined
  <2>2. QED
    BY <1>1, <1>10, <2>1, Joined, 14 \in Nat, 3 \in Nat, Zenon
<1>12. IsJoined(made \o security, made, security, 15, 17)
  <2>1. IsList(made, 15) /\ IsList(security, 17)
    BY <1>7, <1>11 DEF IsJoined
  <2>2. QED
    BY <2>1, Joined, 15 \in Nat, 17 \in Nat, Zenon
<1>13. S!Upgrades[1] = made \o security
  <2>1. S!Upgrades[1] = S!InitialIdentity \o S!InitialCases \o S!InitialSecurity
    BY DEF S!Upgrades
  <2>2. S!InitialSecurity = security
    BY <1>3, <1>4, <1>8, <1>10, Zenon DEF S!InitialSecurity, S!Isolate, InitialGuarded, InitialRights
  <2>3. QED
    BY <1>2, <2>1, <2>2, Zenon
<1>14. PICK all : all = S!Upgrades[1]
  OBVIOUS
<1>15. IsJoined(all, made, security, 15, 17)
  BY <1>12, <1>13, <1>14, Zenon
<1>16. IsList(all, 32)
  BY <1>15 DEF IsJoined
<1>17. \A i \in 1..8 : all[i] = S!InitialIdentity[i]
  BY <1>7, <1>15 DEF IsJoined
<1>18. \A i \in 1..7 : all[8 + i] = S!InitialCases[i]
  BY <1>7, <1>15 DEF IsJoined
<1>19. \A i \in 1..17 : all[15 + i] = security[i]
  BY <1>15 DEF IsJoined
<1>20. all[16] = [do |-> "role"]
  BY <1>5, <1>9, <1>11, <1>19 DEF IsJoined
<1>21. \A i \in 1..13 : all[16 + i] = [do |-> "isolate", table |-> InitialGuarded[i]]
  <2> SUFFICES ASSUME NEW i \in 1..13 PROVE all[16 + i] = [do |-> "isolate", table |-> InitialGuarded[i]]
    OBVIOUS
  <2>1. 16 + i = 15 + (1 + i) /\ 1 + i \in 1..17 /\ 1 + i \in 1..14
    OBVIOUS
  <2>2. all[16 + i] = security[1 + i]
    BY <1>19, <2>1
  <2>3. security[1 + i] = guards[i]
    BY <1>9, <1>11, <2>1 DEF IsJoined
  <2>4. QED
    BY <1>6, <2>2, <2>3 DEF IsOnEach
<1>22. \A i \in 1..3 : all[29 + i] = InitialRights[i]
  <2> SUFFICES ASSUME NEW i \in 1..3 PROVE all[29 + i] = InitialRights[i]
    OBVIOUS
  <2>1. 29 + i = 15 + (14 + i) /\ 14 + i \in 1..17
    OBVIOUS
  <2>2. all[29 + i] = security[14 + i]
    BY <1>19, <2>1
  <2>3. QED
    BY <1>11, <2>2 DEF IsJoined
<1>23. QED
  BY <1>14, <1>16, <1>17, <1>18, <1>20, <1>21, <1>22, Zenon

\* list is made of the elements of three, or four, sequences.
IsJoined3(list, s, t, u, m, n, p) ==
  /\ IsList(list, m + n + p)
  /\ \A i \in 1..m : list[i] = s[i]
  /\ \A i \in 1..n : list[m + i] = t[i]
  /\ \A i \in 1..p : list[m + n + i] = u[i]
IsJoined4(list, s, t, u, v, m, n, p, q) ==
  /\ IsList(list, m + n + p + q)
  /\ \A i \in 1..m : list[i] = s[i]
  /\ \A i \in 1..n : list[m + i] = t[i]
  /\ \A i \in 1..p : list[m + n + i] = u[i]
  /\ \A i \in 1..q : list[m + n + p + i] = v[i]

\* The members of three lists one after the other.
LEMMA Joined3 ==
  ASSUME NEW s, NEW t, NEW u, NEW m \in Nat, NEW n \in Nat, NEW p \in Nat,
         IsList(s, m), IsList(t, n), IsList(u, p)
  PROVE  IsJoined3(s \o t \o u, s, t, u, m, n, p)
<1>1. PICK front, list : front = s \o t /\ list = front \o u
  OBVIOUS
<1>2. IsJoined(front, s, t, m, n) /\ m + n \in Nat
  BY <1>1, Joined
<1>3. IsJoined(list, front, u, m + n, p)
  <2>1. IsList(front, m + n)
    BY <1>2 DEF IsJoined
  <2>2. QED
    BY <1>1, <1>2, <2>1, Joined, Zenon
<1>4. \A i \in 1..m : i \in 1..(m + n)
  OBVIOUS
<1>5. \A i \in 1..n : m + i \in 1..(m + n)
  OBVIOUS
<1>6. IsJoined3(list, s, t, u, m, n, p)
  BY <1>2, <1>3, <1>4, <1>5 DEF IsJoined, IsJoined3
<1>7. QED
  BY <1>1, <1>6

\* The members of four lists one after the other.
LEMMA Joined4 ==
  ASSUME NEW s, NEW t, NEW u, NEW v, NEW m \in Nat, NEW n \in Nat, NEW p \in Nat, NEW q \in Nat,
         IsList(s, m), IsList(t, n), IsList(u, p), IsList(v, q)
  PROVE  IsJoined4(s \o t \o u \o v, s, t, u, v, m, n, p, q)
<1>1. PICK front, list : front = s \o t \o u /\ list = front \o v
  OBVIOUS
<1>2. IsJoined3(front, s, t, u, m, n, p) /\ m + n + p \in Nat
  BY <1>1, Joined3
<1>3. IsJoined(list, front, v, m + n + p, q)
  <2>1. IsList(front, m + n + p)
    BY <1>2 DEF IsJoined3
  <2>2. QED
    BY <1>1, <1>2, <2>1, Joined, Zenon
<1>4. \A i \in 1..m : i \in 1..(m + n + p)
  OBVIOUS
<1>5. \A i \in 1..n : m + i \in 1..(m + n + p)
  OBVIOUS
<1>6. \A i \in 1..p : m + n + i \in 1..(m + n + p)
  OBVIOUS
<1>7. /\ IsList(list, m + n + p + q)
      /\ \A i \in 1..m : list[i] = s[i]
      /\ \A i \in 1..n : list[m + i] = t[i]
  BY <1>2, <1>3, <1>4, <1>5 DEF IsJoined, IsJoined3
<1>8. /\ \A i \in 1..p : list[m + n + i] = u[i]
      /\ \A i \in 1..q : list[m + n + p + i] = v[i]
  BY <1>2, <1>3, <1>6 DEF IsJoined, IsJoined3
<1>9. IsJoined4(list, s, t, u, v, m, n, p, q)
  BY <1>7, <1>8 DEF IsJoined4
<1>10. QED
  BY <1>1, <1>9

\* The upgrade to revision 9: columns, tables and their isolation.
LEMMA V1List ==
  /\ IsList(S!V1Up, 29)
  /\ \A i \in 1..6 : S!V1Up[i] = S!V1Columns[i]
  /\ \A i \in 1..4 : S!V1Up[6 + i] = S!V1Connected[i]
  /\ \A i \in 1..8 : S!V1Up[10 + i] = S!V1Actions[i]
  /\ \A i \in 1..11 : S!V1Up[18 + i] = [do |-> "isolate", table |-> S!V1Tables[i]]
<1>1. /\ IsList(S!V1Columns, 6) /\ IsList(S!V1Connected, 4) /\ IsList(S!V1Actions, 8)
      /\ IsList(S!V1Tables, 11)
  BY DEF IsList, S!V1Columns, S!V1Connected, S!V1Actions, S!V1Tables
<1>2. PICK guards : guards = S!OnEach("isolate", S!V1Tables)
  OBVIOUS
<1>3. IsOnEach(guards, "isolate", S!V1Tables, 11)
  BY <1>1, <1>2, OnEachList, 11 \in Nat, Zenon
<1>4. PICK all : all = S!V1Up
  OBVIOUS
<1>5. IsJoined4(all, S!V1Columns, S!V1Connected, S!V1Actions, guards, 6, 4, 8, 11)
  <2>1. all = S!V1Columns \o S!V1Connected \o S!V1Actions \o guards
    BY <1>2, <1>4, Zenon DEF S!V1Up, S!Isolate
  <2>2. QED
    BY <1>1, <1>3, <2>1, Joined4, 6 \in Nat, 4 \in Nat, 8 \in Nat, 11 \in Nat, Zenon DEF IsOnEach
<1>6. QED
  BY <1>3, <1>4, <1>5 DEF IsJoined4, IsOnEach

\* The upgrade to revision 10: a column, tables and their isolation.
LEMMA V2List ==
  /\ IsList(S!V2Up, 25)
  /\ \A i \in 1..6 : S!V2Up[i] = S!V2Predictions[i]
  /\ \A i \in 1..7 : S!V2Up[6 + i] = S!V2Automation[i]
  /\ \A i \in 1..12 : S!V2Up[13 + i] = [do |-> "isolate", table |-> S!V2Tables[i]]
<1>1. IsList(S!V2Predictions, 6) /\ IsList(S!V2Automation, 7) /\ IsList(S!V2Tables, 12)
  BY DEF IsList, S!V2Predictions, S!V2Automation, S!V2Tables
<1>2. PICK guards : guards = S!OnEach("isolate", S!V2Tables)
  OBVIOUS
<1>3. IsOnEach(guards, "isolate", S!V2Tables, 12)
  BY <1>1, <1>2, OnEachList, 12 \in Nat, Zenon
<1>4. PICK all : all = S!V2Up
  OBVIOUS
<1>5. IsJoined3(all, S!V2Predictions, S!V2Automation, guards, 6, 7, 12)
  <2>1. all = S!V2Predictions \o S!V2Automation \o guards
    BY <1>2, <1>4, Zenon DEF S!V2Up, S!Isolate
  <2>2. QED
    BY <1>1, <1>3, <2>1, Joined3, 6 \in Nat, 7 \in Nat, 12 \in Nat, Zenon DEF IsOnEach
<1>6. QED
  BY <1>3, <1>4, <1>5 DEF IsJoined3, IsOnEach

\* The upgrade to revision 11, statement by statement.
LEMMA SessionsList ==
  /\ IsList(S!SessionsUp, 2)
  /\ S!SessionsUp[1] = S!Table("portfolio_sessions",
                       {<<"tenant_id", "tenants">>, <<"user_id", "users">>}, {{"token_hash"}})
  /\ S!SessionsUp[2] = [do |-> "widen", table |-> "connector_cursors", column |-> "cursor"]
BY DEF IsList, S!SessionsUp, S!Column

\* The upgrade to revision 5 and the way back, statement by statement.
LEMMA DraftKeyList ==
  /\ IsList(S!DraftKeyUp, 2) /\ IsList(S!DraftKeyDown, 2)
  /\ S!DraftKeyUp[1] = S!Key("ununique", "draft_actions", {"idempotency_key"})
  /\ S!DraftKeyUp[2] = S!Key("unique", "draft_actions", {"tenant_id", "idempotency_key"})
  /\ S!DraftKeyDown[1] = S!Key("ununique", "draft_actions", {"tenant_id", "idempotency_key"})
  /\ S!DraftKeyDown[2] = S!Key("unique", "draft_actions", {"idempotency_key"})
BY DEF IsList, S!DraftKeyUp, S!DraftKeyDown

\* The keys of the parents and the links of the tenants, one statement for each.
LEMMA OwnershipLists ==
  ASSUME NEW do
  PROVE  /\ IsList(S!ParentKeys(do), 11) /\ IsList(S!TenantLinks(do), 27)
         /\ \A i \in 1..11 : S!ParentKeys(do)[i] = S!Key(do, S!Parents[i], S!TenantKey)
         /\ \A i \in 1..27 : S!TenantLinks(do)[i] =
              S!Link(do, S!Relationships[i][1], S!Relationships[i][2], S!Relationships[i][3], "tenant")
<1>1. IsList(S!Parents, 11)
  BY DEF IsList, S!Parents
<1>2. IsList(S!Relationships, 27)
  BY DEF IsList, S!Relationships
<1>3. S!ParentKeys(do) = [i \in 1..11 |-> S!Key(do, S!Parents[i], S!TenantKey)]
  BY <1>1, Zenon DEF IsList, S!ParentKeys
<1>4. S!TenantLinks(do) = [i \in 1..27 |->
              S!Link(do, S!Relationships[i][1], S!Relationships[i][2], S!Relationships[i][3], "tenant")]
  BY <1>2, Zenon DEF IsList, S!TenantLinks
<1>5. QED
  BY <1>3, <1>4 DEF IsList

\* The upgrade to revision 12: the keys first, then the links that need them.
LEMMA OwnershipList ==
  /\ IsList(S!OwnershipUp, 38)
  /\ \A i \in 1..11 : S!OwnershipUp[i] = S!Key("unique", S!Parents[i], S!TenantKey)
  /\ \A i \in 1..27 : S!OwnershipUp[11 + i] =
       S!Link("refer", S!Relationships[i][1], S!Relationships[i][2], S!Relationships[i][3], "tenant")
<1>1. PICK keys, links, all : /\ keys = S!ParentKeys("unique") /\ links = S!TenantLinks("refer")
                              /\ all = S!OwnershipUp
  OBVIOUS
<1>2. /\ IsList(keys, 11) /\ IsList(links, 27)
      /\ \A i \in 1..11 : keys[i] = S!Key("unique", S!Parents[i], S!TenantKey)
      /\ \A i \in 1..27 : links[i] =
           S!Link("refer", S!Relationships[i][1], S!Relationships[i][2], S!Relationships[i][3], "tenant")
  BY <1>1, OwnershipLists
<1>3. IsJoined(all, keys, links, 11, 27)
  <2>1. all = keys \o links
    BY <1>1, Zenon DEF S!OwnershipUp
  <2>2. QED
    BY <1>2, <2>1, Joined, 11 \in Nat, 27 \in Nat, Zenon
<1>4. QED
  BY <1>1, <1>2, <1>3 DEF IsJoined

Dropping(name) == [do |-> "drop", table |-> name]

\* The downgrade of revision 2, statement by statement.
LEMMA ProvenanceDownList ==
  /\ IsList(S!ProvenanceDown, 1)
  /\ S!ProvenanceDown[1] = Dropping("document_sources")
BY DEF IsList, S!ProvenanceDown, S!Drops, S!OnEach, Dropping

\* The downgrade of revision 3, statement by statement.
LEMMA CommunicationsDownList ==
  /\ IsList(S!CommunicationsDown, 2)
  /\ S!CommunicationsDown[1] = Dropping("communication_attachments")
  /\ S!CommunicationsDown[2] = Dropping("communications")
BY DEF IsList, S!CommunicationsDown, S!Drops, S!OnEach, Dropping

\* The downgrade of revision 4, statement by statement.
LEMMA CaseDocumentsDownList ==
  /\ IsList(S!CaseDocumentsDown, 1)
  /\ S!CaseDocumentsDown[1] = Dropping("case_documents")
BY DEF IsList, S!CaseDocumentsDown, S!Drops, S!OnEach, Dropping

\* The downgrade of revision 6, statement by statement.
LEMMA ConnectorsDownList ==
  /\ IsList(S!ConnectorsDown, 2)
  /\ S!ConnectorsDown[1] = Dropping("connector_cursors")
  /\ S!ConnectorsDown[2] = Dropping("connector_credentials")
BY DEF IsList, S!ConnectorsDown, S!Drops, S!OnEach, Dropping

\* The downgrade of revision 7, statement by statement.
LEMMA BankDownList ==
  /\ IsList(S!BankDown, 2)
  /\ S!BankDown[1] = Dropping("payment_allocations")
  /\ S!BankDown[2] = Dropping("bank_transactions")
BY DEF IsList, S!BankDown, S!Drops, S!OnEach, Dropping

\* The downgrade of revision 8, statement by statement.
LEMMA FailuresDownList ==
  /\ IsList(S!FailuresDown, 1)
  /\ S!FailuresDown[1] = Dropping("failure_records")
BY DEF IsList, S!FailuresDown, S!Drops, S!OnEach, Dropping

InitialDrops == <<"draft_actions", "case_invoices", "invoices", "evidence_spans", "blockers",
            "approvals", "payment_cases", "outbox_events", "memberships", "idempotency_records",
            "documents", "customers", "audit_entries", "users", "tenants">>

\* The downgrade of revision 1: its tables go, then the role.
LEMMA InitialDownList ==
  /\ IsList(S!InitialDown, 16)
  /\ \A i \in 1..15 : S!InitialDown[i] = Dropping(InitialDrops[i])
  /\ S!InitialDown[16] = [do |-> "droprole"]
<1>1. IsList(InitialDrops, 15)
  BY DEF IsList, InitialDrops
<1>2. PICK drops, last, all : /\ drops = S!OnEach("drop", InitialDrops)
                              /\ last = <<[do |-> "droprole"]>> /\ all = S!InitialDown
  OBVIOUS
<1>3. IsOnEach(drops, "drop", InitialDrops, 15)
  BY <1>1, <1>2, OnEachList, 15 \in Nat, Zenon
<1>4. IsList(last, 1) /\ last[1] = [do |-> "droprole"]
  BY <1>2 DEF IsList
<1>5. IsJoined(all, drops, last, 15, 1)
  <2>1. all = drops \o last
    BY <1>2, Zenon DEF S!InitialDown, S!Drops, InitialDrops
  <2>2. QED
    BY <1>3, <1>4, <2>1, Joined, 15 \in Nat, 1 \in Nat, Zenon DEF IsOnEach
<1>6. QED
  BY <1>2, <1>3, <1>4, <1>5 DEF IsJoined, IsOnEach, Dropping

\* The tables of V1, the last one first, and the one that the application role cannot see.
V1Drops == S!Reverse(S!V1Tables) \o <<"llm_pricing">>
V1Restores == <<S!Column("remove", "payment_allocations", "reversal_reason"),
         S!Column("remove", "payment_allocations", "reversed_by"),
         S!Column("remove", "bank_transactions", "correction_version"),
         S!Link("unrefer", "bank_transactions", "reversal_of_id", "bank_transactions", "id"),
         S!Column("remove", "bank_transactions", "reversal_of_id"),
         S!Column("remove", "bank_transactions", "transaction_type")>>

\* The downgrade of revision 9: its tables go, the price list last, then the columns and the link.
LEMMA V1DownList ==
  /\ IsList(S!V1Down, 18) /\ IsList(V1Drops, 12)
  /\ \A i \in 1..11 : V1Drops[i] = S!V1Tables[12 - i]
  /\ V1Drops[12] = "llm_pricing"
  /\ \A i \in 1..12 : S!V1Down[i] = Dropping(V1Drops[i])
  /\ \A i \in 1..6 : S!V1Down[12 + i] = V1Restores[i]
<1>1. IsList(S!V1Tables, 11) /\ IsList(V1Restores, 6)
  BY DEF IsList, S!V1Tables, V1Restores
<1>2. PICK back, last, names, drops, all :
         /\ back = S!Reverse(S!V1Tables) /\ last = <<"llm_pricing">> /\ names = V1Drops
         /\ drops = S!OnEach("drop", V1Drops) /\ all = S!V1Down
  OBVIOUS
<1>3. IsReversed(back, S!V1Tables, 11)
  BY <1>1, <1>2, Reversed, 11 \in Nat, Zenon
<1>4. IsList(last, 1) /\ last[1] = "llm_pricing"
  BY <1>2 DEF IsList
<1>5. IsJoined(names, back, last, 11, 1)
  <2>1. names = back \o last
    BY <1>2, Zenon DEF V1Drops
  <2>2. QED
    BY <1>3, <1>4, <2>1, Joined, 11 \in Nat, 1 \in Nat, Zenon DEF IsReversed
<1>6. IsOnEach(drops, "drop", names, 12)
  <2>1. IsList(names, 12)
    BY <1>5 DEF IsJoined
  <2>2. QED
    BY <1>2, <2>1, OnEachList, 12 \in Nat, Zenon
<1>7. IsJoined(all, drops, V1Restores, 12, 6)
  <2>1. all = drops \o V1Restores
    BY <1>2, Zenon DEF S!V1Down, S!Drops, V1Drops, V1Restores
  <2>2. QED
    BY <1>1, <1>6, <2>1, Joined, 12 \in Nat, 6 \in Nat, Zenon DEF IsOnEach
<1>8. \A i \in 1..11 : names[i] = S!V1Tables[12 - i]
  <2>1. \A i \in 1..11 : 11 - i + 1 = 12 - i
    OBVIOUS
  <2>2. QED
    BY <1>3, <1>5, <2>1 DEF IsJoined, IsReversed
<1>9. names[12] = "llm_pricing" /\ IsList(names, 12)
  BY <1>4, <1>5 DEF IsJoined
<1>10. /\ IsList(all, 18)
       /\ \A i \in 1..12 : all[i] = Dropping(names[i])
       /\ \A i \in 1..6 : all[12 + i] = V1Restores[i]
  BY <1>6, <1>7 DEF IsJoined, IsOnEach, Dropping
<1>11. QED
  BY <1>2, <1>8, <1>9, <1>10

\* The downgrade of revision 10: its tables go, then the column.
LEMMA V2DownList ==
  /\ IsList(S!V2Down, 13)
  /\ \A i \in 1..12 : S!V2Down[i] = Dropping(S!V2Tables[13 - i])
  /\ S!V2Down[13] = S!Column("remove", "invoices", "account_owner")
<1>1. IsList(S!V2Tables, 12)
  BY DEF IsList, S!V2Tables
<1>2. PICK back, last, drops, all :
         /\ back = S!Reverse(S!V2Tables) /\ drops = S!OnEach("drop", back) /\ all = S!V2Down
         /\ last = <<S!Column("remove", "invoices", "account_owner")>>
  OBVIOUS
<1>3. IsReversed(back, S!V2Tables, 12)
  BY <1>1, <1>2, Reversed, 12 \in Nat, Zenon
<1>4. IsList(last, 1) /\ last[1] = S!Column("remove", "invoices", "account_owner")
  BY <1>2 DEF IsList
<1>5. IsOnEach(drops, "drop", back, 12)
  BY <1>2, <1>3, OnEachList, 12 \in Nat, Zenon DEF IsReversed
<1>6. IsJoined(all, drops, last, 12, 1)
  <2>1. all = drops \o last
    BY <1>2, Zenon DEF S!V2Down, S!Drops
  <2>2. QED
    BY <1>4, <1>5, <2>1, Joined, 12 \in Nat, 1 \in Nat, Zenon DEF IsOnEach
<1>7. \A i \in 1..12 : drops[i] = Dropping(S!V2Tables[13 - i])
  <2>1. \A i \in 1..12 : 12 - i + 1 = 13 - i
    OBVIOUS
  <2>2. QED
    BY <1>3, <1>5, <2>1 DEF IsOnEach, IsReversed, Dropping
<1>8. QED
  BY <1>2, <1>4, <1>6, <1>7 DEF IsJoined

\* The downgrade of revision 11, statement by statement.
LEMMA SessionsDownList ==
  /\ IsList(S!SessionsDown, 2)
  /\ S!SessionsDown[1] = [do |-> "narrow", table |-> "connector_cursors", column |-> "cursor"]
  /\ S!SessionsDown[2] = Dropping("portfolio_sessions")
<1>1. PICK first, drops, all :
         /\ first = <<S!Column("narrow", "connector_cursors", "cursor")>>
         /\ drops = S!Drops(<<"portfolio_sessions">>) /\ all = S!SessionsDown
  OBVIOUS
<1>2. IsList(first, 1) /\ first[1] = [do |-> "narrow", table |-> "connector_cursors", column |-> "cursor"]
  BY <1>1 DEF IsList, S!Column
<1>3. IsList(drops, 1) /\ drops[1] = Dropping("portfolio_sessions")
  BY <1>1 DEF IsList, S!Drops, S!OnEach, Dropping
<1>4. IsJoined(all, first, drops, 1, 1)
  <2>1. all = first \o drops
    BY <1>1, Zenon DEF S!SessionsDown
  <2>2. QED
    BY <1>2, <1>3, <2>1, Joined, 1 \in Nat, Zenon
<1>5. QED
  BY <1>1, <1>2, <1>3, <1>4 DEF IsJoined

\* The downgrade of revision 12: the links backwards, then the keys backwards.
LEMMA OwnershipDownList ==
  /\ IsList(S!OwnershipDown, 38)
  /\ \A i \in 1..27 : S!OwnershipDown[i] = S!Link("unrefer", S!Relationships[28 - i][1],
                          S!Relationships[28 - i][2], S!Relationships[28 - i][3], "tenant")
  /\ \A i \in 1..11 : S!OwnershipDown[27 + i] = S!Key("ununique", S!Parents[12 - i], S!TenantKey)
<1>1. PICK keys, links, back, last, all :
         /\ keys = S!ParentKeys("ununique") /\ links = S!TenantLinks("unrefer")
         /\ back = S!Reverse(links) /\ last = S!Reverse(keys) /\ all = S!OwnershipDown
  OBVIOUS
<1>2. /\ IsList(keys, 11) /\ IsList(links, 27)
      /\ \A i \in 1..11 : keys[i] = S!Key("ununique", S!Parents[i], S!TenantKey)
      /\ \A i \in 1..27 : links[i] =
           S!Link("unrefer", S!Relationships[i][1], S!Relationships[i][2], S!Relationships[i][3], "tenant")
  BY <1>1, OwnershipLists
<1>3. IsReversed(back, links, 27) /\ IsReversed(last, keys, 11)
  BY <1>1, <1>2, Reversed, 27 \in Nat, 11 \in Nat, Zenon
<1>4. IsJoined(all, back, last, 27, 11)
  <2>1. all = back \o last
    BY <1>1, Zenon DEF S!OwnershipDown
  <2>2. QED
    BY <1>3, <2>1, Joined, 27 \in Nat, 11 \in Nat, Zenon DEF IsReversed
<1>5. /\ \A i \in 1..27 : 28 - i \in 1..27 /\ 27 - i + 1 = 28 - i
      /\ \A i \in 1..11 : 12 - i \in 1..11 /\ 11 - i + 1 = 12 - i
  OBVIOUS
<1>6. \A i \in 1..27 : all[i] = links[28 - i]
  BY <1>3, <1>4, <1>5 DEF IsJoined, IsReversed
<1>7. \A i \in 1..11 : all[27 + i] = keys[12 - i]
  BY <1>3, <1>4, <1>5 DEF IsJoined, IsReversed
<1>8. IsList(all, 38)
  BY <1>4 DEF IsJoined
<1>9. QED
  BY <1>1, <1>2, <1>5, <1>6, <1>7, <1>8

-----------------------------------------------------------------------------
(* The tables in the order in which the upgrades create them.              *)

\* The place of each table.
Place == [tenants |-> 1, users |-> 2, audit_entries |-> 3, customers |-> 4, documents |-> 5,
  idempotency_records |-> 6, memberships |-> 7, outbox_events |-> 8, payment_cases |-> 9,
  approvals |-> 10, blockers |-> 11, evidence_spans |-> 12, invoices |-> 13, case_invoices |-> 14,
  draft_actions |-> 15, document_sources |-> 16, communications |-> 17,
  communication_attachments |-> 18, case_documents |-> 19, connector_credentials |-> 20,
  connector_cursors |-> 21, bank_transactions |-> 22, payment_allocations |-> 23,
  failure_records |-> 24, connector_configs |-> 25, external_record_maps |-> 26,
  inbox_events |-> 27, payment_rules |-> 28, zalo_templates |-> 29, notification_actions |-> 30,
  bulk_approval_batches |-> 31, bulk_approval_items |-> 32, forecast_snapshots |-> 33,
  llm_pricing |-> 34, llm_usage_events |-> 35, llm_quality_metrics |-> 36,
  feature_definitions |-> 37, feature_snapshots |-> 38, model_registry |-> 39,
  prediction_runs |-> 40, prediction_records |-> 41, automation_policies |-> 42,
  automation_decisions |-> 43, dispute_root_causes |-> 44, escalation_recommendations |-> 45,
  customer_behavior_snapshots |-> 46, account_manager_benchmarks |-> 47, derived_job_runs |-> 48,
  portfolio_sessions |-> 49]
Names == DOMAIN Place

\* The columns that later migrations add and remove again.
Later == {"transaction_type", "reversal_of_id", "correction_version", "reversed_by",
          "reversal_reason", "account_owner"}

\* s creates the table at place p: it refers to earlier tables only, by none of the later
\* columns, and has no key of a tenant and an id; the prices (34) neither refer nor are referred to.
IsCreation(s, p) ==
  /\ s.do = "create" /\ s.table \in Names /\ Place[s.table] = p
  /\ \A r \in s.refs : r[2] \in Names /\ Place[r[2]] < p /\ Place[r[2]] # 34 /\ p # 34
                        /\ r[1] \notin Later
  /\ \A k \in s.keys : "id" \notin k

\* The tables of the identities stand at places 1 to 8, each after all that it refers to.
LEMMA IdentityCreated == \A i \in 1..8 : IsCreation(S!InitialIdentity[i], i)
BY SMTT(30) DEF IsCreation, Names, Place, Later, S!InitialIdentity, S!Owned, S!Table, S!Scoped

\* The tables of the cases stand at places 9 to 15, each after all that it refers to.
LEMMA CasesCreated == \A i \in 1..7 : IsCreation(S!InitialCases[i], 8 + i)
BY SMTT(30) DEF IsCreation, Names, Place, Later, S!InitialCases, S!Owned, S!Table, S!Scoped

\* The tables of the connectors stand at places 25 to 28, each after all that it refers to.
LEMMA ConnectedCreated == \A i \in 1..4 : IsCreation(S!V1Connected[i], 24 + i)
BY SMTT(30) DEF IsCreation, Names, Place, Later, S!V1Connected, S!Inbox, S!Owned, S!Table, S!Scoped

\* The tables of the actions stand at places 29 to 36, each after all that it refers to.
LEMMA ActionsCreated == \A i \in 1..8 : IsCreation(S!V1Actions[i], 28 + i)
BY SMTT(30) DEF IsCreation, Names, Place, Later, S!V1Actions, S!Owned, S!Table, S!Scoped

\* The tables of the predictions stand at places 37 to 41, each after all that it refers to.
LEMMA PredictionsCreated == \A i \in 1..5 : IsCreation(S!V2Predictions[1 + i], 36 + i)
BY SMTT(30) DEF IsCreation, Names, Place, Later, S!V2Predictions, S!Column, S!Owned, S!Table, S!Scoped

\* The tables of the automation stand at places 42 to 48, each after all that it refers to.
LEMMA AutomationCreated == \A i \in 1..7 : IsCreation(S!V2Automation[i], 41 + i)
BY SMTT(30) DEF IsCreation, Names, Place, Later, S!V2Automation, S!Owned, S!Table, S!Scoped

\* The tables of the smaller upgrades stand at their places, each after all that it refers to.
LEMMA SmallCreated ==
  /\ IsCreation(S!ProvenanceUp[1], 16) /\ IsCreation(S!CommunicationsUp[1], 17)
  /\ IsCreation(S!CommunicationsUp[2], 18) /\ IsCreation(S!CaseDocumentsUp[1], 19)
  /\ IsCreation(S!ConnectorsUp[1], 20) /\ IsCreation(S!ConnectorsUp[2], 21)
  /\ IsCreation(S!BankUp[1], 22) /\ IsCreation(S!BankUp[2], 23)
  /\ IsCreation(S!FailuresUp[1], 24) /\ IsCreation(S!SessionsUp[1], 49)
<1>1. IsCreation(S!ProvenanceUp[1], 16)
  BY ProvenanceList DEF IsCreation, Names, Place, Later, S!Owned, S!Table, S!Scoped
<1>2. IsCreation(S!CommunicationsUp[1], 17)
  BY CommunicationsList DEF IsCreation, Names, Place, Later, S!Owned, S!Table, S!Scoped
<1>3. IsCreation(S!CommunicationsUp[2], 18)
  BY CommunicationsList DEF IsCreation, Names, Place, Later, S!Owned, S!Table, S!Scoped
<1>4. IsCreation(S!CaseDocumentsUp[1], 19)
  BY CaseDocumentsList DEF IsCreation, Names, Place, Later, S!Owned, S!Table, S!Scoped
<1>5. IsCreation(S!ConnectorsUp[1], 20)
  BY ConnectorsList DEF IsCreation, Names, Place, Later, S!Owned, S!Table, S!Scoped
<1>6. IsCreation(S!ConnectorsUp[2], 21)
  BY ConnectorsList DEF IsCreation, Names, Place, Later, S!Owned, S!Table, S!Scoped
<1>7. IsCreation(S!BankUp[1], 22)
  BY BankList DEF IsCreation, Names, Place, Later, S!Owned, S!Table, S!Scoped
<1>8. IsCreation(S!BankUp[2], 23)
  BY BankList DEF IsCreation, Names, Place, Later, S!Owned, S!Table, S!Scoped
<1>9. IsCreation(S!FailuresUp[1], 24)
  BY FailuresList DEF IsCreation, Names, Place, Later, S!Owned, S!Table, S!Scoped
<1>10. IsCreation(S!SessionsUp[1], 49)
  BY SessionsList DEF IsCreation, Names, Place, Later, S!Owned, S!Table, S!Scoped
<1>11. QED
  BY <1>1, <1>2, <1>3, <1>4, <1>5, <1>6, <1>7, <1>8, <1>9, <1>10

\* Every table is created once, after all that it refers to.
LEMMA Created == \A p \in 1..49 : IsCreation(Creation[p], p)
<1>1. /\ \A p \in 1..8 : IsCreation(Creation[p], p)
      /\ \A p \in 9..15 : IsCreation(Creation[p], p)
  BY IdentityCreated, CasesCreated, CreationBlocks
<1>2. \A p \in 16..24 : IsCreation(Creation[p], p)
  BY SmallCreated, CreationBlocks
<1>3. /\ \A p \in 25..28 : IsCreation(Creation[p], p)
      /\ \A p \in 29..36 : IsCreation(Creation[p], p)
  BY ConnectedCreated, ActionsCreated, CreationBlocks
<1>4. /\ \A p \in 37..41 : IsCreation(Creation[p], p)
      /\ \A p \in 42..48 : IsCreation(Creation[p], p)
  BY PredictionsCreated, AutomationCreated, CreationBlocks
<1>5. IsCreation(Creation[49], 49)
  BY SmallCreated, CreationBlocks
<1>6. QED
  BY <1>1, <1>2, <1>3, <1>4, <1>5

\* The table at place p.
Name(p) == Creation[p].table

\* The name of the table at each place.
LEMMA Named ==
  /\ Name(1) = "tenants" /\ Name(2) = "users" /\ Name(3) = "audit_entries"
  /\ Name(4) = "customers" /\ Name(5) = "documents" /\ Name(6) = "idempotency_records"
  /\ Name(7) = "memberships" /\ Name(8) = "outbox_events" /\ Name(9) = "payment_cases"
  /\ Name(10) = "approvals" /\ Name(11) = "blockers" /\ Name(12) = "evidence_spans"
  /\ Name(13) = "invoices" /\ Name(14) = "case_invoices" /\ Name(15) = "draft_actions"
  /\ Name(16) = "document_sources" /\ Name(17) = "communications"
  /\ Name(18) = "communication_attachments" /\ Name(19) = "case_documents"
  /\ Name(20) = "connector_credentials" /\ Name(21) = "connector_cursors"
  /\ Name(22) = "bank_transactions" /\ Name(23) = "payment_allocations"
  /\ Name(24) = "failure_records" /\ Name(25) = "connector_configs"
  /\ Name(26) = "external_record_maps" /\ Name(27) = "inbox_events" /\ Name(28) = "payment_rules"
  /\ Name(29) = "zalo_templates" /\ Name(30) = "notification_actions"
  /\ Name(31) = "bulk_approval_batches" /\ Name(32) = "bulk_approval_items"
  /\ Name(33) = "forecast_snapshots" /\ Name(34) = "llm_pricing" /\ Name(35) = "llm_usage_events"
  /\ Name(36) = "llm_quality_metrics" /\ Name(37) = "feature_definitions"
  /\ Name(38) = "feature_snapshots" /\ Name(39) = "model_registry"
  /\ Name(40) = "prediction_runs" /\ Name(41) = "prediction_records"
  /\ Name(42) = "automation_policies" /\ Name(43) = "automation_decisions"
  /\ Name(44) = "dispute_root_causes" /\ Name(45) = "escalation_recommendations"
  /\ Name(46) = "customer_behavior_snapshots" /\ Name(47) = "account_manager_benchmarks"
  /\ Name(48) = "derived_job_runs" /\ Name(49) = "portfolio_sessions"
<1>1. /\ Name(1) = "tenants" /\ Name(2) = "users" /\ Name(3) = "audit_entries"
      /\ Name(4) = "customers" /\ Name(5) = "documents" /\ Name(6) = "idempotency_records"
      /\ Name(7) = "memberships" /\ Name(8) = "outbox_events"
  <2>1. /\ Creation[1] = S!InitialIdentity[1] /\ Creation[2] = S!InitialIdentity[2]
        /\ Creation[3] = S!InitialIdentity[3] /\ Creation[4] = S!InitialIdentity[4]
        /\ Creation[5] = S!InitialIdentity[5] /\ Creation[6] = S!InitialIdentity[6]
        /\ Creation[7] = S!InitialIdentity[7] /\ Creation[8] = S!InitialIdentity[8]
    BY CreationBlocks
  <2>2. QED
    BY <2>1 DEF Name, S!InitialIdentity, S!Owned, S!Table
<1>2. /\ Name(9) = "payment_cases" /\ Name(10) = "approvals" /\ Name(11) = "blockers"
      /\ Name(12) = "evidence_spans" /\ Name(13) = "invoices" /\ Name(14) = "case_invoices"
      /\ Name(15) = "draft_actions"
  <2>1. /\ Creation[9] = S!InitialCases[1] /\ Creation[10] = S!InitialCases[2]
        /\ Creation[11] = S!InitialCases[3] /\ Creation[12] = S!InitialCases[4]
        /\ Creation[13] = S!InitialCases[5] /\ Creation[14] = S!InitialCases[6]
        /\ Creation[15] = S!InitialCases[7]
    BY CreationBlocks
  <2>2. QED
    BY <2>1 DEF Name, S!InitialCases, S!Owned, S!Table
<1>3. /\ Name(25) = "connector_configs" /\ Name(26) = "external_record_maps"
      /\ Name(27) = "inbox_events" /\ Name(28) = "payment_rules"
  <2>1. /\ Creation[25] = S!V1Connected[1] /\ Creation[26] = S!V1Connected[2]
        /\ Creation[27] = S!V1Connected[3] /\ Creation[28] = S!V1Connected[4]
    BY CreationBlocks
  <2>2. QED
    BY <2>1 DEF Name, S!V1Connected, S!Owned, S!Table, S!Inbox
<1>4. /\ Name(29) = "zalo_templates" /\ Name(30) = "notification_actions"
      /\ Name(31) = "bulk_approval_batches" /\ Name(32) = "bulk_approval_items"
      /\ Name(33) = "forecast_snapshots" /\ Name(34) = "llm_pricing"
      /\ Name(35) = "llm_usage_events" /\ Name(36) = "llm_quality_metrics"
  <2>1. /\ Creation[29] = S!V1Actions[1] /\ Creation[30] = S!V1Actions[2]
        /\ Creation[31] = S!V1Actions[3] /\ Creation[32] = S!V1Actions[4]
        /\ Creation[33] = S!V1Actions[5] /\ Creation[34] = S!V1Actions[6]
        /\ Creation[35] = S!V1Actions[7] /\ Creation[36] = S!V1Actions[8]
    BY CreationBlocks
  <2>2. QED
    BY <2>1 DEF Name, S!V1Actions, S!Owned, S!Table
<1>5. /\ Name(37) = "feature_definitions" /\ Name(38) = "feature_snapshots"
      /\ Name(39) = "model_registry" /\ Name(40) = "prediction_runs"
      /\ Name(41) = "prediction_records"
  <2>1. /\ Creation[37] = S!V2Predictions[2] /\ Creation[38] = S!V2Predictions[3]
        /\ Creation[39] = S!V2Predictions[4] /\ Creation[40] = S!V2Predictions[5]
        /\ Creation[41] = S!V2Predictions[6]
    BY CreationBlocks
  <2>2. QED
    BY <2>1 DEF Name, S!V2Predictions, S!Owned, S!Table, S!Column
<1>6. /\ Name(42) = "automation_policies" /\ Name(43) = "automation_decisions"
      /\ Name(44) = "dispute_root_causes" /\ Name(45) = "escalation_recommendations"
      /\ Name(46) = "customer_behavior_snapshots" /\ Name(47) = "account_manager_benchmarks"
      /\ Name(48) = "derived_job_runs"
  <2>1. /\ Creation[42] = S!V2Automation[1] /\ Creation[43] = S!V2Automation[2]
        /\ Creation[44] = S!V2Automation[3] /\ Creation[45] = S!V2Automation[4]
        /\ Creation[46] = S!V2Automation[5] /\ Creation[47] = S!V2Automation[6]
        /\ Creation[48] = S!V2Automation[7]
    BY CreationBlocks
  <2>2. QED
    BY <2>1 DEF Name, S!V2Automation, S!Owned, S!Table
<1>7. Name(16) = "document_sources"
  BY ProvenanceList, CreationBlocks DEF Name, S!Owned, S!Table
<1>8. Name(17) = "communications"
  BY CommunicationsList, CreationBlocks DEF Name, S!Owned, S!Table
<1>9. Name(18) = "communication_attachments"
  BY CommunicationsList, CreationBlocks DEF Name, S!Owned, S!Table
<1>10. Name(19) = "case_documents"
  BY CaseDocumentsList, CreationBlocks DEF Name, S!Owned, S!Table
<1>11. Name(20) = "connector_credentials"
  BY ConnectorsList, CreationBlocks DEF Name, S!Owned, S!Table
<1>12. Name(21) = "connector_cursors"
  BY ConnectorsList, CreationBlocks DEF Name, S!Owned, S!Table
<1>13. Name(22) = "bank_transactions"
  BY BankList, CreationBlocks DEF Name, S!Owned, S!Table
<1>14. Name(23) = "payment_allocations"
  BY BankList, CreationBlocks DEF Name, S!Owned, S!Table
<1>15. Name(24) = "failure_records"
  BY FailuresList, CreationBlocks DEF Name, S!Owned, S!Table
<1>16. Name(49) = "portfolio_sessions"
  BY SessionsList, CreationBlocks DEF Name, S!Owned, S!Table
<1>17. QED
  BY <1>1, <1>2, <1>3, <1>4, <1>5, <1>6, <1>7, <1>8, <1>9, <1>10, <1>11, <1>12, <1>13, <1>14, <1>15, <1>16

\* The names are those of the tables created, each at its place.
LEMMA NamesListed ==
  /\ \A p \in 1..49 : Name(p) \in Names /\ Place[Name(p)] = p
  /\ \A t \in Names : Place[t] \in 1..49 /\ Name(Place[t]) = t
<1>1. \A p \in 1..49 : Name(p) \in Names /\ Place[Name(p)] = p
  BY Created DEF IsCreation, Name
<1>2. \A t \in Names : Place[t] \in 1..49
  BY DEF Names, Place
<1>3. \A t \in Names : Name(Place[t]) = t
  BY Named DEF Names, Place
<1>4. QED
  BY <1>1, <1>2, <1>3

\* The tables up to a place, and the links and keys of those behind a place and up to another.
TablesUpTo(m) == {Name(p) : p \in 1..m}

\* The tables up to a place are those whose place is no later.
LEMMA TablesByPlace ==
  ASSUME NEW m \in 0..49, NEW t
  PROVE  t \in TablesUpTo(m) <=> t \in Names /\ Place[t] <= m
BY NamesListed DEF TablesUpTo

\* A creation fits a database with the earlier tables.
LEMMA CreationFits ==
  ASSUME NEW p \in 1..49, NEW a, a.tables = TablesUpTo(p - 1)
  PROVE  S!Applicable(a, Creation[p])
<1>1. IsCreation(Creation[p], p)
  BY Created
<1>2. Creation[p].table \notin a.tables
  BY <1>1, TablesByPlace DEF IsCreation
<1>3. \A r \in Creation[p].refs : r[2] \in a.tables
  <2> SUFFICES ASSUME NEW r \in Creation[p].refs PROVE r[2] \in a.tables
    OBVIOUS
  <2>1. r[2] \in Names /\ Place[r[2]] < p
    BY <1>1 DEF IsCreation
  <2>2. Place[r[2]] \in 1..49
    BY <2>1, NamesListed
  <2>3. Place[r[2]] <= p - 1 /\ p - 1 \in 0..49
    BY <2>1, <2>2
  <2>4. QED
    BY <2>1, <2>3, TablesByPlace
<1>4. QED
  BY <1>1, <1>2, <1>3 DEF IsCreation, S!Applicable

-----------------------------------------------------------------------------
(* Blocks of statements of a kind.                                         *)

\* Counting up.
LEMMA CountUp ==
  ASSUME NEW n \in Nat, NEW good, 0 \in good, \A j \in 1..n : j - 1 \in good => j \in good
  PROVE  0..n \subseteq good
<1> DEFINE bad == (0..n) \ good
<1>1. SUFFICES ASSUME bad # {} PROVE FALSE
  OBVIOUS
<1>2. PICK j \in bad : \A x \in bad : j <= x
  <2>1. bad \in SUBSET Nat
    OBVIOUS
  <2> HIDE DEF bad
  <2>2. QED
    BY <1>1, <2>1, LeastNat
<1>3. j \in 1..n
  BY <1>2
<1>4. j - 1 \in 0..n /\ j - 1 \notin bad
  BY <1>2, <1>3
<1>5. QED
  BY <1>2, <1>3, <1>4

\* d goes through the c statements of a script behind position m.
Steps(d, m, c, script) == \A j \in 1..c : d[m + j] = S!Applied(d[m + j - 1], script[m + j])
\* Each of them meets a schema that it can be applied to.
Fitting(d, m, c, script) == \A j \in 1..c : S!Applicable(d[m + j - 1], script[m + j])

\* A script goes through its parts, one after the other.
LEMMA StepsSplit ==
  ASSUME NEW d, NEW script, NEW m \in Nat, NEW c \in Nat, NEW e \in Nat
  PROVE  /\ Steps(d, m, c + e, script) => Steps(d, m, c, script) /\ Steps(d, m + c, e, script)
         /\ Fitting(d, m, c, script) /\ Fitting(d, m + c, e, script) => Fitting(d, m, c + e, script)
<1>1. ASSUME Steps(d, m, c + e, script) PROVE Steps(d, m, c, script) /\ Steps(d, m + c, e, script)
  <2>1. \A j \in 1..e : c + j \in 1..(c + e) /\ m + (c + j) = m + c + j
    OBVIOUS
  <2>2. QED
    BY <1>1, <2>1 DEF Steps
<1>2. ASSUME Fitting(d, m, c, script), Fitting(d, m + c, e, script) PROVE Fitting(d, m, c + e, script)
  <2> SUFFICES ASSUME NEW j \in 1..(c + e) PROVE S!Applicable(d[m + j - 1], script[m + j])
    BY DEF Fitting
  <2>1. CASE j <= c
    BY <1>2, <2>1 DEF Fitting
  <2>2. CASE j > c
    <3>1. PICK i \in 1..e : i = j - c
      BY <2>2
    <3>2. m + c + i = m + j /\ m + c + i - 1 = m + j - 1
      BY <3>1
    <3>3. QED
      BY <1>2, <3>2 DEF Fitting
  <2>3. QED
    BY <2>1, <2>2
<1>3. QED
  BY <1>1, <1>2

LinksBetween(lo, hi) == UNION {S!LinksOf(Creation[p]) : p \in (lo + 1)..hi}
KeysBetween(lo, hi) == UNION {S!KeysOf(Creation[p]) : p \in (lo + 1)..hi}

\* s is b with the tables created behind place lo and up to hi.
Built(s, b, lo, hi) ==
  Fields(s, TablesUpTo(hi), b.links \union LinksBetween(lo, hi), b.keys \union KeysBetween(lo, hi),
         b.columns, b.isolated, b.privileges, b.role, b.wide)

\* One more table adds its name, its links and its keys.
LEMMA OneMoreTable ==
  ASSUME NEW lo \in 0..49, NEW hi \in (lo + 1)..49
  PROVE  /\ TablesUpTo(hi) = TablesUpTo(hi - 1) \union {Creation[hi].table}
         /\ LinksBetween(lo, hi) = LinksBetween(lo, hi - 1) \union S!LinksOf(Creation[hi])
         /\ KeysBetween(lo, hi) = KeysBetween(lo, hi - 1) \union S!KeysOf(Creation[hi])
<1>1. (lo + 1)..hi = ((lo + 1)..(hi - 1)) \union {hi} /\ 1..hi = (1..(hi - 1)) \union {hi}
  OBVIOUS
<1>2. QED
  BY <1>1, Zenon DEF LinksBetween, KeysBetween, TablesUpTo, Name

\* Statements that create tables in order apply one after the other and build those tables.
LEMMA CreateBlock ==
  ASSUME NEW d, NEW m \in Nat, NEW lo \in 0..49, NEW c \in 0..(49 - lo), NEW script,
         IsSchema(d[m]), d[m].tables = TablesUpTo(lo), Steps(d, m, c, script),
         \A j \in 1..c : script[m + j] = Creation[lo + j]
  PROVE  /\ IsSchema(d[m + c]) /\ Built(d[m + c], d[m], lo, lo + c)
         /\ Fitting(d, m, c, script)
<1> DEFINE Good(j) == IsSchema(d[m + j]) /\ Built(d[m + j], d[m], lo, lo + j)
           good == {j \in 0..c : Good(j)}
<1>1. 0 \in good
  <2>1. d[m + 0] = d[m] /\ lo + 0 = lo
    OBVIOUS
  <2>2. LinksBetween(lo, lo) = {} /\ KeysBetween(lo, lo) = {}
    BY DEF LinksBetween, KeysBetween
  <2>3. Built(d[m], d[m], lo, lo)
    BY <2>2 DEF Built, Fields
  <2>4. QED
    BY <2>1, <2>3
<1>2. ASSUME NEW j \in 1..c, Good(j - 1)
      PROVE  Good(j) /\ S!Applicable(d[m + j - 1], script[m + j])
  <2>1. PICK s, a, b, p : /\ s = script[m + j] /\ a = d[m + j - 1] /\ b = d[m + j] /\ p = lo + j
    OBVIOUS
  <2>2. /\ m + (j - 1) = m + j - 1 /\ lo + (j - 1) = p - 1 /\ p \in 1..49 /\ p \in (lo + 1)..49
    BY <2>1
  <2>3. IsSchema(a) /\ Built(a, d[m], lo, p - 1)
    BY <1>2, <2>1, <2>2
  <2>4. s = Creation[p] /\ b = S!Applied(a, s)
    BY <2>1 DEF Steps
  <2>5. s.do = "create" /\ s.do \in Adding \union Taking
    BY <2>2, <2>4, Created DEF IsCreation, Adding
  <2>6. /\ IsSchema(b)
        /\ Fields(b, a.tables \union {s.table}, a.links \union S!LinksOf(s),
                  a.keys \union S!KeysOf(s), a.columns, a.isolated, a.privileges, a.role, a.wide)
    BY <2>3, <2>4, <2>5, AppliedFields, Zenon
  <2>7. Built(b, d[m], lo, p)
    <3>1. /\ TablesUpTo(p) = TablesUpTo(p - 1) \union {s.table}
          /\ LinksBetween(lo, p) = LinksBetween(lo, p - 1) \union S!LinksOf(s)
          /\ KeysBetween(lo, p) = KeysBetween(lo, p - 1) \union S!KeysOf(s)
      BY <2>2, <2>4, OneMoreTable
    <3>2. QED
      BY <2>3, <2>6, <3>1 DEF Built, Fields
  <2>8. S!Applicable(a, s)
    <3>1. a.tables = TablesUpTo(p - 1)
      BY <2>3 DEF Built, Fields
    <3>2. QED
      BY <2>2, <2>4, <3>1, CreationFits
  <2>9. QED
    BY <2>1, <2>6, <2>7, <2>8
<1>3. 0..c \subseteq good
  <2>1. \A j \in 1..c : j - 1 \in good => j \in good
    BY <1>2
  <2>2. c \in Nat
    OBVIOUS
  <2> HIDE DEF good
  <2>3. QED
    BY <1>1, <2>1, <2>2, CountUp, Zenon
<1>4. Good(c)
  BY <1>3
<1>5. \A j \in 1..c : S!Applicable(d[m + j - 1], script[m + j])
  <2> SUFFICES ASSUME NEW j \in 1..c PROVE S!Applicable(d[m + j - 1], script[m + j])
    OBVIOUS
  <2>1. j - 1 \in 0..c
    OBVIOUS
  <2>2. Good(j - 1)
    BY <1>3, <2>1
  <2>3. QED
    BY <1>2, <2>2
<1>6. QED
  BY <1>4, <1>5 DEF Fitting

\* The tables of the first c positions of a list.
FirstOf(names, c) == {names[i] : i \in 1..c}

\* s is b with some tables under row level security.
GuardedBy(s, b, tables) ==
  Fields(s, b.tables, b.links, b.keys, b.columns, b.isolated \union tables,
         b.privileges \union (tables \X S!Everything), b.role, b.wide)

\* Statements that isolate distinct unguarded tables apply one after the other and guard them.
LEMMA GuardBlock ==
  ASSUME NEW d, NEW m \in Nat, NEW c \in Nat, NEW script, NEW names,
         IsSchema(d[m]), d[m].role = TRUE, Steps(d, m, c, script),
         \A j \in 1..c : script[m + j] = [do |-> "isolate", table |-> names[j]],
         \A j \in 1..c : names[j] \in d[m].tables /\ names[j] \notin d[m].isolated,
         \A i, j \in 1..c : names[i] = names[j] => i = j
  PROVE  /\ IsSchema(d[m + c]) /\ GuardedBy(d[m + c], d[m], FirstOf(names, c))
         /\ Fitting(d, m, c, script)
<1> DEFINE Good(j) == IsSchema(d[m + j]) /\ GuardedBy(d[m + j], d[m], FirstOf(names, j))
           good == {j \in 0..c : Good(j)}
<1>1. 0 \in good
  <2>1. d[m + 0] = d[m]
    OBVIOUS
  <2>2. FirstOf(names, 0) = {}
    BY DEF FirstOf
  <2>3. GuardedBy(d[m], d[m], {})
    BY DEF GuardedBy, Fields
  <2>4. QED
    BY <2>1, <2>2, <2>3
<1>2. ASSUME NEW j \in 1..c, Good(j - 1)
      PROVE  Good(j) /\ S!Applicable(d[m + j - 1], script[m + j])
  <2>1. PICK s, a, b, t : /\ s = script[m + j] /\ a = d[m + j - 1] /\ b = d[m + j]
                          /\ t = names[j]
    OBVIOUS
  <2>2. m + (j - 1) = m + j - 1
    BY <2>1
  <2>3. IsSchema(a) /\ GuardedBy(a, d[m], FirstOf(names, j - 1))
    BY <1>2, <2>1, <2>2
  <2>4. s.do = "isolate" /\ s.table = t /\ b = S!Applied(a, s)
    <3>1. s = [do |-> "isolate", table |-> t]
      BY <2>1
    <3>2. b = S!Applied(a, s)
      BY <2>1, Zenon DEF Steps
    <3>3. QED
      BY <3>1, <3>2
  <2>5. s.do \in Adding \union Taking
    BY <2>4 DEF Adding
  <2>6. /\ IsSchema(b)
        /\ Fields(b, a.tables, a.links, a.keys, a.columns, a.isolated \union {s.table},
                  a.privileges \union ({s.table} \X S!Everything), a.role, a.wide)
    BY <2>3, <2>4, <2>5, AppliedFields, Zenon
  <2>7. FirstOf(names, j) = FirstOf(names, j - 1) \union {t}
    BY <2>1 DEF FirstOf
  <2>8. GuardedBy(b, d[m], FirstOf(names, j))
    <3>1. PICK before : before = FirstOf(names, j - 1)
      OBVIOUS
    <3>2. GuardedBy(b, d[m], before \union {t})
      BY <2>3, <2>4, <2>6, <3>1 DEF GuardedBy, Fields
    <3>3. QED
      BY <2>7, <3>1, <3>2
  <2>9. S!Applicable(a, s)
    <3>1. a.tables = d[m].tables /\ a.isolated = d[m].isolated \union FirstOf(names, j - 1) /\ a.role = TRUE
      BY <2>3 DEF GuardedBy, Fields
    <3>2. t \notin FirstOf(names, j - 1)
      BY <2>1 DEF FirstOf
    <3>3. t \in a.tables \ a.isolated
      BY <2>1, <3>1, <3>2
    <3>4. QED
      BY <2>4, <3>1, <3>3 DEF S!Applicable
  <2>10. QED
    BY <2>1, <2>6, <2>8, <2>9
<1>3. 0..c \subseteq good
  <2>1. \A j \in 1..c : j - 1 \in good => j \in good
    BY <1>2
  <2> HIDE DEF good
  <2>2. QED
    BY <1>1, <2>1, CountUp, Zenon
<1>4. Good(c)
  BY <1>3
<1>5. \A j \in 1..c : S!Applicable(d[m + j - 1], script[m + j])
  <2> SUFFICES ASSUME NEW j \in 1..c PROVE S!Applicable(d[m + j - 1], script[m + j])
    OBVIOUS
  <2>1. j - 1 \in 0..c
    OBVIOUS
  <2>2. Good(j - 1)
    BY <1>3, <2>1
  <2>3. QED
    BY <1>2, <2>2
<1>6. QED
  BY <1>4, <1>5 DEF Fitting

\* s is b without some tables.
DroppedFrom(s, b, tables) ==
  Fields(s, b.tables \ tables, {l \in b.links : l[1] \notin tables},
         {k \in b.keys : k[1] \notin tables}, {x \in b.columns : x[1] \notin tables},
         b.isolated \ tables, {p \in b.privileges : p[1] \notin tables}, b.role,
         {x \in b.wide : x[1] \notin tables})

\* b is a without the table t.
OneLess(b, a, t) ==
  Fields(b, a.tables \ {t}, {l \in a.links : l[1] # t}, {k \in a.keys : k[1] # t},
         {x \in a.columns : x[1] # t}, a.isolated \ {t}, {p \in a.privileges : p[1] # t}, a.role,
         {x \in a.wide : x[1] # t})

\* A drop takes a table with everything of it away.
LEMMA DropFields ==
  ASSUME NEW a, IsSchema(a), NEW s, s.do = "drop"
  PROVE  IsSchema(S!Applied(a, s)) /\ OneLess(S!Applied(a, s), a, s.table)
<1>1. IsSchema(S!Applied(a, s))
  BY AppliedFields DEF Taking
<1>2. OneLess(S!Applied(a, s), a, s.table)
  BY Zenon DEF S!Applied, S!Without, OneLess, Fields, IsSchema
<1>3. QED
  BY <1>1, <1>2

\* Each of a list of tables can be dropped from a, once those before it are gone.
Droppable(a, names, c) ==
  /\ \A j \in 1..c : names[j] \in a.tables
  /\ \A i, j \in 1..c : names[i] = names[j] => i = j
  /\ \A l \in a.links : \A j \in 1..c :
        l[3] = names[j] => l[1] = l[3] \/ \E i \in 1..(j - 1) : l[1] = names[i]

\* Drops of tables that nothing left refers to apply one after the other and leave the rest.
LEMMA DropBlock ==
  ASSUME NEW d, NEW m \in Nat, NEW c \in Nat, NEW script, NEW names,
         IsSchema(d[m]), Steps(d, m, c, script),
         \A j \in 1..c : script[m + j] = Dropping(names[j]),
         Droppable(d[m], names, c)
  PROVE  /\ IsSchema(d[m + c]) /\ DroppedFrom(d[m + c], d[m], FirstOf(names, c))
         /\ Fitting(d, m, c, script)
<1> DEFINE Good(j) == IsSchema(d[m + j]) /\ DroppedFrom(d[m + j], d[m], FirstOf(names, j))
           good == {j \in 0..c : Good(j)}
<1>1. 0 \in good
  <2>1. d[m + 0] = d[m]
    OBVIOUS
  <2>2. FirstOf(names, 0) = {}
    BY DEF FirstOf
  <2>3. DroppedFrom(d[m], d[m], {})
    BY DEF DroppedFrom, Fields
  <2>4. QED
    BY <2>1, <2>2, <2>3
<1>2. ASSUME NEW j \in 1..c, Good(j - 1)
      PROVE  Good(j) /\ S!Applicable(d[m + j - 1], script[m + j])
  <2>1. PICK s, a, b, t, before :
          /\ s = script[m + j] /\ a = d[m + j - 1] /\ b = d[m + j]
          /\ t = names[j] /\ before = FirstOf(names, j - 1)
    OBVIOUS
  <2>2. m + (j - 1) = m + j - 1
    BY <2>1
  <2>3. IsSchema(a) /\ DroppedFrom(a, d[m], before)
    BY <1>2, <2>1, <2>2
  <2>4. s.do = "drop" /\ s.table = t /\ b = S!Applied(a, s)
    <3>1. s = Dropping(t)
      BY <2>1
    <3>2. b = S!Applied(a, s)
      BY <2>1, Zenon DEF Steps
    <3>3. QED
      BY <3>1, <3>2 DEF Dropping
  <2>5. IsSchema(b) /\ OneLess(b, a, t)
    BY <2>3, <2>4, DropFields
  <2>7. FirstOf(names, j) = before \union {t}
    BY <2>1 DEF FirstOf
  <2>8. DroppedFrom(b, d[m], before \union {t})
    BY <2>3, <2>5 DEF DroppedFrom, OneLess, Fields
  <2>9. S!Applicable(a, s)
    <3>1. a.tables = d[m].tables \ before /\ a.links = {l \in d[m].links : l[1] \notin before}
      BY <2>3 DEF DroppedFrom, Fields
    <3>2. t \notin before /\ \A i \in 1..(j - 1) : names[i] \in before
      BY <2>1 DEF FirstOf, Droppable
    <3>3. t \in a.tables
      BY <2>1, <3>1, <3>2 DEF Droppable
    <3>4. \A l \in a.links : l[3] = t => l[1] = t
      BY <2>1, <3>1, <3>2 DEF Droppable
    <3>5. QED
      BY <2>4, <3>3, <3>4 DEF S!Applicable
  <2>10. IsSchema(b) /\ DroppedFrom(b, d[m], FirstOf(names, j))
    BY <2>5, <2>7, <2>8
  <2>11. QED
    BY <2>1, <2>9, <2>10
<1>3. 0..c \subseteq good
  <2>1. \A j \in 1..c : j - 1 \in good => j \in good
    BY <1>2
  <2> HIDE DEF good
  <2>2. QED
    BY <1>1, <2>1, CountUp, Zenon
<1>4. Good(c)
  BY <1>3
<1>5. \A j \in 1..c : S!Applicable(d[m + j - 1], script[m + j])
  <2> SUFFICES ASSUME NEW j \in 1..c PROVE S!Applicable(d[m + j - 1], script[m + j])
    OBVIOUS
  <2>1. j - 1 \in 0..c
    OBVIOUS
  <2>2. Good(j - 1)
    BY <1>3, <2>1
  <2>3. QED
    BY <1>2, <2>2
<1>6. QED
  BY <1>4, <1>5 DEF Fitting

-----------------------------------------------------------------------------
(* What the links and keys of the tables between two places are.           *)

\* A link, or a key, of a table behind place lo and up to hi; a link refers to an earlier table.
LinkFits(l, lo, hi) ==
  /\ l = <<l[1], l[2], l[3], "id">> /\ l[1] \in Names /\ l[3] \in Names
  /\ lo < Place[l[1]] /\ Place[l[1]] <= hi /\ Place[l[3]] < Place[l[1]]
  /\ Place[l[1]] # 34 /\ Place[l[3]] # 34 /\ l[2] \notin Later /\ l[4] = "id"
KeyFits(k, lo, hi) ==
  /\ k[1] \in Names /\ lo < Place[k[1]] /\ Place[k[1]] <= hi /\ "id" \notin k[2]
  /\ k[1] = "draft_actions" => k = <<"draft_actions", {"idempotency_key"}>>

\* A link created between two places is of a table between them and refers to an earlier one.
LEMMA LinksFit ==
  ASSUME NEW lo \in 0..49, NEW hi \in 0..49, NEW l \in LinksBetween(lo, hi)
  PROVE  LinkFits(l, lo, hi)
<1>1. PICK p \in (lo + 1)..hi : l \in S!LinksOf(Creation[p])
  BY DEF LinksBetween
<1>2. p \in 1..49 /\ lo < p /\ p <= hi
  BY <1>1
<1>3. IsCreation(Creation[p], p)
  BY <1>2, Created
<1>4. PICK s : s = Creation[p]
  OBVIOUS
<1>5. PICK r \in s.refs : l = <<s.table, r[1], r[2], "id">>
  BY <1>1, <1>4 DEF S!LinksOf
<1>6. /\ s.table \in Names /\ Place[s.table] = p /\ r[2] \in Names /\ Place[r[2]] < p
      /\ Place[r[2]] # 34 /\ p # 34 /\ r[1] \notin Later
  BY <1>3, <1>4, <1>5 DEF IsCreation
<1>7. QED
  BY <1>2, <1>5, <1>6 DEF LinkFits

\* The only key with which the drafts are created is the one that all tenants share.
LEMMA DraftCreation == S!KeysOf(Creation[15]) = {<<"draft_actions", {"idempotency_key"}>>}
<1>1. Creation[15] = S!InitialCases[7]
  BY CreationBlocks
<1>2. PICK s : s = S!InitialCases[7]
  OBVIOUS
<1>3. s.table = "draft_actions" /\ s.keys = {{"idempotency_key"}}
  BY <1>2 DEF S!InitialCases, S!Owned, S!Table
<1>4. S!KeysOf(s) = {<<"draft_actions", {"idempotency_key"}>>}
  BY <1>3 DEF S!KeysOf
<1>5. QED
  BY <1>1, <1>2, <1>4

\* A key created between two places is of a table between them.
LEMMA KeysFit ==
  ASSUME NEW lo \in 0..49, NEW hi \in 0..49, NEW k \in KeysBetween(lo, hi)
  PROVE  KeyFits(k, lo, hi)
<1>1. PICK p \in (lo + 1)..hi : k \in S!KeysOf(Creation[p])
  BY DEF KeysBetween
<1>2. p \in 1..49 /\ lo < p /\ p <= hi
  BY <1>1
<1>3. IsCreation(Creation[p], p)
  BY <1>2, Created
<1>4. PICK s : s = Creation[p]
  OBVIOUS
<1>5. PICK y \in s.keys : k = <<s.table, y>>
  BY <1>1, <1>4 DEF S!KeysOf
<1>6. s.table \in Names /\ Place[s.table] = p /\ "id" \notin y
  BY <1>3, <1>4, <1>5 DEF IsCreation
<1>7. k[1] = "draft_actions" => k = <<"draft_actions", {"idempotency_key"}>>
  <2>1. Place["draft_actions"] = 15
    BY DEF Place
  <2>2. k[1] = "draft_actions" => p = 15
    BY <1>5, <1>6, <2>1
  <2>3. QED
    BY <1>1, <2>2, DraftCreation
<1>8. QED
  BY <1>2, <1>5, <1>6, <1>7 DEF KeyFits

\* The links and keys up to a place are those up to an earlier one and those behind it.
LEMMA Between ==
  ASSUME NEW lo \in 0..49, NEW hi \in lo..49
  PROVE  /\ LinksBetween(0, hi) = LinksBetween(0, lo) \union LinksBetween(lo, hi)
         /\ KeysBetween(0, hi) = KeysBetween(0, lo) \union KeysBetween(lo, hi)
         /\ TablesUpTo(lo) \subseteq TablesUpTo(hi)
<1>1. (0 + 1)..hi = ((0 + 1)..lo) \union ((lo + 1)..hi) /\ 1..lo \subseteq 1..hi
  OBVIOUS
<1>2. TablesUpTo(lo) \subseteq TablesUpTo(hi)
  BY <1>1 DEF TablesUpTo
<1>3. QED
  BY <1>1, <1>2, Zenon DEF LinksBetween, KeysBetween

\* Every schema with the tables of the first revision has been given the shared key of the drafts.
LEMMA GlobalThere == ASSUME NEW hi \in 15..49
  PROVE <<"draft_actions", {"idempotency_key"}>> \in KeysBetween(0, hi)
<1>1. 15 \in (0 + 1)..hi
  OBVIOUS
<1>2. QED
  BY <1>1, DraftCreation DEF KeysBetween

-----------------------------------------------------------------------------
(* The schema of each revision.                                            *)

\* How many tables revision r has.
CountAt(r) == IF r = 0 THEN 0 ELSE <<15, 16, 18, 19, 19, 21, 23, 24, 36, 48, 49, 49>>[r]

\* What some revisions have besides tables.
Reversal == <<"bank_transactions", "reversal_of_id", "bank_transactions", "id">>
TenantLink(i) == <<S!Relationships[i][1], S!Relationships[i][2], S!Relationships[i][3], "tenant">>
TenantLinkList == [i \in 1..27 |-> TenantLink(i)]
ParentKeyList == [i \in 1..11 |-> <<S!Parents[i], S!TenantKey>>]
GlobalKey == <<"draft_actions", {"idempotency_key"}>>
OwnKey == <<"draft_actions", {"tenant_id", "idempotency_key"}>>
Unguarded == {"tenants", "users", "llm_pricing", "portfolio_sessions"}
GuardedUpTo(m) == TablesUpTo(m) \ Unguarded
Changing == {<<"audit_entries", "UPDATE">>, <<"audit_entries", "DELETE">>}
IdentityRights == {"tenants", "users"} \X {"SELECT", "INSERT", "UPDATE"}
V1Added == {<<"bank_transactions", "transaction_type">>, <<"bank_transactions", "reversal_of_id">>,
            <<"bank_transactions", "correction_version">>, <<"payment_allocations", "reversed_by">>,
            <<"payment_allocations", "reversal_reason">>}

\* The parts of a schema that has the first n tables and what revision q has besides tables.
LinksWith(n, q) == LinksBetween(0, n) \union (IF q >= 9 THEN {Reversal} ELSE {})
                   \union (IF q = 12 THEN FirstOf(TenantLinkList, 27) ELSE {})
KeysWith(n, q) == (IF q >= 5 THEN (KeysBetween(0, n) \ {GlobalKey}) \union {OwnKey}
                             ELSE KeysBetween(0, n))
                  \union (IF q = 12 THEN FirstOf(ParentKeyList, 11) ELSE {})
ColumnsWith(q) == (IF q >= 9 THEN V1Added ELSE {})
                  \union (IF q >= 10 THEN {<<"invoices", "account_owner">>} ELSE {})
PrivilegesWith(n, q) == ((GuardedUpTo(n) \X S!Everything) \ Changing)
                        \union (IF q > 0 THEN IdentityRights ELSE {})
RoleWith(q) == q > 0
WideWith(q) == IF q >= 11 THEN {<<"connector_cursors", "cursor">>} ELSE {}

Shape(s, n, q) ==
  /\ IsSchema(s)
  /\ Fields(s, TablesUpTo(n), LinksWith(n, q), KeysWith(n, q), ColumnsWith(q), GuardedUpTo(n),
            PrivilegesWith(n, q), RoleWith(q), WideWith(q))
\* The schema of revision r.
IsAt(s, r) == Shape(s, CountAt(r), r)

\* A shape is one schema.
LEMMA OneSchema ==
  ASSUME NEW a, NEW b, NEW n, NEW q, Shape(a, n, q), Shape(b, n, q)
  PROVE  a = b
BY SameSchema DEF Shape, Fields

\* The empty database is at revision 0.
LEMMA NothingAtFirst == IsAt(S!NoSchema, 0)
<1>1. IsSchema(S!NoSchema)
  BY DEF IsSchema, S!NoSchema
<1>2. CountAt(0) = 0 /\ TablesUpTo(0) = {} /\ LinksBetween(0, 0) = {} /\ KeysBetween(0, 0) = {}
  BY DEF CountAt, TablesUpTo, LinksBetween, KeysBetween
<1>3. LinksWith(0, 0) = {} /\ KeysWith(0, 0) = {} /\ ColumnsWith(0) = {} /\ WideWith(0) = {}
  BY <1>2 DEF LinksWith, KeysWith, ColumnsWith, WideWith
<1>4. GuardedUpTo(0) = {} /\ PrivilegesWith(0, 0) = {} /\ RoleWith(0) = FALSE
  BY <1>2 DEF GuardedUpTo, PrivilegesWith, RoleWith
<1>5. Shape(S!NoSchema, 0, 0)
  <2>1. Fields(S!NoSchema, {}, {}, {}, {}, {}, {}, FALSE, {})
    BY DEF Fields, S!NoSchema
  <2>2. QED
    BY <1>1, <1>2, <1>3, <1>4, <2>1 DEF Shape
<1>6. QED
  BY <1>2, <1>5 DEF IsAt

\* Between the revisions 1 to 4, and 5 to 8, only tables change.
LEMMA SameFeatures ==
  ASSUME NEW s, NEW n, NEW q, NEW o, q \in 1..12, o \in 1..12, (q <= 4 <=> o <= 4),
      (q <= 8 <=> o <= 8), q <= 8,
         Shape(s, n, q)
  PROVE  Shape(s, n, o)
<1>1. /\ LinksWith(n, q) = LinksWith(n, o) /\ KeysWith(n, q) = KeysWith(n, o)
      /\ ColumnsWith(q) = ColumnsWith(o) /\ WideWith(q) = WideWith(o)
  BY DEF LinksWith, KeysWith, ColumnsWith, WideWith
<1>2. PrivilegesWith(n, q) = PrivilegesWith(n, o) /\ RoleWith(q) = RoleWith(o)
  BY DEF PrivilegesWith, RoleWith
<1>3. QED
  BY <1>1, <1>2 DEF Shape

-----------------------------------------------------------------------------
(* New tables, and their removal.                                          *)

\* The tables behind place lo and up to hi.
Above(lo, hi) == {Name(p) : p \in (lo + 1)..hi}

\* The tables between two places are those whose place is between them.
LEMMA AboveByPlace ==
  ASSUME NEW lo \in 0..49, NEW hi \in 0..49, NEW t
  PROVE  t \in Above(lo, hi) <=> t \in Names /\ lo < Place[t] /\ Place[t] <= hi
<1>1. \A p \in (lo + 1)..hi : p \in 1..49
  OBVIOUS
<1>2. QED
  BY <1>1, NamesListed, SMTT(30) DEF Above

\* The places of the tables that a revision treats in a way of its own.
LEMMA PlacesKnown ==
  /\ Place["tenants"] = 1 /\ Place["users"] = 2 /\ Place["audit_entries"] = 3
  /\ Place["draft_actions"] = 15 /\ Place["connector_cursors"] = 21
  /\ Place["bank_transactions"] = 22 /\ Place["payment_allocations"] = 23
  /\ Place["invoices"] = 13 /\ Place["llm_pricing"] = 34 /\ Place["portfolio_sessions"] = 49
  /\ {"tenants", "users", "audit_entries", "draft_actions", "connector_cursors", "bank_transactions",
      "payment_allocations", "invoices", "llm_pricing", "portfolio_sessions"} \subseteq Names
BY DEF Place, Names

\* How the parts of a schema grow with its tables.
Grows(lo, hi, q) ==
  /\ TablesUpTo(hi) = TablesUpTo(lo) \union Above(lo, hi)
  /\ TablesUpTo(lo) \intersect Above(lo, hi) = {}
  /\ GuardedUpTo(hi) = GuardedUpTo(lo) \union (Above(lo, hi) \ Unguarded)
  /\ LinksWith(hi, q) = LinksWith(lo, q) \union LinksBetween(lo, hi)
  /\ KeysWith(hi, q) = KeysWith(lo, q) \union KeysBetween(lo, hi)
  /\ PrivilegesWith(hi, q) =
       PrivilegesWith(lo, q) \union ((Above(lo, hi) \ Unguarded) \X S!Everything)

\* What new tables after a place add to the shape of a revision.
LEMMA Growth ==
  ASSUME NEW lo \in 15..49, NEW hi \in lo..49, NEW q \in 1..12
  PROVE  Grows(lo, hi, q)
<1>1. lo \in 0..49 /\ hi \in 0..49 /\ lo <= hi
  OBVIOUS
<1>2. /\ \A t : t \in TablesUpTo(lo) <=> t \in Names /\ Place[t] <= lo
      /\ \A t : t \in TablesUpTo(hi) <=> t \in Names /\ Place[t] <= hi
      /\ \A t : t \in Above(lo, hi) <=> t \in Names /\ lo < Place[t] /\ Place[t] <= hi
      /\ \A t \in Names : Place[t] \in 1..49
  BY <1>1, TablesByPlace, AboveByPlace, NamesListed
<1>3. /\ TablesUpTo(hi) = TablesUpTo(lo) \union Above(lo, hi)
      /\ TablesUpTo(lo) \intersect Above(lo, hi) = {}
  BY <1>1, <1>2
<1>4. GuardedUpTo(hi) = GuardedUpTo(lo) \union (Above(lo, hi) \ Unguarded)
  BY <1>3 DEF GuardedUpTo
<1>5. LinksWith(hi, q) = LinksWith(lo, q) \union LinksBetween(lo, hi)
  BY <1>1, Between, SMTT(30) DEF LinksWith
<1>6. GlobalKey \notin KeysBetween(lo, hi)
  <2>1. \A k \in KeysBetween(lo, hi) : KeyFits(k, lo, hi)
    BY <1>1, KeysFit
  <2>2. GlobalKey[1] = "draft_actions"
    BY DEF GlobalKey
  <2>3. QED
    BY <1>1, <2>1, <2>2, PlacesKnown DEF KeyFits
<1>7. KeysWith(hi, q) = KeysWith(lo, q) \union KeysBetween(lo, hi)
  BY <1>1, <1>6, Between DEF KeysWith
<1>8. \A p \in Changing : p[1] \notin Above(lo, hi)
  BY <1>1, <1>2, PlacesKnown DEF Changing
<1>9. PrivilegesWith(hi, q) =
        PrivilegesWith(lo, q) \union ((Above(lo, hi) \ Unguarded) \X S!Everything)
  <2>1. PICK new, old : new = Above(lo, hi) \ Unguarded /\ old = GuardedUpTo(lo)
    OBVIOUS
  <2>2. ((new \X S!Everything) \ Changing) = new \X S!Everything
    BY <1>8, <2>1
  <2>3. (old \union new) \X S!Everything = (old \X S!Everything) \union (new \X S!Everything)
    OBVIOUS
  <2>4. QED
    BY <1>4, <2>1, <2>2, <2>3 DEF PrivilegesWith
<1>10. QED
  BY <1>3, <1>4, <1>5, <1>7, <1>9 DEF Grows

\* names lists the tables between two places that row level security is for.
GuardList(names, g, lo, hi) ==
  /\ \A i, j \in 1..g : names[i] = names[j] => i = j
  /\ FirstOf(names, g) = Above(lo, hi) \ Unguarded

\* names lists all tables between two places, each one behind the tables that link to it.
DropList(names, c, lo, hi) ==
  /\ \A i, j \in 1..c : names[i] = names[j] => i = j
  /\ FirstOf(names, c) = Above(lo, hi)
  /\ \A j \in 1..c : \A t \in Names :
       Place[names[j]] < Place[t] /\ Place[t] <= hi /\ Place[t] # 34 /\ Place[names[j]] # 34
         => \E i \in 1..(j - 1) : t = names[i]

\* There are c tables between two places, all of them behind those of the first revision.
Span(lo, hi, c) == lo \in 15..49 /\ hi \in lo..49 /\ c \in Nat /\ c = hi - lo

\* Blocks of statements behind position m.
Creates(script, m, c, lo) == \A j \in 1..c : script[m + j] = Creation[lo + j]
Isolates(script, m, g, names) ==
  \A j \in 1..g : script[m + j] = [do |-> "isolate", table |-> names[j]]
Removes(script, m, c, names) == \A j \in 1..c : script[m + j] = Dropping(names[j])

\* Tables are created and then all but the unguarded ones put under row level security.
LEMMA NewTables ==
  ASSUME NEW d, NEW m \in Nat, NEW lo, NEW hi, NEW c, Span(lo, hi, c),
         NEW g \in Nat, NEW q \in 1..12, NEW script, NEW names,
         Shape(d[m], lo, q), Steps(d, m, c + g, script),
         Creates(script, m, c, lo), Isolates(script, m + c, g, names),
         GuardList(names, g, lo, hi)
  PROVE  Shape(d[m + c + g], hi, q) /\ Fitting(d, m, c + g, script)
<1> lo \in 15..49 /\ hi \in lo..49 /\ c \in Nat /\ c = hi - lo
  BY DEF Span
<1>1. PICK a, b, e : a = d[m] /\ b = d[m + c] /\ e = d[m + c + g]
  OBVIOUS
<1>2. Steps(d, m, c, script) /\ Steps(d, m + c, g, script)
  BY StepsSplit, Zenon
<1>3. IsSchema(b) /\ Built(b, a, lo, hi) /\ Fitting(d, m, c, script)
  <2>1. lo \in 0..49 /\ c \in 0..(49 - lo) /\ lo + c = hi
    OBVIOUS
  <2>2. IsSchema(d[m]) /\ d[m].tables = TablesUpTo(lo)
    BY DEF Shape, Fields
  <2>3. IsSchema(d[m + c]) /\ Built(d[m + c], d[m], lo, lo + c) /\ Fitting(d, m, c, script)
    BY <1>2, <2>1, <2>2, CreateBlock, Zenon DEF Creates
  <2>4. QED
    BY <1>1, <2>1, <2>3
<1>4. IsSchema(e) /\ GuardedBy(e, b, FirstOf(names, g)) /\ Fitting(d, m + c, g, script)
  <2>1. b.tables = TablesUpTo(hi) /\ b.isolated = GuardedUpTo(lo) /\ b.role = TRUE
    <3>1. RoleWith(q) = TRUE
      BY DEF RoleWith
    <3>2. Shape(a, lo, q)
      BY <1>1
    <3>3. QED
      BY <1>3, <3>1, <3>2 DEF Built, Shape, Fields
  <2>2. \A j \in 1..g : names[j] \in Above(lo, hi)
    BY DEF FirstOf, GuardList
  <2>3. TablesUpTo(hi) = TablesUpTo(lo) \union Above(lo, hi) /\ TablesUpTo(lo) \intersect Above(lo, hi) = {}
    BY Growth DEF Grows
  <2>4. \A j \in 1..g : names[j] \in d[m + c].tables /\ names[j] \notin d[m + c].isolated
    BY <1>1, <2>1, <2>2, <2>3 DEF GuardedUpTo
  <2>5. IsSchema(d[m + c]) /\ d[m + c].role = TRUE /\ m + c \in Nat
    BY <1>1, <1>3, <2>1
  <2> \A i, j \in 1..g : names[i] = names[j] => i = j
    BY DEF GuardList
  <2>6. /\ IsSchema(d[m + c + g]) /\ GuardedBy(d[m + c + g], d[m + c], FirstOf(names, g))
        /\ Fitting(d, m + c, g, script)
    BY <1>2, <2>4, <2>5, GuardBlock, Zenon DEF Isolates
  <2>7. QED
    BY <1>1, <2>6
<1>5. Fitting(d, m, c + g, script)
  BY <1>3, <1>4, StepsSplit, Zenon
<1>6. Shape(e, hi, q)
  <2>1. PICK new : new = Above(lo, hi) \ Unguarded
    OBVIOUS
  <2>2. /\ GuardedUpTo(hi) = GuardedUpTo(lo) \union new
        /\ LinksWith(hi, q) = LinksWith(lo, q) \union LinksBetween(lo, hi)
        /\ KeysWith(hi, q) = KeysWith(lo, q) \union KeysBetween(lo, hi)
        /\ PrivilegesWith(hi, q) = PrivilegesWith(lo, q) \union (new \X S!Everything)
    <3>1. Grows(lo, hi, q)
      BY Growth, Zenon
    <3>2. QED
      BY <2>1, <3>1 DEF Grows
  <2>3. GuardedBy(e, b, new) /\ Built(b, a, lo, hi) /\ Shape(a, lo, q) /\ IsSchema(e)
    BY <1>1, <1>3, <1>4, <2>1 DEF GuardList
  <2>4. QED
    BY <2>2, <2>3 DEF Shape, GuardedBy, Built, Fields
<1>7. QED
  BY <1>1, <1>5, <1>6

\* What is left of the parts of a schema without its last tables.
Shrinks(lo, hi, q) ==
  /\ TablesUpTo(hi) \ Above(lo, hi) = TablesUpTo(lo)
  /\ GuardedUpTo(hi) \ Above(lo, hi) = GuardedUpTo(lo)
  /\ {l \in LinksWith(hi, q) : l[1] \notin Above(lo, hi)} = LinksWith(lo, q)
  /\ {k \in KeysWith(hi, q) : k[1] \notin Above(lo, hi)} = KeysWith(lo, q)
  /\ {p \in PrivilegesWith(hi, q) : p[1] \notin Above(lo, hi)} = PrivilegesWith(lo, q)
  /\ {x \in ColumnsWith(q) : x[1] \notin Above(lo, hi)} = ColumnsWith(q)
  /\ {x \in WideWith(q) : x[1] \notin Above(lo, hi)} = WideWith(q)

\* What the removal of the tables after a place leaves of the shape of a revision.
LEMMA Shrinking ==
  ASSUME NEW lo \in 15..49, NEW hi \in lo..49, NEW q \in 1..11, q >= 9 => lo >= 23
  PROVE  Shrinks(lo, hi, q)
<1>1. lo \in 0..49 /\ hi \in 0..49 /\ lo <= hi /\ q \in 1..12
  OBVIOUS
<1>2. /\ \A t : t \in TablesUpTo(lo) <=> t \in Names /\ Place[t] <= lo
      /\ \A t : t \in Above(lo, hi) <=> t \in Names /\ lo < Place[t] /\ Place[t] <= hi
      /\ \A t \in Names : Place[t] \in 1..49
  BY <1>1, TablesByPlace, AboveByPlace, NamesListed
<1>3. Grows(lo, hi, q)
  BY <1>1, Growth, Zenon
<1>4. /\ TablesUpTo(hi) \ Above(lo, hi) = TablesUpTo(lo)
      /\ GuardedUpTo(hi) \ Above(lo, hi) = GuardedUpTo(lo)
  BY <1>3 DEF GuardedUpTo, Grows
<1>5. {l \in LinksWith(hi, q) : l[1] \notin Above(lo, hi)} = LinksWith(lo, q)
  <2>1. \A l \in LinksBetween(lo, hi) : l[1] \in Above(lo, hi)
    BY <1>1, <1>2, LinksFit DEF LinkFits
  <2>2. \A l \in LinksBetween(0, lo) : l[1] \notin Above(lo, hi)
    <3>1. \A l \in LinksBetween(0, lo) : LinkFits(l, 0, lo)
      BY <1>1, 0 \in 0..49, LinksFit, Zenon
    <3>2. QED
      BY <1>1, <1>2, <3>1 DEF LinkFits
  <2>3. q >= 9 => Reversal[1] \notin Above(lo, hi)
    BY <1>1, <1>2, PlacesKnown DEF Reversal
  <2>4. \A l \in LinksWith(lo, q) : l[1] \notin Above(lo, hi)
    BY <1>1, <2>2, <2>3 DEF LinksWith
  <2>5. QED
    BY <1>3, <2>1, <2>4 DEF Grows
<1>6. {k \in KeysWith(hi, q) : k[1] \notin Above(lo, hi)} = KeysWith(lo, q)
  <2>1. \A k \in KeysBetween(lo, hi) : k[1] \in Above(lo, hi)
    BY <1>1, <1>2, KeysFit DEF KeyFits
  <2>2. \A k \in KeysBetween(0, lo) : k[1] \notin Above(lo, hi)
    <3>1. \A k \in KeysBetween(0, lo) : KeyFits(k, 0, lo)
      BY <1>1, 0 \in 0..49, KeysFit, Zenon
    <3>2. QED
      BY <1>1, <1>2, <3>1 DEF KeyFits
  <2>3. OwnKey[1] \notin Above(lo, hi)
    BY <1>1, <1>2, PlacesKnown DEF OwnKey
  <2>4. \A k \in KeysWith(lo, q) : k[1] \notin Above(lo, hi)
    BY <1>1, <2>2, <2>3 DEF KeysWith
  <2>5. QED
    BY <1>3, <2>1, <2>4 DEF Grows
<1>7. {p \in PrivilegesWith(hi, q) : p[1] \notin Above(lo, hi)} = PrivilegesWith(lo, q)
  <2>1. \A p \in IdentityRights : p[1] \notin Above(lo, hi)
    BY <1>1, <1>2, PlacesKnown DEF IdentityRights
  <2>2. \A p \in GuardedUpTo(lo) \X S!Everything : p[1] \notin Above(lo, hi)
    BY <1>3 DEF GuardedUpTo, Grows
  <2>3. \A p \in PrivilegesWith(lo, q) : p[1] \notin Above(lo, hi)
    BY <2>1, <2>2 DEF PrivilegesWith
  <2>4. \A p \in (Above(lo, hi) \ Unguarded) \X S!Everything : p[1] \in Above(lo, hi)
    OBVIOUS
  <2>5. QED
    BY <1>3, <2>3, <2>4 DEF Grows
<1>8. \A x \in ColumnsWith(q) : x[1] \notin Above(lo, hi)
  <2>1. \A x \in ColumnsWith(q) : q >= 9
            /\ x[1] \in {"bank_transactions", "payment_allocations", "invoices"}
    BY <1>1 DEF ColumnsWith, V1Added
  <2>2. QED
    BY <1>1, <1>2, <2>1, PlacesKnown
<1>9. \A x \in WideWith(q) : x[1] \notin Above(lo, hi)
  <2>1. \A x \in WideWith(q) : q >= 9 /\ x[1] = "connector_cursors"
    BY <1>1 DEF WideWith
  <2>2. QED
    BY <1>1, <1>2, <2>1, PlacesKnown
<1>10. QED
  BY <1>4, <1>5, <1>6, <1>7, <1>8, <1>9 DEF Shrinks

\* What a revision up to 11 has besides tables concerns the tables up to place lo.
Kept(q, lo) == q \in 1..11 /\ (q >= 9 => lo >= 23)

\* Tables are dropped, each one behind the tables that link to it.
LEMMA OldTables ==
  ASSUME NEW d, NEW m \in Nat, NEW lo, NEW hi, NEW c, Span(lo, hi, c),
         NEW q, Kept(q, lo), NEW script, NEW names,
         Shape(d[m], hi, q), Steps(d, m, c, script),
         Removes(script, m, c, names),
         DropList(names, c, lo, hi)
  PROVE  Shape(d[m + c], lo, q) /\ Fitting(d, m, c, script)
<1> lo \in 15..49 /\ hi \in lo..49 /\ c \in Nat /\ c = hi - lo
  BY DEF Span
<1> q \in 1..11 /\ (q >= 9 => lo >= 23)
  BY DEF Kept
<1>1. PICK a, b : a = d[m] /\ b = d[m + c]
  OBVIOUS
<1>2. lo \in 0..49 /\ hi \in 0..49 /\ q \in 1..12
  OBVIOUS
<1>3. /\ IsSchema(a) /\ a.tables = TablesUpTo(hi) /\ a.links = LinksWith(hi, q)
  BY <1>1 DEF Shape, Fields
<1>4. \A j \in 1..c : names[j] \in d[m].tables
  <2>1. \A j \in 1..c : names[j] \in Above(lo, hi)
    BY DEF FirstOf, DropList
  <2>2. QED
    <3>1. Grows(lo, hi, q)
      BY <1>2, Growth, Zenon
    <3>2. QED
      BY <1>1, <1>3, <2>1, <3>1 DEF Grows
<1>5. \A l \in d[m].links : \A j \in 1..c :
            l[3] = names[j] => l[1] = l[3] \/ \E i \in 1..(j - 1) : l[1] = names[i]
  <2> SUFFICES ASSUME NEW l \in LinksWith(hi, q), NEW j \in 1..c, l[3] = names[j], l[1] # l[3]
               PROVE  \E i \in 1..(j - 1) : l[1] = names[i]
    BY <1>1, <1>3
  <2>1. l \in LinksBetween(0, hi)
    BY DEF LinksWith, Reversal
  <2>2. LinkFits(l, 0, hi)
    BY <1>2, <2>1, LinksFit
  <2>3. QED
    BY <2>2 DEF LinkFits, DropList
<1>6. IsSchema(b) /\ DroppedFrom(b, a, Above(lo, hi)) /\ Fitting(d, m, c, script)
  <2>1. IsSchema(d[m])
    BY <1>1, <1>3
  <2>2. Droppable(d[m], names, c)
    BY <1>4, <1>5, Zenon DEF Droppable, DropList
  <2>3. IsSchema(d[m + c]) /\ DroppedFrom(d[m + c], d[m], FirstOf(names, c)) /\ Fitting(d, m, c, script)
    BY <2>1, <2>2, DropBlock, Zenon DEF Removes
  <2>4. QED
    BY <1>1, <2>3 DEF DropList
<1>7. Shape(b, lo, q)
  <2>1. Shape(a, hi, q)
    BY <1>1
  <2>2. Shrinks(lo, hi, q)
    BY Shrinking, Zenon
  <2>3. QED
    BY <1>6, <2>1, <2>2, Zenon DEF Shape, DroppedFrom, Fields, Shrinks
<1>8. QED
  BY <1>1, <1>6, <1>7

-----------------------------------------------------------------------------
(* What each script makes of the schema it is meant for.                   *)

\* The n statements of a script take the schema of revision a to that of revision b, and
\* each of them can be applied.
Leads(script, n, a, b) ==
  \A d : IsAt(d[0], a) /\ Steps(d, 0, n, script) => IsAt(d[n], b) /\ Fitting(d, 0, n, script)

\* The revisions that only create tables, guard them and drop them again.
TablesOnly == {2, 3, 4, 6, 7, 8}

\* The number of tables at each revision.
LEMMA Counts ==
  /\ CountAt(0) = 0 /\ CountAt(1) = 15 /\ CountAt(2) = 16 /\ CountAt(3) = 18 /\ CountAt(4) = 19
  /\ CountAt(5) = 19 /\ CountAt(6) = 21 /\ CountAt(7) = 23 /\ CountAt(8) = 24 /\ CountAt(9) = 36
  /\ CountAt(10) = 48 /\ CountAt(11) = 49 /\ CountAt(12) = 49
BY DEF CountAt

\* Revisions 2 to 4 and 6 to 8 only add tables, after the first fifteen and before the first version.
LEMMA CountRanges ==
  ASSUME NEW r \in TablesOnly
  PROVE  /\ CountAt(r - 1) \in 15..24 /\ CountAt(r) \in CountAt(r - 1)..24 /\ r \in 2..8
         /\ (r - 1 <= 4 <=> r <= 4)
<1>1. r \in {2, 3, 4, 6, 7, 8}
  BY DEF TablesOnly
<1>2. r - 1 = 1 \/ r - 1 = 2 \/ r - 1 = 3 \/ r - 1 = 5 \/ r - 1 = 6 \/ r - 1 = 7
  BY <1>1
<1>3. CASE r = 2
  BY <1>3, Counts
<1>4. CASE r = 3
  BY <1>4, Counts
<1>5. CASE r = 4
  BY <1>5, Counts
<1>6. CASE r = 6
  BY <1>6, Counts
<1>7. CASE r = 7
  BY <1>7, Counts
<1>8. CASE r = 8
  BY <1>8, Counts
<1>9. QED
  BY <1>1, <1>3, <1>4, <1>5, <1>6, <1>7, <1>8

\* The first n names counted from place lo on, or backwards from hi.
Upward(lo) == [j \in Nat |-> Name(lo + j)]
Downward(hi) == [j \in Nat |-> Name(hi + 1 - j)]

\* names lists all tables between two places.
AllOf(names, c, lo, hi) ==
  /\ \A i, j \in 1..c : names[i] = names[j] => i = j
  /\ FirstOf(names, c) = Above(lo, hi)

\* The names of the tables after a place, first to last.
LEMMA UpwardNames ==
  ASSUME NEW lo \in 0..49, NEW c \in 0..(49 - lo)
  PROVE  AllOf(Upward(lo), c, lo, lo + c)
<1>1. \A i \in 1..c : lo + i \in 1..49 /\ i \in Nat
  OBVIOUS
<1>2. \A i \in 1..c : Upward(lo)[i] = Name(lo + i) /\ Place[Upward(lo)[i]] = lo + i
  <2>1. \A i \in 1..c : Upward(lo)[i] = Name(lo + i)
    BY <1>1, Zenon DEF Upward
  <2>2. QED
    BY <1>1, <2>1, NamesListed
<1>3. \A i, j \in 1..c : Upward(lo)[i] = Upward(lo)[j] => i = j
  <2> SUFFICES ASSUME NEW i \in 1..c, NEW j \in 1..c, Upward(lo)[i] = Upward(lo)[j] PROVE i = j
    OBVIOUS
  <2>1. lo + i = lo + j
    BY <1>2
  <2>2. QED
    BY <2>1
<1>4. FirstOf(Upward(lo), c) = Above(lo, lo + c)
  <2>1. \A i \in 1..c : lo + i \in (lo + 1)..(lo + c)
    OBVIOUS
  <2>2. \A p \in (lo + 1)..(lo + c) : p - lo \in 1..c /\ lo + (p - lo) = p
    OBVIOUS
  <2>3. ASSUME NEW i \in 1..c PROVE Upward(lo)[i] \in Above(lo, lo + c)
    BY <1>2, <2>1, Zenon DEF Above
  <2>4. ASSUME NEW p \in (lo + 1)..(lo + c) PROVE Name(p) \in FirstOf(Upward(lo), c)
    <3>1. p - lo \in 1..c /\ Upward(lo)[p - lo] = Name(p)
      BY <1>2, <2>2
    <3>2. QED
      BY <3>1, Zenon DEF FirstOf
  <2>5. QED
    BY <2>3, <2>4, Zenon DEF FirstOf, Above
<1>5. QED
  BY <1>3, <1>4 DEF AllOf

\* The names of the tables after a place, last to first, are a list in which they can be dropped.
LEMMA DownwardNames ==
  ASSUME NEW lo \in 0..49, NEW hi \in lo..49, NEW c \in Nat, c = hi - lo
  PROVE  DropList(Downward(hi), c, lo, hi)
<1>1. \A i \in 1..c : hi + 1 - i \in 1..49 /\ hi + 1 - i \in (lo + 1)..hi
  OBVIOUS
<1>2. \A i \in 1..c : Downward(hi)[i] = Name(hi + 1 - i) /\ Place[Downward(hi)[i]] = hi + 1 - i
  <2>1. \A i \in 1..c : Downward(hi)[i] = Name(hi + 1 - i)
    <3>1. \A i \in 1..c : i \in Nat
      OBVIOUS
    <3>2. QED
      BY <3>1, Zenon DEF Downward
  <2>2. QED
    BY <1>1, <2>1, NamesListed
<1>3. \A i, j \in 1..c : Downward(hi)[i] = Downward(hi)[j] => i = j
  <2> SUFFICES ASSUME NEW i \in 1..c, NEW j \in 1..c, Downward(hi)[i] = Downward(hi)[j] PROVE i = j
    OBVIOUS
  <2>1. hi + 1 - i = hi + 1 - j
    BY <1>2
  <2>2. QED
    BY <2>1
<1>4. FirstOf(Downward(hi), c) = Above(lo, hi)
  <2>1. \A p \in (lo + 1)..hi : hi + 1 - p \in 1..c /\ hi + 1 - (hi + 1 - p) = p
    OBVIOUS
  <2>2. QED
    BY <1>1, <1>2, <2>1 DEF FirstOf, Above
<1>5. ASSUME NEW j \in 1..c, NEW t \in Names, Place[Downward(hi)[j]] < Place[t], Place[t] <= hi
      PROVE  \E i \in 1..(j - 1) : t = Downward(hi)[i]
  <2>1. PICK i : i = hi + 1 - Place[t]
    OBVIOUS
  <2>2. Place[t] \in 1..49 /\ Name(Place[t]) = t
    BY NamesListed
  <2>3. i \in 1..(j - 1) /\ hi + 1 - i = Place[t]
    BY <1>2, <1>5, <2>1, <2>2
  <2>4. Downward(hi)[i] = t
    BY <1>2, <2>2, <2>3
  <2>5. QED
    BY <2>3, <2>4
<1>6. QED
  BY <1>3, <1>4, <1>5 DEF DropList

\* The next c tables behind place lo are created and guarded; the last c tables up to hi dropped.
GrowScript(script, lo, c) ==
  /\ \A j \in 1..c : script[j] = Creation[lo + j]
  /\ \A j \in 1..c : script[c + j] = [do |-> "isolate", table |-> Name(lo + j)]
ShrinkScript(script, hi, c) == \A j \in 1..c : script[j] = Dropping(Name(hi + 1 - j))

\* A script that creates the tables of a revision and isolates each leads to that revision.
LEMMA TablesOnlyUp ==
  ASSUME NEW r \in TablesOnly, NEW script, NEW lo, NEW hi, NEW c, lo = CountAt(r - 1), hi = CountAt(r),
         Span(lo, hi, c), GrowScript(script, lo, c)
  PROVE  Leads(script, c + c, r - 1, r)
<1>1. /\ lo \in 15..49 /\ lo \in 0..49 /\ hi \in lo..49 /\ hi <= 24 /\ c \in Nat
      /\ c \in 0..(49 - lo) /\ r - 1 \in 1..12
      /\ lo + c = hi /\ hi \in 0..49
  BY CountRanges DEF Span
<1> SUFFICES ASSUME NEW d, IsAt(d[0], r - 1), Steps(d, 0, c + c, script)
             PROVE  IsAt(d[c + c], r) /\ Fitting(d, 0, c + c, script)
  BY DEF Leads
<1>2. Shape(d[0], lo, r - 1)
  BY DEF IsAt
<1>3. GuardList(Upward(lo), c, lo, hi)
  <2>1. AllOf(Upward(lo), c, lo, lo + c)
    BY <1>1, UpwardNames, Zenon
  <2>2. \A t : t \in Above(lo, hi) => lo < Place[t] /\ Place[t] <= hi
    BY <1>1, AboveByPlace, Zenon
  <2>3. \A t \in Unguarded : t \notin Above(lo, hi)
    BY <1>1, <2>2, PlacesKnown DEF Unguarded
  <2>4. QED
    BY <1>1, <2>1, <2>3 DEF GuardList, AllOf
<1>4. Creates(script, 0, c, lo) /\ Isolates(script, 0 + c, c, Upward(lo))
  <2>1. \A j \in 1..c : j \in Nat /\ 0 + c + j = c + j /\ 0 + j = j
    BY <1>1
  <2>2. \A j \in 1..c : Upward(lo)[j] = Name(lo + j)
    BY <2>1, Zenon DEF Upward
  <2>3. QED
    BY <2>1, <2>2 DEF Creates, Isolates, GrowScript
<1>5. Shape(d[0 + c + c], hi, r - 1) /\ Fitting(d, 0, c + c, script)
  <2>1. PICK q \in 1..12 : q = r - 1
    BY <1>1
  <2>2. Shape(d[0], lo, q)
    BY <1>2, <2>1
  <2> HIDE DEF IsAt
  <2>3. Shape(d[0 + c + c], hi, q) /\ Fitting(d, 0, c + c, script)
    BY <1>1, <1>3, <1>4, <2>2, 0 \in Nat, NewTables, Zenon
  <2>4. QED
    BY <2>1, <2>3
<1>6. 0 + c + c = c + c
  BY <1>1
<1>7. Shape(d[c + c], hi, r)
  BY <1>5, <1>6, CountRanges, SameFeatures
<1>8. QED
  BY <1>5, <1>7 DEF IsAt

\* A script that drops the tables of a revision, last to first, leads back from it.
LEMMA TablesOnlyDown ==
  ASSUME NEW r \in TablesOnly, NEW script, NEW lo, NEW hi, NEW c, lo = CountAt(r - 1), hi = CountAt(r),
         Span(lo, hi, c), ShrinkScript(script, hi, c)
  PROVE  Leads(script, c, r, r - 1)
<1>1. /\ lo \in 15..49 /\ lo \in 0..49 /\ hi \in lo..49 /\ c \in Nat /\ c = hi - lo /\ Kept(r, lo)
  BY CountRanges DEF Span, Kept
<1> SUFFICES ASSUME NEW d, IsAt(d[0], r), Steps(d, 0, c, script)
             PROVE  IsAt(d[c], r - 1) /\ Fitting(d, 0, c, script)
  BY DEF Leads
<1>2. Shape(d[0], hi, r)
  BY DEF IsAt
<1>3. DropList(Downward(hi), c, lo, hi)
  BY <1>1, DownwardNames, Zenon
<1>4. Removes(script, 0, c, Downward(hi))
  <2>1. \A j \in 1..c : Downward(hi)[j] = Name(hi + 1 - j) /\ 0 + j = j
    BY <1>1 DEF Downward
  <2>2. QED
    BY <2>1 DEF Removes, ShrinkScript
<1>5. Shape(d[0 + c], lo, r) /\ Fitting(d, 0, c, script)
  BY <1>1, <1>2, <1>3, <1>4, 0 \in Nat, OldTables, Zenon
<1>6. 0 + c = c
  BY <1>1
<1>7. Shape(d[c], lo, r - 1)
  BY <1>5, <1>6, CountRanges, SameFeatures
<1>8. QED
  BY <1>5, <1>7 DEF IsAt

\* The scripts of revision 2 lead there and back.
LEMMA ProvenanceMoves ==
  /\ Leads(S!Upgrades[2], 2, 1, 2) /\ Leads(S!Downgrades[2], 1, 2, 1)
  /\ IsList(S!Upgrades[2], 2) /\ IsList(S!Downgrades[2], 1)
<1>1. PICK up, down : up = S!ProvenanceUp /\ down = S!ProvenanceDown
  OBVIOUS
<1>2. S!Upgrades[2] = up /\ S!Downgrades[2] = down
  BY <1>1 DEF S!Upgrades, S!Downgrades
<1>3. 2 \in TablesOnly /\ 2 - 1 = 1 /\ 1 + 1 = 2
  BY DEF TablesOnly
<1>4. Span(15, 16, 1) /\ 15 = CountAt(2 - 1) /\ 16 = CountAt(2)
  BY Counts DEF Span
<1>5. GrowScript(up, 15, 1)
  BY <1>1, ProvenanceList, CreationBlocks, Named DEF GrowScript
<1>6. ShrinkScript(down, 16, 1)
  BY <1>1, ProvenanceDownList, Named DEF ShrinkScript
<1>7. Leads(up, 1 + 1, 2 - 1, 2)
  BY <1>3, <1>4, <1>5, TablesOnlyUp, Zenon
<1>8. Leads(down, 1, 2, 2 - 1)
  BY <1>3, <1>4, <1>6, TablesOnlyDown, Zenon
<1>9. QED
  BY <1>1, <1>2, <1>3, <1>7, <1>8, ProvenanceList, ProvenanceDownList

\* The scripts of revision 3 lead there and back.
LEMMA CommunicationsMoves ==
  /\ Leads(S!Upgrades[3], 4, 2, 3) /\ Leads(S!Downgrades[3], 2, 3, 2)
  /\ IsList(S!Upgrades[3], 4) /\ IsList(S!Downgrades[3], 2)
<1>1. PICK up, down : up = S!CommunicationsUp /\ down = S!CommunicationsDown
  OBVIOUS
<1>2. S!Upgrades[3] = up /\ S!Downgrades[3] = down
  BY <1>1 DEF S!Upgrades, S!Downgrades
<1>3. 3 \in TablesOnly /\ 3 - 1 = 2 /\ 2 + 2 = 4
  BY DEF TablesOnly
<1>4. Span(16, 18, 2) /\ 16 = CountAt(3 - 1) /\ 18 = CountAt(3)
  BY Counts DEF Span
<1>5. GrowScript(up, 16, 2)
  BY <1>1, CommunicationsList, CreationBlocks, Named DEF GrowScript
<1>6. ShrinkScript(down, 18, 2)
  BY <1>1, CommunicationsDownList, Named DEF ShrinkScript
<1>7. Leads(up, 2 + 2, 3 - 1, 3)
  BY <1>3, <1>4, <1>5, TablesOnlyUp, Zenon
<1>8. Leads(down, 2, 3, 3 - 1)
  BY <1>3, <1>4, <1>6, TablesOnlyDown, Zenon
<1>9. QED
  BY <1>1, <1>2, <1>3, <1>7, <1>8, CommunicationsList, CommunicationsDownList

\* The scripts of revision 4 lead there and back.
LEMMA CaseDocumentsMoves ==
  /\ Leads(S!Upgrades[4], 2, 3, 4) /\ Leads(S!Downgrades[4], 1, 4, 3)
  /\ IsList(S!Upgrades[4], 2) /\ IsList(S!Downgrades[4], 1)
<1>1. PICK up, down : up = S!CaseDocumentsUp /\ down = S!CaseDocumentsDown
  OBVIOUS
<1>2. S!Upgrades[4] = up /\ S!Downgrades[4] = down
  BY <1>1 DEF S!Upgrades, S!Downgrades
<1>3. 4 \in TablesOnly /\ 4 - 1 = 3 /\ 1 + 1 = 2
  BY DEF TablesOnly
<1>4. Span(18, 19, 1) /\ 18 = CountAt(4 - 1) /\ 19 = CountAt(4)
  BY Counts DEF Span
<1>5. GrowScript(up, 18, 1)
  BY <1>1, CaseDocumentsList, CreationBlocks, Named DEF GrowScript
<1>6. ShrinkScript(down, 19, 1)
  BY <1>1, CaseDocumentsDownList, Named DEF ShrinkScript
<1>7. Leads(up, 1 + 1, 4 - 1, 4)
  BY <1>3, <1>4, <1>5, TablesOnlyUp, Zenon
<1>8. Leads(down, 1, 4, 4 - 1)
  BY <1>3, <1>4, <1>6, TablesOnlyDown, Zenon
<1>9. QED
  BY <1>1, <1>2, <1>3, <1>7, <1>8, CaseDocumentsList, CaseDocumentsDownList

\* The scripts of revision 6 lead there and back.
LEMMA ConnectorsMoves ==
  /\ Leads(S!Upgrades[6], 4, 5, 6) /\ Leads(S!Downgrades[6], 2, 6, 5)
  /\ IsList(S!Upgrades[6], 4) /\ IsList(S!Downgrades[6], 2)
<1>1. PICK up, down : up = S!ConnectorsUp /\ down = S!ConnectorsDown
  OBVIOUS
<1>2. S!Upgrades[6] = up /\ S!Downgrades[6] = down
  BY <1>1 DEF S!Upgrades, S!Downgrades
<1>3. 6 \in TablesOnly /\ 6 - 1 = 5 /\ 2 + 2 = 4
  BY DEF TablesOnly
<1>4. Span(19, 21, 2) /\ 19 = CountAt(6 - 1) /\ 21 = CountAt(6)
  BY Counts DEF Span
<1>5. GrowScript(up, 19, 2)
  BY <1>1, ConnectorsList, CreationBlocks, Named DEF GrowScript
<1>6. ShrinkScript(down, 21, 2)
  BY <1>1, ConnectorsDownList, Named DEF ShrinkScript
<1>7. Leads(up, 2 + 2, 6 - 1, 6)
  BY <1>3, <1>4, <1>5, TablesOnlyUp, Zenon
<1>8. Leads(down, 2, 6, 6 - 1)
  BY <1>3, <1>4, <1>6, TablesOnlyDown, Zenon
<1>9. QED
  BY <1>1, <1>2, <1>3, <1>7, <1>8, ConnectorsList, ConnectorsDownList

\* The scripts of revision 7 lead there and back.
LEMMA BankMoves ==
  /\ Leads(S!Upgrades[7], 4, 6, 7) /\ Leads(S!Downgrades[7], 2, 7, 6)
  /\ IsList(S!Upgrades[7], 4) /\ IsList(S!Downgrades[7], 2)
<1>1. PICK up, down : up = S!BankUp /\ down = S!BankDown
  OBVIOUS
<1>2. S!Upgrades[7] = up /\ S!Downgrades[7] = down
  BY <1>1 DEF S!Upgrades, S!Downgrades
<1>3. 7 \in TablesOnly /\ 7 - 1 = 6 /\ 2 + 2 = 4
  BY DEF TablesOnly
<1>4. Span(21, 23, 2) /\ 21 = CountAt(7 - 1) /\ 23 = CountAt(7)
  BY Counts DEF Span
<1>5. GrowScript(up, 21, 2)
  BY <1>1, BankList, CreationBlocks, Named DEF GrowScript
<1>6. ShrinkScript(down, 23, 2)
  BY <1>1, BankDownList, Named DEF ShrinkScript
<1>7. Leads(up, 2 + 2, 7 - 1, 7)
  BY <1>3, <1>4, <1>5, TablesOnlyUp, Zenon
<1>8. Leads(down, 2, 7, 7 - 1)
  BY <1>3, <1>4, <1>6, TablesOnlyDown, Zenon
<1>9. QED
  BY <1>1, <1>2, <1>3, <1>7, <1>8, BankList, BankDownList

\* The scripts of revision 8 lead there and back.
LEMMA FailuresMoves ==
  /\ Leads(S!Upgrades[8], 2, 7, 8) /\ Leads(S!Downgrades[8], 1, 8, 7)
  /\ IsList(S!Upgrades[8], 2) /\ IsList(S!Downgrades[8], 1)
<1>1. PICK up, down : up = S!FailuresUp /\ down = S!FailuresDown
  OBVIOUS
<1>2. S!Upgrades[8] = up /\ S!Downgrades[8] = down
  BY <1>1 DEF S!Upgrades, S!Downgrades
<1>3. 8 \in TablesOnly /\ 8 - 1 = 7 /\ 1 + 1 = 2
  BY DEF TablesOnly
<1>4. Span(23, 24, 1) /\ 23 = CountAt(8 - 1) /\ 24 = CountAt(8)
  BY Counts DEF Span
<1>5. GrowScript(up, 23, 1)
  BY <1>1, FailuresList, CreationBlocks, Named DEF GrowScript
<1>6. ShrinkScript(down, 24, 1)
  BY <1>1, FailuresDownList, Named DEF ShrinkScript
<1>7. Leads(up, 1 + 1, 8 - 1, 8)
  BY <1>3, <1>4, <1>5, TablesOnlyUp, Zenon
<1>8. Leads(down, 1, 8, 8 - 1)
  BY <1>3, <1>4, <1>6, TablesOnlyDown, Zenon
<1>9. QED
  BY <1>1, <1>2, <1>3, <1>7, <1>8, FailuresList, FailuresDownList

\* The first two steps of a script.
LEMMA TwoSteps ==
  ASSUME NEW d, NEW script, Steps(d, 0, 2, script)
  PROVE  /\ d[1] = S!Applied(d[0], script[1]) /\ d[2] = S!Applied(d[1], script[2])
         /\ S!Applicable(d[0], script[1]) /\ S!Applicable(d[1], script[2]) => Fitting(d, 0, 2, script)
<1>1. 1..2 = {1, 2} /\ 0 + 1 = 1 /\ 0 + 1 - 1 = 0 /\ 0 + 2 = 2 /\ 0 + 2 - 1 = 1
  OBVIOUS
<1>2. QED
  BY <1>1, Zenon DEF Steps, Fitting

\* What a new or a removed key changes.
LEMMA KeyFields ==
  ASSUME NEW a, IsSchema(a), NEW s, NEW t, NEW columns
  PROVE  /\ s = S!Key("unique", t, columns) =>
              /\ IsSchema(S!Applied(a, s))
              /\ Fields(S!Applied(a, s), a.tables, a.links, a.keys \union {<<t, columns>>}, a.columns,
                        a.isolated, a.privileges, a.role, a.wide)
         /\ s = S!Key("ununique", t, columns) =>
              /\ IsSchema(S!Applied(a, s))
              /\ Fields(S!Applied(a, s), a.tables, a.links, a.keys \ {<<t, columns>>}, a.columns,
                        a.isolated, a.privileges, a.role, a.wide)
<1>1. ASSUME s = S!Key("unique", t, columns)
      PROVE  /\ IsSchema(S!Applied(a, s))
             /\ Fields(S!Applied(a, s), a.tables, a.links, a.keys \union {<<t, columns>>}, a.columns,
                        a.isolated, a.privileges, a.role, a.wide)
  <2>1. s.do = "unique" /\ s.table = t /\ s.columns = columns /\ s.do \in Adding \union Taking
    BY <1>1 DEF S!Key, Adding
  <2>2. /\ IsSchema(S!Applied(a, s))
        /\ Fields(S!Applied(a, s), a.tables, a.links, a.keys \union {<<s.table, s.columns>>}, a.columns,
                  a.isolated, a.privileges, a.role, a.wide)
    BY <2>1, AppliedFields, Zenon
  <2>3. QED
    BY <2>1, <2>2
<1>2. ASSUME s = S!Key("ununique", t, columns)
      PROVE  /\ IsSchema(S!Applied(a, s))
             /\ Fields(S!Applied(a, s), a.tables, a.links, a.keys \ {<<t, columns>>}, a.columns,
                        a.isolated, a.privileges, a.role, a.wide)
  <2>1. s.do = "ununique" /\ s.table = t /\ s.columns = columns /\ s.do \in Adding \union Taking
    BY <1>2 DEF S!Key, Taking
  <2>2. /\ IsSchema(S!Applied(a, s))
        /\ Fields(S!Applied(a, s), a.tables, a.links, a.keys \ {<<s.table, s.columns>>}, a.columns,
                  a.isolated, a.privileges, a.role, a.wide)
    BY <2>1, AppliedFields, Zenon
  <2>3. QED
    BY <2>1, <2>2
<1>3. QED
  BY <1>1, <1>2

\* When a key can be added, and removed.
LEMMA KeyFitting ==
  ASSUME NEW a, NEW s, NEW t, NEW columns
  PROVE  /\ s = S!Key("unique", t, columns) /\ t \in a.tables /\ <<t, columns>> \notin a.keys
              => S!Applicable(a, s)
         /\ s = S!Key("ununique", t, columns) /\ <<t, columns>> \in a.keys
              /\ (columns # S!TenantKey \/ ~ \E l \in a.links : l[3] = t /\ l[4] = "tenant")
              => S!Applicable(a, s)
<1>1. ASSUME s = S!Key("unique", t, columns), t \in a.tables, <<t, columns>> \notin a.keys
      PROVE  S!Applicable(a, s)
  <2>1. s.do = "unique" /\ s.table = t /\ s.columns = columns
    BY <1>1 DEF S!Key
  <2>2. QED
    BY <1>1, <2>1 DEF S!Applicable
<1>2. ASSUME s = S!Key("ununique", t, columns), <<t, columns>> \in a.keys,
             columns # S!TenantKey \/ ~ \E l \in a.links : l[3] = t /\ l[4] = "tenant"
      PROVE  S!Applicable(a, s)
  <2>1. s.do = "ununique" /\ s.table = t /\ s.columns = columns
    BY <1>2 DEF S!Key
  <2>2. QED
    BY <1>2, <2>1 DEF S!Applicable
<1>3. QED
  BY <1>1, <1>2

\* What the fourth and the fifth revision have in common, and what they differ in.
LEMMA FourAndFive ==
  /\ LinksWith(19, 4) = LinksWith(19, 5) /\ ColumnsWith(4) = ColumnsWith(5) /\ WideWith(4) = WideWith(5)
  /\ PrivilegesWith(19, 4) = PrivilegesWith(19, 5) /\ RoleWith(4) = RoleWith(5)
  /\ KeysWith(19, 5) = (KeysWith(19, 4) \ {GlobalKey}) \union {OwnKey}
  /\ GlobalKey \in KeysWith(19, 4) /\ OwnKey \notin KeysWith(19, 4) /\ OwnKey # GlobalKey
<1>1. /\ LinksWith(19, 4) = LinksWith(19, 5) /\ ColumnsWith(4) = ColumnsWith(5) /\ WideWith(4) = WideWith(5)
  BY DEF LinksWith, ColumnsWith, WideWith
<1>2. PrivilegesWith(19, 4) = PrivilegesWith(19, 5) /\ RoleWith(4) = RoleWith(5)
  BY DEF PrivilegesWith, RoleWith
<1>3. KeysWith(19, 4) = KeysBetween(0, 19)
  BY DEF KeysWith
<1>4. KeysWith(19, 5) = (KeysBetween(0, 19) \ {GlobalKey}) \union {OwnKey}
  BY DEF KeysWith
<1>5. OwnKey # GlobalKey
  <2>1. "tenant_id" \in OwnKey[2] /\ "tenant_id" \notin GlobalKey[2]
    BY DEF OwnKey, GlobalKey
  <2>2. QED
    BY <2>1
<1>6. \A k \in KeysBetween(0, 19) : KeyFits(k, 0, 19)
  <2>1. 0 \in 0..49 /\ 19 \in 0..49
    OBVIOUS
  <2>2. QED
    BY <2>1, KeysFit, Zenon
<1>7. OwnKey \notin KeysBetween(0, 19)
  <2>1. OwnKey[1] = "draft_actions"
    BY DEF OwnKey
  <2>2. QED
    BY <1>5, <1>6, <2>1 DEF KeyFits, GlobalKey
<1>8. GlobalKey \in KeysBetween(0, 19)
  <2>1. 19 \in 15..49
    OBVIOUS
  <2>2. QED
    BY <2>1, GlobalThere, Zenon DEF GlobalKey
<1>9. QED
  BY <1>1, <1>2, <1>3, <1>4, <1>5, <1>7, <1>8

\* The scripts of revision 5 lead there and back.
LEMMA DraftKeyMoves ==
  /\ Leads(S!Upgrades[5], 2, 4, 5) /\ Leads(S!Downgrades[5], 2, 5, 4)
  /\ IsList(S!Upgrades[5], 2) /\ IsList(S!Downgrades[5], 2)
<1>1. PICK up, down : up = S!DraftKeyUp /\ down = S!DraftKeyDown
  OBVIOUS
<1>2. S!Upgrades[5] = up /\ S!Downgrades[5] = down
  BY <1>1 DEF S!Upgrades, S!Downgrades
<1>3. /\ IsList(up, 2) /\ IsList(down, 2)
      /\ up[1] = S!Key("ununique", "draft_actions", {"idempotency_key"})
      /\ up[2] = S!Key("unique", "draft_actions", {"tenant_id", "idempotency_key"})
      /\ down[1] = S!Key("ununique", "draft_actions", {"tenant_id", "idempotency_key"})
      /\ down[2] = S!Key("unique", "draft_actions", {"idempotency_key"})
  BY <1>1, DraftKeyList
<1>4. "draft_actions" \in TablesUpTo(19)
  BY TablesByPlace, PlacesKnown
<1>5. {"idempotency_key"} # S!TenantKey /\ {"tenant_id", "idempotency_key"} # S!TenantKey
  BY DEF S!TenantKey
<1>6. CountAt(4) = 19 /\ CountAt(5) = 19
  BY Counts
<1>7. ASSUME NEW d, IsAt(d[0], 4), Steps(d, 0, 2, up)
      PROVE  IsAt(d[2], 5) /\ Fitting(d, 0, 2, up)
  <2>1. PICK a, b, e : a = d[0] /\ b = d[1] /\ e = d[2]
    OBVIOUS
  <2>2. Shape(a, 19, 4)
    BY <1>6, <1>7, <2>1 DEF IsAt
  <2>3. b = S!Applied(a, up[1]) /\ e = S!Applied(b, up[2])
    BY <1>7, <2>1, TwoSteps
  <2>4. IsSchema(b) /\ Fields(b, a.tables, a.links, a.keys \ {GlobalKey}, a.columns,
                              a.isolated, a.privileges, a.role, a.wide)
    BY <1>3, <2>2, <2>3, KeyFields, Zenon DEF Shape, GlobalKey
  <2>5. IsSchema(e) /\ Fields(e, b.tables, b.links, b.keys \union {OwnKey}, b.columns,
                              b.isolated, b.privileges, b.role, b.wide)
    BY <1>3, <2>3, <2>4, KeyFields, Zenon DEF OwnKey
  <2>6. Shape(e, 19, 5)
    BY <2>2, <2>4, <2>5, FourAndFive DEF Shape, Fields
  <2>7. S!Applicable(a, up[1])
    <3>1. GlobalKey \in a.keys
      BY <2>2, FourAndFive DEF Shape, Fields
    <3>2. QED
      BY <1>3, <1>5, <3>1, KeyFitting, Zenon DEF GlobalKey
  <2>8. S!Applicable(b, up[2])
    <3>1. OwnKey \notin b.keys /\ "draft_actions" \in b.tables
      BY <1>4, <2>2, <2>4, FourAndFive DEF Shape, Fields
    <3>2. QED
      BY <1>3, <3>1, KeyFitting, Zenon DEF OwnKey
  <2>9. QED
    BY <1>6, <1>7, <2>1, <2>6, <2>7, <2>8, TwoSteps DEF IsAt
<1>8. ASSUME NEW d, IsAt(d[0], 5), Steps(d, 0, 2, down)
      PROVE  IsAt(d[2], 4) /\ Fitting(d, 0, 2, down)
  <2>1. PICK a, b, e : a = d[0] /\ b = d[1] /\ e = d[2]
    OBVIOUS
  <2>2. Shape(a, 19, 5)
    BY <1>6, <1>8, <2>1 DEF IsAt
  <2>3. b = S!Applied(a, down[1]) /\ e = S!Applied(b, down[2])
    BY <1>8, <2>1, TwoSteps
  <2>4. IsSchema(b) /\ Fields(b, a.tables, a.links, a.keys \ {OwnKey}, a.columns,
                              a.isolated, a.privileges, a.role, a.wide)
    BY <1>3, <2>2, <2>3, KeyFields, Zenon DEF Shape, OwnKey
  <2>5. IsSchema(e) /\ Fields(e, b.tables, b.links, b.keys \union {GlobalKey}, b.columns,
                              b.isolated, b.privileges, b.role, b.wide)
    BY <1>3, <2>3, <2>4, KeyFields, Zenon DEF GlobalKey
  <2>6. Shape(e, 19, 4)
    BY <2>2, <2>4, <2>5, FourAndFive DEF Shape, Fields
  <2>7. S!Applicable(a, down[1])
    <3>1. OwnKey \in a.keys
      BY <2>2, FourAndFive DEF Shape, Fields
    <3>2. QED
      BY <1>3, <1>5, <3>1, KeyFitting, Zenon DEF OwnKey
  <2>8. S!Applicable(b, down[2])
    <3>1. GlobalKey \notin b.keys /\ "draft_actions" \in b.tables
      BY <1>4, <2>2, <2>4, FourAndFive DEF Shape, Fields
    <3>2. QED
      BY <1>3, <3>1, KeyFitting, Zenon DEF GlobalKey
  <2>9. QED
    BY <1>6, <1>8, <2>1, <2>6, <2>7, <2>8, TwoSteps DEF IsAt
<1>9. QED
  BY <1>2, <1>3, <1>7, <1>8 DEF Leads

\* s is a but for its links and its columns, or for its wide columns.
Columned(s, a, links, columns) ==
  IsSchema(s) /\ Fields(s, a.tables, links, a.keys, columns, a.isolated, a.privileges, a.role, a.wide)
Widened(s, a, wide) ==
  /\ IsSchema(s)
  /\ Fields(s, a.tables, a.links, a.keys, a.columns, a.isolated, a.privileges, a.role, wide)

\* What a new column changes.
LEMMA AddFields ==
  ASSUME NEW a, IsSchema(a), NEW s, NEW t, NEW x, s = S!Column("add", t, x)
  PROVE  Columned(S!Applied(a, s), a, a.links, a.columns \union {<<t, x>>})
<1>1. s.do = "add" /\ s.table = t /\ s.column = x /\ s.do \in Adding \union Taking
  BY DEF S!Column, Adding
<1>2. /\ IsSchema(S!Applied(a, s))
      /\ Fields(S!Applied(a, s), a.tables, a.links, a.keys, a.columns \union {<<s.table, s.column>>},
                a.isolated, a.privileges, a.role, a.wide)
  BY <1>1, AppliedFields, Zenon
<1>3. QED
  BY <1>1, <1>2 DEF Columned

\* What the removal of a column that no link uses changes.
LEMMA RemoveFields ==
  ASSUME NEW a, IsSchema(a), NEW s, NEW t, NEW x, s = S!Column("remove", t, x),
         \A l \in a.links : l[2] # x
  PROVE  Columned(S!Applied(a, s), a, a.links, a.columns \ {<<t, x>>})
<1>1. s.do = "remove" /\ s.table = t /\ s.column = x /\ s.do \in Adding \union Taking
  BY DEF S!Column, Taking
<1>2. IsSchema(S!Applied(a, s))
  BY <1>1, AppliedFields, Zenon
<1>3. Fields(S!Applied(a, s), a.tables, {l \in a.links : <<l[1], l[2]>> # <<s.table, s.column>>}, a.keys,
              a.columns \ {<<s.table, s.column>>}, a.isolated, a.privileges, a.role, a.wide)
  BY <1>1, Zenon DEF S!Applied, Fields, IsSchema
<1>4. {l \in a.links : <<l[1], l[2]>> # <<s.table, s.column>>} = a.links
  BY <1>1
<1>5. QED
  BY <1>1, <1>2, <1>3, <1>4 DEF Columned

\* What a new or a removed link changes.
LEMMA ReferFields ==
  ASSUME NEW a, IsSchema(a), NEW s, NEW t, NEW x, NEW p, NEW scope
  PROVE  /\ s = S!Link("refer", t, x, p, scope) =>
              Columned(S!Applied(a, s), a, a.links \union {<<t, x, p, scope>>}, a.columns)
         /\ s = S!Link("unrefer", t, x, p, scope) =>
              Columned(S!Applied(a, s), a, a.links \ {<<t, x, p, scope>>}, a.columns)
<1>1. ASSUME s = S!Link("refer", t, x, p, scope)
      PROVE  Columned(S!Applied(a, s), a, a.links \union {<<t, x, p, scope>>}, a.columns)
  <2>1. s.do = "refer" /\ s.link = <<t, x, p, scope>> /\ s.do \in Adding \union Taking
    BY <1>1 DEF S!Link, Adding
  <2>2. /\ IsSchema(S!Applied(a, s))
        /\ Fields(S!Applied(a, s), a.tables, a.links \union {s.link}, a.keys, a.columns, a.isolated,
                  a.privileges, a.role, a.wide)
    BY <2>1, AppliedFields, Zenon
  <2>3. QED
    BY <2>1, <2>2 DEF Columned
<1>2. ASSUME s = S!Link("unrefer", t, x, p, scope)
      PROVE  Columned(S!Applied(a, s), a, a.links \ {<<t, x, p, scope>>}, a.columns)
  <2>1. s.do = "unrefer" /\ s.link = <<t, x, p, scope>> /\ s.do \in Adding \union Taking
    BY <1>2 DEF S!Link, Taking
  <2>2. /\ IsSchema(S!Applied(a, s))
        /\ Fields(S!Applied(a, s), a.tables, a.links \ {s.link}, a.keys, a.columns, a.isolated,
                  a.privileges, a.role, a.wide)
    BY <2>1, AppliedFields, Zenon
  <2>3. QED
    BY <2>1, <2>2 DEF Columned
<1>3. QED
  BY <1>1, <1>2

\* What a wider or a narrower column changes.
LEMMA WidenFields ==
  ASSUME NEW a, IsSchema(a), NEW s, NEW t, NEW x
  PROVE  /\ s = S!Column("widen", t, x) => Widened(S!Applied(a, s), a, a.wide \union {<<t, x>>})
         /\ s = S!Column("narrow", t, x) => Widened(S!Applied(a, s), a, a.wide \ {<<t, x>>})
<1>1. ASSUME s = S!Column("widen", t, x)
      PROVE  Widened(S!Applied(a, s), a, a.wide \union {<<t, x>>})
  <2>1. s.do = "widen" /\ s.table = t /\ s.column = x /\ s.do \in Adding \union Taking
    BY <1>1 DEF S!Column, Adding
  <2>2. /\ IsSchema(S!Applied(a, s))
        /\ Fields(S!Applied(a, s), a.tables, a.links, a.keys, a.columns, a.isolated, a.privileges, a.role,
                  a.wide \union {<<s.table, s.column>>})
    BY <2>1, AppliedFields, Zenon
  <2>3. QED
    BY <2>1, <2>2 DEF Widened
<1>2. ASSUME s = S!Column("narrow", t, x)
      PROVE  Widened(S!Applied(a, s), a, a.wide \ {<<t, x>>})
  <2>1. s.do = "narrow" /\ s.table = t /\ s.column = x /\ s.do \in Adding \union Taking
    BY <1>2 DEF S!Column, Taking
  <2>2. /\ IsSchema(S!Applied(a, s))
        /\ Fields(S!Applied(a, s), a.tables, a.links, a.keys, a.columns, a.isolated, a.privileges, a.role,
                  a.wide \ {<<s.table, s.column>>})
    BY <2>1, AppliedFields, Zenon
  <2>3. QED
    BY <2>1, <2>2 DEF Widened
<1>3. QED
  BY <1>1, <1>2

\* When these statements can be applied.
LEMMA ColumnFitting ==
  ASSUME NEW a, NEW s, NEW t, NEW x
  PROVE  /\ s = S!Column("add", t, x) /\ t \in a.tables /\ <<t, x>> \notin a.columns => S!Applicable(a, s)
         /\ s = S!Column("remove", t, x) /\ <<t, x>> \in a.columns => S!Applicable(a, s)
         /\ s = S!Column("widen", t, x) \/ s = S!Column("narrow", t, x) => S!Applicable(a, s)
<1>1. ASSUME s = S!Column("add", t, x), t \in a.tables, <<t, x>> \notin a.columns PROVE S!Applicable(a, s)
  <2>1. s.do = "add" /\ s.table = t /\ s.column = x
    BY <1>1 DEF S!Column
  <2>2. QED
    BY <1>1, <2>1 DEF S!Applicable
<1>2. ASSUME s = S!Column("remove", t, x), <<t, x>> \in a.columns PROVE S!Applicable(a, s)
  <2>1. s.do = "remove" /\ s.table = t /\ s.column = x
    BY <1>2 DEF S!Column
  <2>2. QED
    BY <1>2, <2>1 DEF S!Applicable
<1>3. ASSUME s = S!Column("widen", t, x) \/ s = S!Column("narrow", t, x) PROVE S!Applicable(a, s)
  <2>1. s.do = "widen" \/ s.do = "narrow"
    BY <1>3 DEF S!Column
  <2>2. QED
    BY <2>1 DEF S!Applicable
<1>4. QED
  BY <1>1, <1>2, <1>3

\* When a link can be added or removed.
LEMMA LinkFitting ==
  ASSUME NEW a, NEW s, NEW t, NEW x, NEW p, NEW scope
  PROVE  /\ /\ s = S!Link("refer", t, x, p, scope) /\ <<t, x, p, scope>> \notin a.links
            /\ {t, p} \subseteq a.tables /\ (scope = "tenant" => <<p, S!TenantKey>> \in a.keys)
            => S!Applicable(a, s)
         /\ s = S!Link("unrefer", t, x, p, scope) /\ <<t, x, p, scope>> \in a.links => S!Applicable(a, s)
<1>1. ASSUME s = S!Link("refer", t, x, p, scope), <<t, x, p, scope>> \notin a.links,
             {t, p} \subseteq a.tables, scope = "tenant" => <<p, S!TenantKey>> \in a.keys
      PROVE  S!Applicable(a, s)
  <2>1. s.do = "refer" /\ s.link = <<t, x, p, scope>>
    BY <1>1 DEF S!Link
  <2>2. s.link[1] = t /\ s.link[3] = p /\ s.link[4] = scope
    BY <2>1
  <2>3. QED
    BY <1>1, <2>1, <2>2 DEF S!Applicable
<1>2. ASSUME s = S!Link("unrefer", t, x, p, scope), <<t, x, p, scope>> \in a.links PROVE S!Applicable(a, s)
  <2>1. s.do = "unrefer" /\ s.link = <<t, x, p, scope>>
    BY <1>2 DEF S!Link
  <2>2. QED
    BY <1>2, <2>1 DEF S!Applicable
<1>3. QED
  BY <1>1, <1>2

\* Only the link of a reversal is by a column that was added later.
LEMMA LaterLinks ==
  ASSUME NEW n \in 0..49, NEW q \in 0..11, NEW l \in LinksWith(n, q), l[2] \in Later
  PROVE  q >= 9 /\ l = Reversal
<1>1. l \in LinksBetween(0, n) \/ (q >= 9 /\ l = Reversal)
  BY DEF LinksWith
<1>2. ASSUME l \in LinksBetween(0, n) PROVE FALSE
  <2>1. LinkFits(l, 0, n)
    BY <1>2, LinksFit
  <2>2. QED
    BY <2>1 DEF LinkFits
<1>3. QED
  BY <1>1, <1>2

\* The first statement of a longer script.
LEMMA FirstStep ==
  ASSUME NEW d, NEW script, NEW n \in Nat, Steps(d, 0, 1 + n, script)
  PROVE  /\ d[1] = S!Applied(d[0], script[1]) /\ Steps(d, 1, n, script)
         /\ S!Applicable(d[0], script[1]) /\ Fitting(d, 1, n, script) => Fitting(d, 0, 1 + n, script)
<1>1. 0 \in Nat /\ 1 \in Nat /\ 0 + 1 = 1 /\ 0 + 1 - 1 = 0 /\ 1..1 = {1}
  OBVIOUS
<1>2. /\ Steps(d, 0, 1, script) /\ Steps(d, 1, n, script)
      /\ Fitting(d, 0, 1, script) /\ Fitting(d, 1, n, script) => Fitting(d, 0, 1 + n, script)
  BY <1>1, StepsSplit
<1>3. d[1] = S!Applied(d[0], script[1])
  BY <1>1, <1>2, Zenon DEF Steps
<1>4. S!Applicable(d[0], script[1]) => Fitting(d, 0, 1, script)
  BY <1>1, Zenon DEF Fitting
<1>5. QED
  BY <1>2, <1>3, <1>4

\* The last statement of a longer script.
LEMMA LastStep ==
  ASSUME NEW d, NEW script, NEW n \in Nat, Steps(d, 0, n + 1, script)
  PROVE  /\ d[n + 1] = S!Applied(d[n], script[n + 1]) /\ Steps(d, 0, n, script)
         /\ S!Applicable(d[n], script[n + 1]) /\ Fitting(d, 0, n, script) => Fitting(d, 0, n + 1, script)
<1>1. 0 \in Nat /\ 1 \in Nat /\ 0 + n = n /\ n + 1 - 1 = n /\ 1..1 = {1}
  OBVIOUS
<1>2. /\ Steps(d, 0, n, script) /\ Steps(d, n, 1, script)
      /\ Fitting(d, 0, n, script) /\ Fitting(d, n, 1, script) => Fitting(d, 0, n + 1, script)
  BY <1>1, StepsSplit
<1>3. d[n + 1] = S!Applied(d[n], script[n + 1])
  BY <1>1, <1>2, Zenon DEF Steps
<1>4. S!Applicable(d[n], script[n + 1]) => Fitting(d, n, 1, script)
  BY <1>1, Zenon DEF Fitting
<1>5. QED
  BY <1>2, <1>3, <1>4

-----------------------------------------------------------------------------
(* The sessions.                                                           *)

\* What the shapes of revisions 10 and 11 share, and where they differ.
LEMMA TenAndEleven ==
  ASSUME NEW n
  PROVE  /\ LinksWith(n, 10) = LinksWith(n, 11) /\ ColumnsWith(10) = ColumnsWith(11)
         /\ KeysWith(n, 10) = KeysWith(n, 11) /\ PrivilegesWith(n, 10) = PrivilegesWith(n, 11)
         /\ RoleWith(10) = RoleWith(11) /\ WideWith(10) = {}
         /\ WideWith(11) = {<<"connector_cursors", "cursor">>}
<1>1. LinksWith(n, 10) = LinksWith(n, 11) /\ KeysWith(n, 10) = KeysWith(n, 11)
  BY DEF LinksWith, KeysWith
<1>2. /\ ColumnsWith(10) = ColumnsWith(11) /\ WideWith(10) = {}
      /\ WideWith(11) = {<<"connector_cursors", "cursor">>}
  BY DEF ColumnsWith, WideWith
<1>3. PrivilegesWith(n, 10) = PrivilegesWith(n, 11) /\ RoleWith(10) = RoleWith(11)
  BY DEF PrivilegesWith, RoleWith
<1>4. QED
  BY <1>1, <1>2, <1>3

\* The sessions are the only table of revision 11.
LEMMA SessionsAlone == Above(48, 49) = {"portfolio_sessions"} /\ Name(49) = "portfolio_sessions"
<1>1. 48 + 1 = 49 /\ 49..49 = {49}
  OBVIOUS
<1>2. QED
  BY <1>1, Named DEF Above

\* The scripts of revision 11 lead there and back.
LEMMA SessionsMoves ==
  /\ Leads(S!Upgrades[11], 2, 10, 11) /\ Leads(S!Downgrades[11], 2, 11, 10)
  /\ IsList(S!Upgrades[11], 2) /\ IsList(S!Downgrades[11], 2)
<1>1. PICK up, down : up = S!SessionsUp /\ down = S!SessionsDown
  OBVIOUS
<1>2. S!Upgrades[11] = up /\ S!Downgrades[11] = down
  BY <1>1 DEF S!Upgrades, S!Downgrades
<1>3. /\ IsList(up, 2) /\ IsList(down, 2) /\ up[1] = Creation[49]
      /\ up[2] = S!Column("widen", "connector_cursors", "cursor")
      /\ down[1] = S!Column("narrow", "connector_cursors", "cursor")
      /\ down[2] = Dropping("portfolio_sessions")
  BY <1>1, SessionsList, SessionsDownList, CreationBlocks DEF S!Column
<1>4. CountAt(10) = 48 /\ CountAt(11) = 49
  BY Counts
<1>5. Span(48, 49, 1)
  BY DEF Span
<1>6. 0 \in Nat /\ 1 \in Nat /\ 2 \in Nat /\ 10 \in 1..12 /\ Kept(10, 48) /\ 1 + 1 = 2 /\ 1 + 0 = 1
  BY DEF Kept
<1>7. ASSUME NEW d, IsAt(d[0], 10), Steps(d, 0, 2, up)
      PROVE  IsAt(d[2], 11) /\ Fitting(d, 0, 2, up)
  <2>1. Shape(d[0], 48, 10)
    BY <1>4, <1>7 DEF IsAt
  <2>2. d[2] = S!Applied(d[1], up[2]) /\ Steps(d, 0, 1, up)
    BY <1>6, <1>7, LastStep
  <2>3. GuardList(up, 0, 48, 49) /\ Creates(up, 0, 1, 48) /\ Isolates(up, 0 + 1, 0, up)
    <3>1. FirstOf(up, 0) = {} /\ Above(48, 49) \ Unguarded = {}
      BY SessionsAlone DEF FirstOf, Unguarded
    <3>2. \A j \in 1..1 : up[0 + j] = Creation[48 + j]
      BY <1>3
    <3>3. QED
      BY <3>1, <3>2 DEF GuardList, Creates, Isolates
  <2>4. Shape(d[0 + 1 + 0], 49, 10) /\ Fitting(d, 0, 1 + 0, up)
    <3>1. Steps(d, 0, 1 + 0, up)
      BY <2>2
    <3>2. QED
      BY <1>5, <1>6, <2>1, <2>3, <3>1, NewTables, ZenonT(40)
  <2>5. Shape(d[1], 49, 10) /\ Fitting(d, 0, 1, up)
    BY <2>4
  <2>6. Widened(d[2], d[1], d[1].wide \union {<<"connector_cursors", "cursor">>})
    <3>1. PICK a, s : a = d[1] /\ s = up[2]
      OBVIOUS
    <3>2. IsSchema(a) /\ s = S!Column("widen", "connector_cursors", "cursor")
      BY <1>3, <2>5, <3>1 DEF Shape
    <3>3. Widened(S!Applied(a, s), a, a.wide \union {<<"connector_cursors", "cursor">>})
      BY <3>2, WidenFields, Zenon
    <3>4. QED
      BY <2>2, <3>1, <3>3
  <2>7. Shape(d[2], 49, 11)
    <3>1. PICK a, b : a = d[1] /\ b = d[2]
      OBVIOUS
    <3>2. Shape(a, 49, 10) /\ Widened(b, a, a.wide \union {<<"connector_cursors", "cursor">>})
      BY <2>5, <2>6, <3>1
    <3>3. Shape(b, 49, 11)
      BY <3>2, TenAndEleven DEF Widened, Shape, Fields
    <3>4. QED
      BY <3>1, <3>3
  <2>8. S!Applicable(d[1], up[2])
    BY <1>3, ColumnFitting, ZenonT(40)
  <2>9. Fitting(d, 0, 2, up)
    BY <1>6, <1>7, <2>5, <2>8, LastStep
  <2>10. QED
    BY <1>4, <2>7, <2>9 DEF IsAt
<1>8. ASSUME NEW d, IsAt(d[0], 11), Steps(d, 0, 2, down)
      PROVE  IsAt(d[2], 10) /\ Fitting(d, 0, 2, down)
  <2>1. Shape(d[0], 49, 11)
    BY <1>4, <1>8 DEF IsAt
  <2>2. d[1] = S!Applied(d[0], down[1]) /\ Steps(d, 1, 1, down)
    BY <1>6, <1>8, FirstStep
  <2>3. Widened(d[1], d[0], d[0].wide \ {<<"connector_cursors", "cursor">>})
    <3>1. PICK a, s : a = d[0] /\ s = down[1]
      OBVIOUS
    <3>2. IsSchema(a) /\ s = S!Column("narrow", "connector_cursors", "cursor")
      BY <1>3, <2>1, <3>1 DEF Shape
    <3>3. Widened(S!Applied(a, s), a, a.wide \ {<<"connector_cursors", "cursor">>})
      BY <3>2, WidenFields, Zenon
    <3>4. QED
      BY <2>2, <3>1, <3>3
  <2>4. Shape(d[1], 49, 10)
    <3>1. PICK a, b : a = d[0] /\ b = d[1]
      OBVIOUS
    <3>2. Shape(a, 49, 11) /\ Widened(b, a, a.wide \ {<<"connector_cursors", "cursor">>})
      BY <2>1, <2>3, <3>1
    <3>3. Shape(b, 49, 10)
      BY <3>2, TenAndEleven DEF Widened, Shape, Fields
    <3>4. QED
      BY <3>1, <3>3
  <2>5. PICK names : names = [j \in 1..1 |-> "portfolio_sessions"]
    OBVIOUS
  <2>6. DropList(names, 1, 48, 49) /\ Removes(down, 1, 1, names)
    <3>1. names[1] = "portfolio_sessions" /\ FirstOf(names, 1) = {"portfolio_sessions"}
      BY <2>5 DEF FirstOf
    <3>2. \A j \in 1..1 : j = 1
      OBVIOUS
    <3>3. Place[names[1]] = 49
      BY <3>1, PlacesKnown
    <3>4. \A t \in Names : Place[t] \in 1..49
      BY NamesListed
    <3>5. \A t \in Names : ~ (49 < Place[t] /\ Place[t] <= 49)
      BY <3>4
    <3>6. \A j \in 1..1 : down[1 + j] = Dropping(names[j])
      BY <1>3, <3>1
    <3>7. QED
      BY <3>1, <3>2, <3>3, <3>5, <3>6, SessionsAlone DEF DropList, Removes
  <2>7. Shape(d[1 + 1], 48, 10) /\ Fitting(d, 1, 1, down)
    <3>1. PICK lo, hi, q, one \in Nat : lo = 48 /\ hi = 49 /\ q = 10 /\ one = 1
      OBVIOUS
    <3>2. /\ Span(lo, hi, one) /\ Kept(q, lo) /\ Shape(d[one], hi, q) /\ Steps(d, one, one, down)
          /\ DropList(names, one, lo, hi) /\ Removes(down, one, one, names)
      BY <1>5, <1>6, <2>2, <2>4, <2>6, <3>1
    <3>3. Shape(d[one + one], lo, q) /\ Fitting(d, one, one, down)
      BY <3>2, OldTables, Zenon
    <3>4. QED
      BY <3>1, <3>3
  <2>8. S!Applicable(d[0], down[1])
    BY <1>3, ColumnFitting, ZenonT(40)
  <2>9. Fitting(d, 0, 2, down)
    BY <1>6, <1>8, <2>7, <2>8, FirstStep
  <2>10. QED
    BY <1>4, <1>6, <2>7, <2>9 DEF IsAt
<1>9. QED
  BY <1>2, <1>3, <1>7, <1>8 DEF Leads

-----------------------------------------------------------------------------
(* The second version: a column and twelve tables.                         *)

\* What the shapes of revisions 9 and 10 share, and where they differ.
LEMMA NineAndTen ==
  ASSUME NEW n
  PROVE  /\ LinksWith(n, 9) = LinksWith(n, 10) /\ WideWith(9) = WideWith(10)
         /\ KeysWith(n, 9) = KeysWith(n, 10) /\ PrivilegesWith(n, 9) = PrivilegesWith(n, 10)
         /\ RoleWith(9) = RoleWith(10) /\ ColumnsWith(9) = V1Added
         /\ ColumnsWith(10) = V1Added \union {<<"invoices", "account_owner">>}
         /\ <<"invoices", "account_owner">> \notin V1Added
<1>1. LinksWith(n, 9) = LinksWith(n, 10) /\ KeysWith(n, 9) = KeysWith(n, 10)
  BY DEF LinksWith, KeysWith
<1>2. /\ WideWith(9) = WideWith(10) /\ ColumnsWith(9) = V1Added
      /\ ColumnsWith(10) = V1Added \union {<<"invoices", "account_owner">>}
  BY DEF ColumnsWith, WideWith
<1>3. PrivilegesWith(n, 9) = PrivilegesWith(n, 10) /\ RoleWith(9) = RoleWith(10)
  BY DEF PrivilegesWith, RoleWith
<1>4. <<"invoices", "account_owner">> \notin V1Added
  BY DEF V1Added
<1>5. QED
  BY <1>1, <1>2, <1>3, <1>4

\* The tables that revision 10 isolates are the twelve that it creates, in order.
LEMMA V2Names == \A j \in 1..12 : S!V2Tables[j] = Name(36 + j)
BY Named DEF S!V2Tables

\* The scripts of revision 10 lead there and back.
LEMMA V2Moves ==
  /\ Leads(S!Upgrades[10], 25, 9, 10) /\ Leads(S!Downgrades[10], 13, 10, 9)
  /\ IsList(S!Upgrades[10], 25) /\ IsList(S!Downgrades[10], 13)
<1>1. PICK up, down : up = S!V2Up /\ down = S!V2Down
  OBVIOUS
<1>2. S!Upgrades[10] = up /\ S!Downgrades[10] = down
  BY <1>1 DEF S!Upgrades, S!Downgrades
<1>3. /\ IsList(up, 25) /\ IsList(down, 13)
      /\ up[1] = S!Column("add", "invoices", "account_owner")
      /\ down[13] = S!Column("remove", "invoices", "account_owner")
  BY <1>1, V2List, V2DownList DEF S!V2Predictions
<1>4. PICK lo, hi, q, c, one \in Nat : lo = 36 /\ hi = 48 /\ q = 10 /\ c = 12 /\ one = 1
  OBVIOUS
<1>5. /\ CountAt(9) = lo /\ CountAt(10) = hi /\ Span(lo, hi, c) /\ Kept(q, lo) /\ q \in 1..12 /\ 0 \in Nat
      /\ one + c = 13 /\ one + c + c = 25 /\ c + one = 13 /\ c + c \in Nat
  BY <1>4, Counts DEF Span, Kept
<1>6. Creates(up, one, c, lo)
  <2>1. \A i \in 1..5 : up[1 + i] = S!V2Predictions[1 + i]
    <3>1. \A i \in 1..5 : 1 + i \in 1..6
      OBVIOUS
    <3>2. QED
      BY <1>1, <3>1, V2List
  <2>2. \A i \in 1..5 : up[1 + i] = Creation[36 + i]
    BY <2>1, CreationBlocks
  <2>3. \A i \in 1..7 : up[6 + i] = Creation[41 + i]
    BY <1>1, V2List, CreationBlocks
  <2>4. \A j \in 1..12 : j \in 1..5 \/ (j - 5 \in 1..7 /\ 6 + (j - 5) = 1 + j /\ 41 + (j - 5) = 36 + j)
    OBVIOUS
  <2>5. QED
    BY <1>4, <2>2, <2>3, <2>4 DEF Creates
<1>7. Isolates(up, one + c, c, Upward(lo))
  <2>1. \A j \in 1..12 : j \in Nat
    OBVIOUS
  <2>2. \A j \in 1..12 : Upward(36)[j] = Name(36 + j)
    BY <2>1, Zenon DEF Upward
  <2>3. \A j \in 1..12 : up[13 + j] = [do |-> "isolate", table |-> Upward(36)[j]]
    BY <1>1, <2>2, V2List, V2Names
  <2>4. QED
    BY <1>4, <1>5, <2>3 DEF Isolates
<1>8. GuardList(Upward(lo), c, lo, hi)
  <2>1. lo \in 0..49 /\ c \in 0..(49 - lo) /\ lo + c = hi /\ hi \in 0..49
    BY <1>4
  <2>2. AllOf(Upward(lo), c, lo, lo + c)
    BY <2>1, UpwardNames, Zenon
  <2>3. \A t : t \in Above(lo, hi) => lo < Place[t] /\ Place[t] <= hi
    BY <2>1, AboveByPlace, Zenon
  <2>4. \A t \in Unguarded : t \notin Above(lo, hi)
    BY <1>4, <2>3, PlacesKnown DEF Unguarded
  <2>5. QED
    BY <2>1, <2>2, <2>4 DEF GuardList, AllOf
<1>9. Removes(down, 0, c, Downward(hi))
  <2>1. \A j \in 1..12 : j \in Nat /\ 13 - j \in 1..12 /\ 36 + (13 - j) = 48 + 1 - j /\ 0 + j = j
    OBVIOUS
  <2>2. \A j \in 1..12 : Downward(48)[j] = Name(48 + 1 - j)
    BY <2>1, Zenon DEF Downward
  <2>3. \A j \in 1..12 : S!V2Tables[13 - j] = Name(48 + 1 - j)
    BY <2>1, V2Names
  <2>4. \A j \in 1..12 : down[j] = Dropping(Downward(48)[j])
    BY <1>1, <2>2, <2>3, V2DownList
  <2>5. QED
    BY <1>4, <2>1, <2>4 DEF Removes
<1>10. DropList(Downward(hi), c, lo, hi)
  <2>1. lo \in 0..49 /\ hi \in lo..49 /\ c = hi - lo
    BY <1>4
  <2>2. QED
    BY <2>1, DownwardNames, Zenon
<1>11. ASSUME NEW d, IsAt(d[0], 9), Steps(d, 0, 25, up)
       PROVE  IsAt(d[25], 10) /\ Fitting(d, 0, 25, up)
  <2>1. PICK a, b : a = d[0] /\ b = d[one]
    OBVIOUS
  <2>2. Shape(a, lo, 9)
    BY <1>5, <1>11, <2>1 DEF IsAt
  <2>3. Steps(d, 0, one + (c + c), up) /\ b = S!Applied(a, up[1]) /\ Steps(d, one, c + c, up)
    <3>1. one = 1 /\ one + (c + c) = 25
      BY <1>4
    <3>2. Steps(d, 0, 1 + (c + c), up)
      BY <1>4, <1>11
    <3>3. QED
      BY <1>5, <2>1, <3>1, <3>2, FirstStep
  <2>4. Columned(b, a, a.links, a.columns \union {<<"invoices", "account_owner">>})
    <3>1. PICK s : s = up[1]
      OBVIOUS
    <3>2. s = S!Column("add", "invoices", "account_owner") /\ IsSchema(a) /\ b = S!Applied(a, s)
      BY <1>3, <2>2, <2>3, <3>1 DEF Shape
    <3>3. Columned(S!Applied(a, s), a, a.links, a.columns \union {<<"invoices", "account_owner">>})
      BY <3>2, AddFields, Zenon
    <3>4. QED
      BY <3>2, <3>3
  <2>5. Shape(b, lo, 10)
    BY <2>2, <2>4, NineAndTen DEF Shape, Columned, Fields
  <2>6. Shape(d[one + c + c], hi, q) /\ Fitting(d, one, c + c, up)
    <3>1. Shape(d[one], lo, q)
      BY <1>4, <2>1, <2>5
    <3>2. QED
      BY <1>5, <1>6, <1>7, <1>8, <2>3, <3>1, NewTables, Zenon
  <2>7. S!Applicable(a, up[1])
    <3>1. "invoices" \in a.tables
      <4>1. lo \in 0..49 /\ 13 <= lo
        BY <1>4
      <4>2. "invoices" \in TablesUpTo(lo)
        BY <4>1, TablesByPlace, PlacesKnown
      <4>3. QED
        BY <2>2, <4>2 DEF Shape, Fields
    <3>2. <<"invoices", "account_owner">> \notin a.columns
      BY <2>2, NineAndTen DEF Shape, Fields
    <3>3. PICK s : s = up[1]
      OBVIOUS
    <3>4. s = S!Column("add", "invoices", "account_owner")
      BY <1>3, <3>3
    <3>5. S!Applicable(a, s)
      BY <3>1, <3>2, <3>4, ColumnFitting, Zenon
    <3>6. QED
      BY <3>3, <3>5
  <2>8. Fitting(d, 0, 25, up)
    <3>1. Fitting(d, 1, c + c, up) /\ Steps(d, 0, 1 + (c + c), up) /\ S!Applicable(d[0], up[1])
      BY <1>4, <2>1, <2>3, <2>6, <2>7
    <3>2. Fitting(d, 0, 1 + (c + c), up)
      BY <1>5, <3>1, FirstStep
    <3>3. QED
      BY <1>4, <3>2
  <2>9. IsAt(d[25], 10)
    BY <1>4, <1>5, <2>6 DEF IsAt
  <2>10. QED
    BY <2>8, <2>9
<1>12. ASSUME NEW d, IsAt(d[0], 10), Steps(d, 0, 13, down)
       PROVE  IsAt(d[13], 9) /\ Fitting(d, 0, 13, down)
  <2>1. PICK a, b : a = d[c] /\ b = d[13]
    OBVIOUS
  <2>2. Shape(d[0], hi, q)
    BY <1>4, <1>5, <1>12 DEF IsAt
  <2>3. Steps(d, 0, c, down) /\ b = S!Applied(a, down[13])
    <3>1. Steps(d, 0, c + 1, down)
      BY <1>4, <1>12
    <3>2. d[c + 1] = S!Applied(d[c], down[c + 1]) /\ Steps(d, 0, c, down)
      BY <3>1, LastStep
    <3>3. c + 1 = 13
      BY <1>4
    <3>4. QED
      BY <2>1, <3>2, <3>3
  <2>4. Shape(d[0 + c], lo, q) /\ Fitting(d, 0, c, down)
    BY <1>5, <1>9, <1>10, <2>2, <2>3, OldTables, Zenon
  <2>5. Shape(a, lo, 10)
    BY <1>4, <2>1, <2>4
  <2>6. \A l \in a.links : l[2] # "account_owner"
    <3>1. lo \in 0..49 /\ 10 \in 0..11
      BY <1>4
    <3>2. \A l \in LinksWith(lo, 10) : l[2] \in Later => l = Reversal
      BY <3>1, LaterLinks
    <3>3. Reversal[2] # "account_owner" /\ "account_owner" \in Later
      BY DEF Reversal, Later
    <3>4. a.links = LinksWith(lo, 10)
      BY <2>5 DEF Shape, Fields
    <3>5. QED
      BY <3>2, <3>3, <3>4
  <2>7. Columned(b, a, a.links, a.columns \ {<<"invoices", "account_owner">>})
    <3>1. PICK s : s = down[13]
      OBVIOUS
    <3>2. s = S!Column("remove", "invoices", "account_owner") /\ IsSchema(a) /\ b = S!Applied(a, s)
      BY <1>3, <2>3, <2>5, <3>1 DEF Shape
    <3>3. Columned(S!Applied(a, s), a, a.links, a.columns \ {<<"invoices", "account_owner">>})
      BY <2>6, <3>2, RemoveFields, Zenon
    <3>4. QED
      BY <3>2, <3>3
  <2>8. Shape(b, lo, 9)
    BY <2>5, <2>7, NineAndTen DEF Shape, Columned, Fields
  <2>9. S!Applicable(a, down[13])
    <3>1. <<"invoices", "account_owner">> \in a.columns
      BY <2>5, NineAndTen DEF Shape, Fields
    <3>2. PICK s : s = down[13]
      OBVIOUS
    <3>3. s = S!Column("remove", "invoices", "account_owner")
      BY <1>3, <3>2
    <3>4. S!Applicable(a, s)
      BY <3>1, <3>3, ColumnFitting, Zenon
    <3>5. QED
      BY <3>2, <3>4
  <2>10. Fitting(d, 0, 13, down)
    <3>1. c + 1 = 13
      BY <1>4
    <3>2. Fitting(d, 0, c + 1, down)
      BY <1>12, <2>1, <2>4, <2>9, <3>1, LastStep
    <3>3. QED
      BY <3>1, <3>2
  <2>11. QED
    BY <1>5, <2>1, <2>8, <2>10 DEF IsAt
<1>13. QED
  BY <1>2, <1>3, <1>11, <1>12 DEF Leads

-----------------------------------------------------------------------------
(* The first version: five columns, the link of a reversal and twelve      *)
(* tables.                                                                 *)

\* What the shapes of revisions 8 and 9 share, and where they differ.
LEMMA EightAndNine ==
  ASSUME NEW n
  PROVE  /\ LinksWith(n, 8) = LinksBetween(0, n) /\ LinksWith(n, 9) = LinksBetween(0, n) \union {Reversal}
         /\ WideWith(8) = WideWith(9) /\ KeysWith(n, 8) = KeysWith(n, 9)
         /\ PrivilegesWith(n, 8) = PrivilegesWith(n, 9)
         /\ RoleWith(8) = RoleWith(9) /\ ColumnsWith(8) = {} /\ ColumnsWith(9) = V1Added
<1>1. /\ LinksWith(n, 8) = LinksBetween(0, n) /\ LinksWith(n, 9) = LinksBetween(0, n) \union {Reversal}
      /\ KeysWith(n, 8) = KeysWith(n, 9)
  BY DEF LinksWith, KeysWith
<1>2. WideWith(8) = WideWith(9) /\ ColumnsWith(8) = {} /\ ColumnsWith(9) = V1Added
  BY DEF ColumnsWith, WideWith
<1>3. PrivilegesWith(n, 8) = PrivilegesWith(n, 9) /\ RoleWith(8) = RoleWith(9)
  BY DEF PrivilegesWith, RoleWith
<1>4. QED
  BY <1>1, <1>2, <1>3

\* Six steps and the statements they execute.
SixSteps(d, m, script) ==
  /\ d[m + 1] = S!Applied(d[m], script[m + 1]) /\ d[m + 2] = S!Applied(d[m + 1], script[m + 2])
  /\ d[m + 3] = S!Applied(d[m + 2], script[m + 3]) /\ d[m + 4] = S!Applied(d[m + 3], script[m + 4])
  /\ d[m + 5] = S!Applied(d[m + 4], script[m + 5]) /\ d[m + 6] = S!Applied(d[m + 5], script[m + 6])
SixFit(d, m, script) ==
  /\ S!Applicable(d[m], script[m + 1]) /\ S!Applicable(d[m + 1], script[m + 2])
  /\ S!Applicable(d[m + 2], script[m + 3]) /\ S!Applicable(d[m + 3], script[m + 4])
  /\ S!Applicable(d[m + 4], script[m + 5]) /\ S!Applicable(d[m + 5], script[m + 6])

\* Six statements, one by one.
LEMMA StepsAreSix ==
  ASSUME NEW d, NEW m \in Nat, NEW script
  PROVE  /\ Steps(d, m, 6, script) => SixSteps(d, m, script)
         /\ SixFit(d, m, script) => Fitting(d, m, 6, script)
<1>1. /\ m + 1 - 1 = m /\ m + 2 - 1 = m + 1 /\ m + 3 - 1 = m + 2 /\ m + 4 - 1 = m + 3
      /\ m + 5 - 1 = m + 4 /\ m + 6 - 1 = m + 5 /\ 1..6 = {1, 2, 3, 4, 5, 6}
  OBVIOUS
<1>2. ASSUME Steps(d, m, 6, script) PROVE SixSteps(d, m, script)
  BY <1>1, <1>2, Zenon DEF Steps, SixSteps
<1>3. ASSUME SixFit(d, m, script) PROVE Fitting(d, m, 6, script)
  BY <1>1, <1>3, Zenon DEF Fitting, SixFit
<1>4. QED
  BY <1>2, <1>3

Bank == "bank_transactions"
Paid == "payment_allocations"

\* The tables that revision 9 gives columns exist before it.
LEMMA BankTables == {Bank, Paid} \subseteq TablesUpTo(24)
<1>1. 24 \in 0..49 /\ 22 <= 24 /\ 23 <= 24
  OBVIOUS
<1>2. QED
  BY <1>1, TablesByPlace, PlacesKnown DEF Bank, Paid

\* The columns of revision 9, one by one.
LEMMA V1Adds ==
  V1Added = {<<Bank, "transaction_type">>, <<Bank, "reversal_of_id">>, <<Bank, "correction_version">>,
             <<Paid, "reversed_by">>, <<Paid, "reversal_reason">>}
BY Zenon DEF V1Added, Bank, Paid

\* Six statements, each applied to what the one before it has left.
SixApplied(a, b, c, e, f, g, h, s1, s2, s3, s4, s5, s6) ==
  /\ b = S!Applied(a, s1) /\ c = S!Applied(b, s2) /\ e = S!Applied(c, s3) /\ f = S!Applied(e, s4)
  /\ g = S!Applied(f, s5) /\ h = S!Applied(g, s6)
SixApplicable(a, b, c, e, f, g, s1, s2, s3, s4, s5, s6) ==
  /\ S!Applicable(a, s1) /\ S!Applicable(b, s2) /\ S!Applicable(c, s3) /\ S!Applicable(e, s4)
  /\ S!Applicable(f, s5) /\ S!Applicable(g, s6)
\* The statements about the columns of payments, and those that take them back.
Arriving(s1, s2, s3, s4, s5, s6) ==
  /\ s1 = S!Column("add", Bank, "transaction_type") /\ s2 = S!Column("add", Bank, "reversal_of_id")
  /\ s3 = S!Link("refer", Bank, "reversal_of_id", Bank, "id")
  /\ s4 = S!Column("add", Bank, "correction_version") /\ s5 = S!Column("add", Paid, "reversed_by")
  /\ s6 = S!Column("add", Paid, "reversal_reason")
Leaving(s1, s2, s3, s4, s5, s6) ==
  /\ s1 = S!Column("remove", Paid, "reversal_reason") /\ s2 = S!Column("remove", Paid, "reversed_by")
  /\ s3 = S!Column("remove", Bank, "correction_version")
  /\ s4 = S!Link("unrefer", Bank, "reversal_of_id", Bank, "id")
  /\ s5 = S!Column("remove", Bank, "reversal_of_id") /\ s6 = S!Column("remove", Bank, "transaction_type")

\* What the first six statements do.
LEMMA ColumnsArrive ==
  ASSUME NEW a, NEW b, NEW c, NEW e, NEW f, NEW g, NEW h,
         NEW s1, NEW s2, NEW s3, NEW s4, NEW s5, NEW s6,
         Shape(a, 24, 8), SixApplied(a, b, c, e, f, g, h, s1, s2, s3, s4, s5, s6),
         Arriving(s1, s2, s3, s4, s5, s6)
  PROVE  Shape(h, 24, 9) /\ SixApplicable(a, b, c, e, f, g, s1, s2, s3, s4, s5, s6)
<1> /\ b = S!Applied(a, s1) /\ c = S!Applied(b, s2) /\ e = S!Applied(c, s3) /\ f = S!Applied(e, s4)
    /\ g = S!Applied(f, s5) /\ h = S!Applied(g, s6)
  BY DEF SixApplied
<1> /\ s1 = S!Column("add", Bank, "transaction_type") /\ s2 = S!Column("add", Bank, "reversal_of_id")
    /\ s3 = S!Link("refer", Bank, "reversal_of_id", Bank, "id")
    /\ s4 = S!Column("add", Bank, "correction_version") /\ s5 = S!Column("add", Paid, "reversed_by")
    /\ s6 = S!Column("add", Paid, "reversal_reason")
  BY DEF Arriving
<1>1. /\ IsSchema(a) /\ a.columns = {} /\ a.links = LinksBetween(0, 24) /\ Bank \in a.tables
      /\ Paid \in a.tables
  BY EightAndNine, BankTables DEF Shape, Fields
<1>2. Reversal = <<Bank, "reversal_of_id", Bank, "id">>
  BY DEF Reversal, Bank
<1>3. Reversal \notin a.links
  <2>1. 24 \in 0..49 /\ 8 \in 0..11 /\ ~ (8 >= 9)
    OBVIOUS
  <2>2. Reversal[2] \in Later
    BY DEF Reversal, Later
  <2>3. Reversal \notin LinksWith(24, 8)
    BY <2>1, <2>2, LaterLinks
  <2>4. QED
    BY <1>1, <2>3, EightAndNine
<1>4. Columned(b, a, a.links, a.columns \union {<<Bank, "transaction_type">>})
  BY <1>1, AddFields, Zenon
<1>5. Columned(c, b, b.links, b.columns \union {<<Bank, "reversal_of_id">>})
  BY <1>4, AddFields, Zenon DEF Columned
<1>6. Columned(e, c, c.links \union {Reversal}, c.columns)
  BY <1>2, <1>5, ReferFields, Zenon DEF Columned
<1>7. Columned(f, e, e.links, e.columns \union {<<Bank, "correction_version">>})
  <2>1. IsSchema(e)
    BY <1>6 DEF Columned
  <2>2. Columned(S!Applied(e, s4), e, e.links, e.columns \union {<<Bank, "correction_version">>})
    BY <2>1, AddFields, Zenon
  <2>3. QED
    BY <2>2
<1>8. Columned(g, f, f.links, f.columns \union {<<Paid, "reversed_by">>})
  <2>1. IsSchema(f)
    BY <1>7 DEF Columned
  <2>2. Columned(S!Applied(f, s5), f, f.links, f.columns \union {<<Paid, "reversed_by">>})
    BY <2>1, AddFields, Zenon
  <2>3. QED
    BY <2>2
<1>9. Columned(h, g, g.links, g.columns \union {<<Paid, "reversal_reason">>})
  <2>1. IsSchema(g)
    BY <1>8 DEF Columned
  <2>2. Columned(S!Applied(g, s6), g, g.links, g.columns \union {<<Paid, "reversal_reason">>})
    BY <2>1, AddFields, Zenon
  <2>3. QED
    BY <2>2
<1>10. PICK one, two, three, four, five :
         /\ one = <<Bank, "transaction_type">> /\ two = <<Bank, "reversal_of_id">>
         /\ three = <<Bank, "correction_version">> /\ four = <<Paid, "reversed_by">>
         /\ five = <<Paid, "reversal_reason">>
  OBVIOUS
<1>11. /\ one # two /\ three \notin {one, two} /\ four \notin {one, two, three}
       /\ five \notin {one, two, three, four}
  BY <1>10 DEF Bank, Paid
<1>12. /\ b.columns = {one} /\ c.columns = {one, two} /\ e.columns = {one, two}
       /\ f.columns = {one, two, three} /\ g.columns = {one, two, three, four}
       /\ h.columns = {one, two, three, four, five}
  <2>1. /\ b.columns = a.columns \union {one} /\ c.columns = b.columns \union {two}
        /\ e.columns = c.columns /\ f.columns = e.columns \union {three}
        /\ g.columns = f.columns \union {four} /\ h.columns = g.columns \union {five}
    BY <1>4, <1>5, <1>6, <1>7, <1>8, <1>9, <1>10, Zenon DEF Columned, Fields
  <2>2. b.columns = {one} /\ c.columns = {one, two} /\ e.columns = {one, two}
    BY <1>1, <2>1
  <2>3. f.columns = {one, two, three}
    BY <2>1, <2>2
  <2>4. g.columns = {one, two, three, four}
    BY <2>1, <2>3
  <2>5. h.columns = {one, two, three, four, five}
    BY <2>1, <2>4
  <2>6. QED
    BY <2>2, <2>3, <2>4, <2>5
<1>13. /\ b.links = a.links /\ c.links = a.links /\ h.links = a.links \union {Reversal}
  BY <1>4, <1>5, <1>6, <1>7, <1>8, <1>9 DEF Columned, Fields
<1>14. /\ b.tables = a.tables /\ c.tables = a.tables /\ e.tables = a.tables /\ f.tables = a.tables
       /\ g.tables = a.tables
  BY <1>4, <1>5, <1>6, <1>7, <1>8 DEF Columned, Fields
<1>15. Shape(h, 24, 9)
  <2>1. h.columns = ColumnsWith(9)
    BY <1>10, <1>12, V1Adds, EightAndNine
  <2>2. h.links = LinksWith(24, 9)
    BY <1>1, <1>13, EightAndNine
  <2>3. /\ IsSchema(h) /\ h.tables = a.tables /\ h.keys = a.keys /\ h.isolated = a.isolated
        /\ h.privileges = a.privileges /\ h.role = a.role /\ h.wide = a.wide
    BY <1>4, <1>5, <1>6, <1>7, <1>8, <1>9 DEF Columned, Fields
  <2>4. QED
    BY <2>1, <2>2, <2>3, EightAndNine DEF Shape, Fields
<1>16. S!Applicable(a, s1)
  BY <1>1, ColumnFitting
<1>17. S!Applicable(b, s2)
  BY <1>1, <1>10, <1>11, <1>12, <1>14, ColumnFitting
<1>18. S!Applicable(c, s3)
  <2>1. "id" # "tenant" /\ {Bank, Bank} \subseteq c.tables
    BY <1>1, <1>14
  <2>2. <<Bank, "reversal_of_id", Bank, "id">> \notin c.links
    BY <1>2, <1>3, <1>13
  <2>3. QED
    BY <2>1, <2>2, LinkFitting, Zenon
<1>19. S!Applicable(e, s4)
  BY <1>1, <1>10, <1>11, <1>12, <1>14, ColumnFitting
<1>20. S!Applicable(f, s5)
  BY <1>1, <1>10, <1>11, <1>12, <1>14, ColumnFitting
<1>21. S!Applicable(g, s6)
  BY <1>1, <1>10, <1>11, <1>12, <1>14, ColumnFitting
<1>22. QED
  BY <1>15, <1>16, <1>17, <1>18, <1>19, <1>20, <1>21 DEF SixApplicable

\* What the last six statements of the downgrade do.
LEMMA ColumnsLeave ==
  ASSUME NEW a, NEW b, NEW c, NEW e, NEW f, NEW g, NEW h,
         NEW s1, NEW s2, NEW s3, NEW s4, NEW s5, NEW s6,
         Shape(a, 24, 9), SixApplied(a, b, c, e, f, g, h, s1, s2, s3, s4, s5, s6),
         Leaving(s1, s2, s3, s4, s5, s6)
  PROVE  Shape(h, 24, 8) /\ SixApplicable(a, b, c, e, f, g, s1, s2, s3, s4, s5, s6)
<1> /\ b = S!Applied(a, s1) /\ c = S!Applied(b, s2) /\ e = S!Applied(c, s3) /\ f = S!Applied(e, s4)
    /\ g = S!Applied(f, s5) /\ h = S!Applied(g, s6)
  BY DEF SixApplied
<1> /\ s1 = S!Column("remove", Paid, "reversal_reason") /\ s2 = S!Column("remove", Paid, "reversed_by")
    /\ s3 = S!Column("remove", Bank, "correction_version")
    /\ s4 = S!Link("unrefer", Bank, "reversal_of_id", Bank, "id")
    /\ s5 = S!Column("remove", Bank, "reversal_of_id") /\ s6 = S!Column("remove", Bank, "transaction_type")
  BY DEF Leaving
<1>1. /\ IsSchema(a) /\ a.columns = V1Added /\ a.links = LinksBetween(0, 24) \union {Reversal}
  BY EightAndNine DEF Shape, Fields
<1>2. Reversal = <<Bank, "reversal_of_id", Bank, "id">>
  BY DEF Reversal, Bank
<1>3. \A l \in LinksBetween(0, 24) : l[2] \notin Later /\ l # Reversal
  <2>1. 24 \in 0..49 /\ 8 \in 0..11 /\ ~ (8 >= 9)
    OBVIOUS
  <2>2. Reversal[2] \in Later
    BY DEF Reversal, Later
  <2>3. \A l \in LinksWith(24, 8) : l[2] \notin Later
    BY <2>1, LaterLinks
  <2>4. QED
    BY <2>2, <2>3, EightAndNine
<1>4. \A l \in a.links : l[2] \in Later => l[2] = "reversal_of_id"
  BY <1>1, <1>3 DEF Reversal
<1>5. {"reversal_reason", "reversed_by", "correction_version", "reversal_of_id",
          "transaction_type"} \subseteq Later
  BY DEF Later
<1>6. Columned(b, a, a.links, a.columns \ {<<Paid, "reversal_reason">>})
  <2>1. \A l \in a.links : l[2] # "reversal_reason"
    BY <1>4, <1>5
  <2>2. QED
    BY <1>1, <2>1, RemoveFields, Zenon
<1>7. Columned(c, b, b.links, b.columns \ {<<Paid, "reversed_by">>})
  <2>1. \A l \in b.links : l[2] # "reversed_by"
    BY <1>4, <1>5, <1>6 DEF Columned, Fields
  <2>2. QED
    BY <1>6, <2>1, RemoveFields, Zenon DEF Columned
<1>8. Columned(e, c, c.links, c.columns \ {<<Bank, "correction_version">>})
  <2>1. \A l \in c.links : l[2] # "correction_version"
    BY <1>4, <1>5, <1>6, <1>7 DEF Columned, Fields
  <2>2. QED
    BY <1>7, <2>1, RemoveFields, Zenon DEF Columned
<1>9. Columned(f, e, e.links \ {Reversal}, e.columns)
  <2>1. IsSchema(e)
    BY <1>8 DEF Columned
  <2>2. Columned(S!Applied(e, s4), e, e.links \ {<<Bank, "reversal_of_id", Bank, "id">>}, e.columns)
    BY <2>1, ReferFields, Zenon
  <2>3. QED
    BY <1>2, <2>2
<1>10. e.links = a.links /\ f.links = LinksBetween(0, 24)
  BY <1>1, <1>3, <1>6, <1>7, <1>8, <1>9 DEF Columned, Fields
<1>11. Columned(g, f, f.links, f.columns \ {<<Bank, "reversal_of_id">>})
  <2>1. \A l \in f.links : l[2] # "reversal_of_id"
    BY <1>3, <1>5, <1>10
  <2>2. QED
    BY <1>9, <2>1, RemoveFields, ZenonT(40) DEF Columned
<1>12. Columned(h, g, g.links, g.columns \ {<<Bank, "transaction_type">>})
  <2>1. \A l \in g.links : l[2] # "transaction_type"
    BY <1>3, <1>5, <1>10, <1>11 DEF Columned, Fields
  <2>2. IsSchema(g)
    BY <1>11 DEF Columned
  <2>3. Columned(S!Applied(g, s6), g, g.links, g.columns \ {<<Bank, "transaction_type">>})
    BY <2>1, <2>2, RemoveFields, Zenon
  <2>4. QED
    BY <2>3
<1>13. PICK one, two, three, four, five :
         /\ one = <<Bank, "transaction_type">> /\ two = <<Bank, "reversal_of_id">>
         /\ three = <<Bank, "correction_version">> /\ four = <<Paid, "reversed_by">>
         /\ five = <<Paid, "reversal_reason">>
  OBVIOUS
<1>14. /\ one # two /\ three \notin {one, two} /\ four \notin {one, two, three}
       /\ five \notin {one, two, three, four}
  BY <1>13 DEF Bank, Paid
<1>15. a.columns = {one, two, three, four, five}
  BY <1>1, <1>13, V1Adds
<1>16. /\ b.columns = {one, two, three, four} /\ c.columns = {one, two, three} /\ e.columns = {one, two}
       /\ f.columns = {one, two} /\ g.columns = {one} /\ h.columns = {}
  <2>1. /\ b.columns = a.columns \ {five} /\ c.columns = b.columns \ {four}
        /\ e.columns = c.columns \ {three} /\ f.columns = e.columns
        /\ g.columns = f.columns \ {two} /\ h.columns = g.columns \ {one}
    BY <1>6, <1>7, <1>8, <1>9, <1>11, <1>12, <1>13, Zenon DEF Columned, Fields
  <2>2. b.columns = {one, two, three, four}
    BY <1>14, <1>15, <2>1
  <2>3. c.columns = {one, two, three}
    BY <1>14, <2>1, <2>2
  <2>4. e.columns = {one, two} /\ f.columns = {one, two}
    BY <1>14, <2>1, <2>3
  <2>5. g.columns = {one} /\ h.columns = {}
    BY <1>14, <2>1, <2>4
  <2>6. QED
    BY <2>2, <2>3, <2>4, <2>5
<1>17. Shape(h, 24, 8)
  <2>1. h.columns = ColumnsWith(8)
    BY <1>16, EightAndNine
  <2>2. h.links = LinksWith(24, 8)
    BY <1>10, <1>11, <1>12, EightAndNine DEF Columned, Fields
  <2>3. /\ IsSchema(h) /\ h.tables = a.tables /\ h.keys = a.keys /\ h.isolated = a.isolated
        /\ h.privileges = a.privileges /\ h.role = a.role /\ h.wide = a.wide
    BY <1>6, <1>7, <1>8, <1>9, <1>11, <1>12 DEF Columned, Fields
  <2>4. QED
    BY <2>1, <2>2, <2>3, EightAndNine DEF Shape, Fields
<1>18. /\ S!Applicable(a, s1) /\ S!Applicable(b, s2) /\ S!Applicable(c, s3)
  BY <1>13, <1>15, <1>16, ColumnFitting
<1>19. S!Applicable(e, s4)
  <2>1. <<Bank, "reversal_of_id", Bank, "id">> \in e.links
    BY <1>1, <1>2, <1>10
  <2>2. QED
    BY <2>1, LinkFitting, Zenon
<1>20. S!Applicable(f, s5) /\ S!Applicable(g, s6)
  BY <1>13, <1>16, ColumnFitting
<1>21. QED
  BY <1>17, <1>18, <1>19, <1>20 DEF SixApplicable
==============================================================================
