--------------------------- MODULE SequencesProofs ---------------------------
(***************************************************************************)
(* Theorems about the components that keep sequences: the signals of the   *)
(* case workflow, the records of the synchronisation with MISA, and the    *)
(* lines of the files that are imported.                                   *)
(***************************************************************************)
EXTENDS ComponentsProofs, SequenceTheorems

-----------------------------------------------------------------------------
(* Numbers.                                                                *)

\* A nonempty bounded set of natural numbers has a greatest member.
LEMMA GreatestNat ==
  ASSUME NEW n \in Nat, NEW set \in SUBSET (0..n), set # {}
  PROVE  \E k \in set : \A y \in set : k >= y
<1> DEFINE lower == {k \in 0..n : n - k \in set}
<1>1. lower \in SUBSET Nat /\ lower # {}
  <2>1. PICK x \in set : TRUE
    OBVIOUS
  <2>2. n - x \in lower
    BY <2>1
  <2>3. lower \in SUBSET Nat
    OBVIOUS
  <2> HIDE DEF lower
  <2>4. QED
    BY <2>2, <2>3
<1>2. PICK k \in lower : \A y \in lower : k <= y
  <2> HIDE DEF lower
  <2>1. QED
    BY <1>1, LeastNat
<1>3. \A y \in set : n - k >= y
  <2> SUFFICES ASSUME NEW y \in set PROVE n - k >= y
    OBVIOUS
  <2>1. n - y \in lower /\ y \in 0..n
    OBVIOUS
  <2>2. k <= n - y /\ k \in 0..n
    BY <1>2, <2>1
  <2> HIDE DEF lower
  <2>3. QED
    BY <2>1, <2>2
<1>4. QED
  BY <1>2, <1>3

-----------------------------------------------------------------------------
(* CaseWorkflow.                                                           *)

SignalsTyped ==
  inbox \in Seq(Statuses) /\ received \in Seq(Statuses) /\ applied \in Seq(Statuses)

\* The workflow has applied what it received except what is in its inbox; it waits only
\* in a status that is not terminal, and only then can its timer have fired.  When it
\* ends, it has applied the first signals, and has a reason to end.
SignalsInv ==
  /\ SignalsTyped
  /\ phase \in {"new", "waiting", "done"}
  /\ phase = "waiting" => status \notin W!Terminal
  /\ phase = "new" => ~ expired
  /\ phase # "done" => received = applied \o inbox
  /\ phase = "done" => W!IsPrefix(applied, received) /\ (status \in W!Terminal \/ cancelled)

WorkflowInv == focus = "workflow" => SignalsInv

\* The first of two sequences is a prefix of both together, and each of itself.
LEMMA PrefixOfBoth ==
  ASSUME NEW Elements, NEW s \in Seq(Elements), NEW t \in Seq(Elements)
  PROVE  W!IsPrefix(s, s \o t)
<1>1. s \o t \in Seq(Elements) /\ Len(s \o t) = Len(s) + Len(t) /\ Len(s) \in Nat /\ Len(t) \in Nat
  BY ConcatProperties, LenProperties
<1>2. Len(s) <= Len(s \o t)
  BY <1>1
<1>3. SubSeq(s, 1, Len(s)) = s
  BY SubSeqFull
<1>4. SubSeq(s \o t, 1, Len(s)) = s
  <2>1. CASE s = <<>>
    <3>1. Len(s) = 0
      BY <2>1
    <3>2. SubSeq(s \o t, 1, 0) = <<>>
      BY SubSeqEmpty
    <3>3. QED
      BY <2>1, <3>1, <3>2
  <2>2. CASE s # <<>>
    <3>1. Len(s) \in 1 .. Len(s) /\ 1 \in 1 .. Len(s)
      BY <1>1, <2>2, EmptySeq
    <3>2. SubSeq(s \o t, 1, Len(s)) = SubSeq(s, 1, Len(s))
      BY <3>1, SubSeqOfConcat1
    <3>3. QED
      BY <1>3, <3>2
  <2>3. QED
    BY <2>1, <2>2
<1>5. QED
  BY <1>2, <1>3, <1>4 DEF W!IsPrefix

\* Three sequences make one, however they are joined.
LEMMA JoinedBefore ==
  ASSUME NEW Elements, NEW s \in Seq(Elements), NEW t \in Seq(Elements), NEW u \in Seq(Elements),
         NEW all, all = s \o (t \o u)
  PROVE  all = (s \o t) \o u
BY SMTT(60), ConcatAssociative

\* What an activation takes is a first part of the inbox, which ends with the first
\* terminal status if there is one; and all of it otherwise.
LEMMA TakenIsFirst ==
  ASSUME SignalsInv, phase # "done"
  PROVE  /\ W!Taken \in Seq(Statuses)
         /\ \E rest \in Seq(Statuses) : inbox = W!Taken \o rest
         /\ status \notin W!Terminal =>
              \/ W!Taken = inbox
              \/ W!Taken # <<>> /\ W!Last(W!Taken) \in W!Terminal
<1> DEFINE ends == {i \in DOMAIN inbox : inbox[i] \in W!Terminal}
           last == IF ends = {} THEN Len(inbox) ELSE CHOOSE i \in ends : \A j \in ends : i <= j
<1>1. inbox \in Seq(Statuses) /\ Len(inbox) \in Nat /\ DOMAIN inbox = 1 .. Len(inbox)
  BY LenProperties DEF SignalsInv, SignalsTyped
<1>2. W!Taken = IF status \in W!Terminal THEN <<>> ELSE SubSeq(inbox, 1, last)
  BY DEF W!Taken, W!Pending
<1>3. CASE status \in W!Terminal
  <2>1. W!Taken = <<>> /\ inbox = <<>> \o inbox
    BY <1>1, <1>2, <1>3, ConcatEmptySeq
  <2>2. QED
    BY <1>1, <1>3, <2>1, EmptySeq
<1>4. CASE status \notin W!Terminal /\ ends = {}
  <2>1. W!Taken = inbox
    BY <1>1, <1>2, <1>4, SubSeqFull
  <2>2. inbox = inbox \o <<>> /\ <<>> \in Seq(Statuses)
    BY <1>1, ConcatEmptySeq, EmptySeq
  <2>3. QED
    BY <1>1, <2>1, <2>2
<1>5. CASE status \notin W!Terminal /\ ends # {}
  <2>1. PICK k \in ends : \A j \in ends : k <= j
    <3>1. ends \in SUBSET Nat
      BY <1>1
    <3> HIDE DEF ends
    <3>2. QED
      BY <1>5, <3>1, LeastNat
  <2>2. last \in ends
    BY <1>5, <2>1
  <2>3. last \in 1 .. Len(inbox) /\ inbox[last] \in W!Terminal
    BY <1>1, <2>2
  <2> HIDE DEF last, ends
  <2> DEFINE rest == SubSeq(inbox, last + 1, Len(inbox))
  <2>4. SubSeq(inbox, 1, last) \o rest = SubSeq(inbox, 1, Len(inbox))
    <3>1. 1 \in 1 .. Len(inbox) + 1 /\ last \in 1 - 1 .. Len(inbox) /\ Len(inbox) \in last .. Len(inbox)
      BY <1>1, <2>3
    <3>2. QED
      BY <1>1, <3>1, ConcatAdjacentSubSeq
  <2>5. inbox = SubSeq(inbox, 1, last) \o rest
    BY <1>1, <2>4, SubSeqFull
  <2>6. rest \in Seq(Statuses)
    <3>1. \A i \in last + 1 .. Len(inbox) : inbox[i] \in Statuses
      BY <1>1, <2>3, ElementOfSeq
    <3>2. last + 1 \in Int /\ Len(inbox) \in Int
      BY <1>1, <2>3
    <3>3. QED
      BY <3>1, <3>2, SubSeqProperties
  <2>7. /\ SubSeq(inbox, 1, last) \in Seq(Statuses) /\ Len(SubSeq(inbox, 1, last)) = last
        /\ SubSeq(inbox, 1, last)[last] = inbox[last]
    <3>1. \A i \in 1 .. last : inbox[i] \in Statuses
      BY <1>1, <2>3, ElementOfSeq
    <3>2. 1 \in Int /\ last \in Int /\ 1 <= last
      BY <1>1, <2>3
    <3>3. /\ SubSeq(inbox, 1, last) \in Seq(Statuses)
          /\ Len(SubSeq(inbox, 1, last)) = IF 1 <= last THEN last - 1 + 1 ELSE 0
          /\ \A i \in 1 .. last - 1 + 1 : SubSeq(inbox, 1, last)[i] = inbox[1 + i - 1]
      BY <3>1, <3>2, SubSeqProperties
    <3>4. QED
      BY <3>2, <3>3
  <2>8. W!Taken = SubSeq(inbox, 1, last)
    BY <1>2, <1>5
  <2>9. W!Taken # <<>> /\ W!Last(W!Taken) \in W!Terminal
    BY <2>3, <2>7, <2>8 DEF W!Last
  <2>10. QED
    BY <2>5, <2>6, <2>7, <2>8, <2>9
<1>6. QED
  BY <1>3, <1>4, <1>5

\* A step of the workflow keeps the signals in order.
LEMMA SignalStep ==
  ASSUME SignalsInv, [W!Next]_(W!vars)
  PROVE  SignalsInv'
<1>1. ASSUME NEW next \in Statuses, W!Transition(next) PROVE SignalsInv'
  <2>1. /\ phase # "done" /\ inbox' = Append(inbox, next) /\ received' = Append(received, next)
        /\ phase' = phase /\ status' = status /\ cancelled' = cancelled /\ expired' = expired
        /\ applied' = applied
    BY <1>1 DEF W!Transition
  <2>2. received = applied \o inbox
    BY <2>1 DEF SignalsInv
  <2>3. Append(applied \o inbox, next) = applied \o Append(inbox, next)
    <3>1. applied \in Seq(Statuses) /\ inbox \in Seq(Statuses)
      BY DEF SignalsInv, SignalsTyped
    <3>2. \A s, t \in Seq(Statuses) : Append(s \o t, next) = s \o Append(t, next)
      <4>1. SUFFICES ASSUME NEW s \in Seq(Statuses), NEW t \in Seq(Statuses)
                     PROVE  Append(s \o t, next) = s \o Append(t, next)
        OBVIOUS
      <4>2. QED
        BY SMTT(60), <1>1
    <3>3. QED
      BY Zenon, <3>1, <3>2
  <2>4. SignalsTyped'
    BY <1>1, <2>1 DEF SignalsInv, SignalsTyped
  <2>5. QED
    BY <2>1, <2>2, <2>3, <2>4 DEF SignalsInv, W!Terminal
<1>2. CASE W!Cancel
  BY <1>2 DEF W!Cancel, SignalsInv, SignalsTyped, W!Terminal, W!IsPrefix
<1>3. CASE W!Expire
  BY <1>3 DEF W!Expire, SignalsInv, SignalsTyped, W!Terminal, W!IsPrefix
<1>4. CASE W!Activate
  <2>1. /\ phase \in {"new", "waiting"} /\ inbox' = <<>> /\ expired' = FALSE
        /\ status' = W!Outcome.status /\ applied' = applied \o W!Outcome.taken
        /\ phase' = (IF W!Outcome.ends THEN "done" ELSE "waiting")
        /\ cancelled' = cancelled /\ received' = received
    BY <1>4 DEF W!Activate
  <2>2. phase # "done" /\ received = applied \o inbox /\ SignalsTyped
    BY <2>1 DEF SignalsInv
  <2>3. PICK taken, rest \in Seq(Statuses) : taken = W!Taken /\ inbox = taken \o rest
    BY <2>2, TakenIsFirst
  <2>4. status \notin W!Terminal =>
          taken = inbox \/ (taken # <<>> /\ W!Last(taken) \in W!Terminal)
    BY <2>2, <2>3, TakenIsFirst
  <2>5. PICK out : out = W!Outcome
    OBVIOUS
  <2>6. /\ out.taken \in {taken, <<>>}
        /\ out.ends => cancelled \/ out.status \in W!Terminal
        /\ ~ out.ends => out.taken = inbox /\ out.status \notin W!Terminal
    <3>1. CASE W!Stopped
      BY <2>5, <3>1 DEF W!Outcome, W!Stopped
    <3>2. CASE ~ W!Stopped /\ taken # <<>>
      <4>1. out = [status |-> W!Last(taken), taken |-> taken, ends |-> W!Last(taken) \in W!Terminal]
        BY <2>3, <2>5, <3>2 DEF W!Outcome
      <4>2. status \notin W!Terminal
        BY <2>3, <3>2 DEF W!Taken
      <4>3. QED
        BY <2>4, <4>1, <4>2
    <3>3. CASE ~ W!Stopped /\ taken = <<>> /\ expired
      <4>1. out = [status |-> "OVERDUE", taken |-> <<>>, ends |-> FALSE]
        BY <2>3, <2>5, <3>3 DEF W!Outcome
      <4>2. status \notin W!Terminal
        BY <2>1, <3>3 DEF SignalsInv
      <4>3. QED
        BY <2>4, <3>3, <4>1, <4>2 DEF W!Terminal
    <3>4. CASE ~ W!Stopped /\ taken = <<>> /\ ~ expired
      <4>1. out = [status |-> status, taken |-> <<>>, ends |-> status \in W!Terminal]
        BY <2>3, <2>5, <3>4 DEF W!Outcome
      <4>2. QED
        BY <2>4, <3>4, <4>1
    <3>5. QED
      BY <3>1, <3>2, <3>3, <3>4
  <2>7. out.taken \in Seq(Statuses) /\ \E left \in Seq(Statuses) : inbox = out.taken \o left
    <3>1. <<>> \in Seq(Statuses) /\ inbox = <<>> \o inbox /\ inbox \in Seq(Statuses)
      BY <2>2, EmptySeq, ConcatEmptySeq DEF SignalsTyped
    <3>2. QED
      BY <2>3, <2>6, <3>1
  <2>8. applied' \in Seq(Statuses) /\ SignalsTyped'
    <3>1. PICK o \in Seq(Statuses) : o = out.taken
      BY <2>7
    <3>2. applied \in Seq(Statuses) /\ received \in Seq(Statuses) /\ applied' = applied \o o
      BY <2>1, <2>2, <2>5, <3>1 DEF SignalsTyped
    <3>3. applied \o o \in Seq(Statuses)
      BY <3>2, ConcatProperties
    <3>4. inbox' = <<>> /\ received' = received
      BY <2>1
    <3>5. QED
      BY <3>2, <3>3, <3>4 DEF SignalsTyped
  <2>9. W!IsPrefix(applied', received)
    <3>1. PICK left \in Seq(Statuses) : inbox = out.taken \o left
      BY <2>7
    <3>2. received = (applied \o out.taken) \o left
      <4>1. PICK a, o : a = applied /\ o = out.taken
        OBVIOUS
      <4>2. a \in Seq(Statuses) /\ o \in Seq(Statuses) /\ received = a \o (o \o left)
        BY <2>2, <2>7, <3>1, <4>1 DEF SignalsTyped
      <4>3. received = (a \o o) \o left
        BY SMTT(60), <3>1, <4>2, JoinedBefore
      <4>4. QED
        BY <4>1, <4>3
    <3>3. received = applied' \o left
      BY <2>1, <2>5, <3>2
    <3>4. QED
      BY <2>8, <3>1, <3>3, PrefixOfBoth
  <2>10. CASE out.ends
    <3>1. W!IsPrefix(applied, received)'
      BY <2>1, <2>9 DEF W!IsPrefix
    <3>2. phase' = "done" /\ (status' \in W!Terminal \/ cancelled')
      BY <2>1, <2>5, <2>6, <2>10
    <3>3. QED
      BY <2>8, <3>1, <3>2 DEF SignalsInv, W!Terminal
  <2>11. CASE ~ out.ends
    <3>1. received' = applied' \o inbox'
      <4>1. applied' = received
        BY <2>1, <2>2, <2>5, <2>6, <2>11
      <4>2. applied' = applied' \o <<>>
        BY <2>8, ConcatEmptySeq
      <4>3. QED
        BY <2>1, <4>1, <4>2
    <3>2. phase' = "waiting" /\ status' \notin W!Terminal
      BY <2>1, <2>5, <2>6, <2>11
    <3>3. QED
      BY <2>8, <3>1, <3>2 DEF SignalsInv, W!Terminal
  <2>12. QED
    BY <2>10, <2>11
<1>5. CASE UNCHANGED W!vars
  BY <1>5 DEF W!vars, SignalsInv, SignalsTyped, W!Terminal, W!IsPrefix
<1>6. QED
  BY <1>1, <1>2, <1>3, <1>4, <1>5 DEF W!Next

\* The case workflow applies any signals in the order they were sent and skips none
\* before it ends, however they, the cancellation and the timer fall together; it ends in
\* a terminal status or cancelled (payment_case.py PaymentCaseWorkflow.run).
THEOREM SignalsApplied == Spec => []SignalsInOrder
<1>1. Init => WorkflowInv
  <2> SUFFICES ASSUME Init, focus = "workflow" PROVE SignalsInv
    BY DEF WorkflowInv
  <2>1. phase = "new" /\ inbox = <<>> /\ received = <<>> /\ applied = <<>> /\ expired = FALSE
    BY DEF Init, InitWorkflow, W!Init
  <2>2. <<>> \in Seq(Statuses) /\ <<>> = <<>> \o <<>>
    BY EmptySeq, ConcatEmptySeq
  <2>3. QED
    BY <2>1, <2>2 DEF SignalsInv, SignalsTyped
<1>2. WorkflowInv /\ [Next]_vars => WorkflowInv'
  BY OneComponent, SignalStep DEF WorkflowInv
<1>3. WorkflowInv => SignalsInOrder
  <2> SUFFICES ASSUME SignalsInv, focus = "workflow" PROVE W!SignalsInOrder
    BY DEF WorkflowInv, SignalsInOrder
  <2>1. CASE phase = "done"
    BY <2>1 DEF SignalsInv, W!SignalsInOrder
  <2>2. CASE phase # "done"
    <3>1. W!IsPrefix(applied, received)
      BY <2>2, PrefixOfBoth DEF SignalsInv, SignalsTyped
    <3>2. inbox = <<>> => applied = received
      BY <2>2, ConcatEmptySeq DEF SignalsInv, SignalsTyped
    <3>3. QED
      BY <2>2, <3>1, <3>2 DEF W!SignalsInOrder
  <2>3. QED
    BY <2>1, <2>2
<1>4. QED
  BY <1>1, <1>2, <1>3, PTL DEF Spec

-----------------------------------------------------------------------------
(* What folding Take over a page computes.                                 *)

\* The entry of the fold for a set of positions: the last one is put last.
Entry(h, base, page, set) == IF set = {} THEN base ELSE M!Take(h[set \ {M!Max(set)}], page[M!Max(set)])
\* h is the table of these entries for the positions in set.
IsTable(h, base, page, set) == h = [part \in SUBSET set |-> Entry(h, base, page, part)]
\* The table the fold computes.
Table(base, page, set) == CHOOSE h : IsTable(h, base, page, set)

\* A fold is the entry of the table for all positions.
LEMMA FoldIsEntry ==
  \A base, page : M!FoldLeft(M!Take, base, page) = Table(base, page, DOMAIN page)[DOMAIN page]
BY Zenon DEF M!FoldLeft, M!MapThenFoldSet, Table, IsTable, Entry

\* Which is what M!Max chooses.
LEMMA MaxIn ==
  ASSUME NEW n \in Nat, NEW set \in SUBSET (0..n), set # {}
  PROVE  M!Max(set) \in set /\ \A y \in set : M!Max(set) >= y
BY GreatestNat DEF M!Max

\* The last of the positions up to n, if n is among them.
LEMMA MaxIs ==
  ASSUME NEW n \in Nat, NEW set \in SUBSET (0..n), n \in set
  PROVE  M!Max(set) = n
<1>1. M!Max(set) \in set /\ M!Max(set) >= n
  BY MaxIn
<1>2. M!Max(set) \in 0..n
  BY <1>1
<1>3. QED
  BY <1>1, <1>2

\* Every initial segment has a table.
LEMMA TableExists ==
  ASSUME NEW base, NEW page, NEW n \in Nat
  PROVE  \E h : IsTable(h, base, page, 1..n)
<1> DEFINE lower == {k \in Nat : ~ \E h : IsTable(h, base, page, 1..k)}
<1>1. SUFFICES ASSUME lower # {} PROVE FALSE
  OBVIOUS
<1>2. PICK k \in lower : \A y \in lower : k <= y
  <2>1. lower \in SUBSET Nat
    OBVIOUS
  <2> HIDE DEF lower
  <2>2. QED
    BY <1>1, <2>1, LeastNat
<1>3. CASE k = 0
  <2>1. IsTable([part \in SUBSET (1..0) |-> base], base, page, 1..0)
    BY DEF IsTable, Entry
  <2>2. QED
    BY <1>2, <1>3, <2>1
<1>4. CASE k # 0
  <2>1. k - 1 \in Nat /\ k - 1 \notin lower
    BY <1>2, <1>4
  <2>2. PICK g : IsTable(g, base, page, 1..(k - 1))
    BY <2>1
  <2> DEFINE h == [part \in SUBSET (1..k) |->
                     IF k \in part THEN M!Take(g[part \ {k}], page[k]) ELSE g[part]]
  <2>3. ASSUME NEW part \in SUBSET (1..k)
        PROVE  h[part] = Entry(h, base, page, part)
    <3>1. CASE k \in part
      <4>1. part \ {k} \in SUBSET (1..(k - 1)) /\ part \ {k} \in SUBSET (1..k) /\ k \notin part \ {k}
        BY <1>2
      <4>2. M!Max(part) = k
        BY <1>2, <3>1, MaxIs
      <4>3. h[part \ {k}] = g[part \ {k}]
        BY <4>1
      <4>4. h[part] = M!Take(g[part \ {k}], page[k])
        BY <3>1
      <4> HIDE DEF h
      <4>5. QED
        BY <3>1, <4>2, <4>3, <4>4 DEF Entry
    <3>2. CASE k \notin part
      <4>1. part \in SUBSET (1..(k - 1))
        BY <1>2, <3>2
      <4>2. g[part] = Entry(g, base, page, part) /\ h[part] = g[part]
        BY <2>2, <3>2, <4>1 DEF IsTable
      <4>3. CASE part = {}
        BY <4>2, <4>3 DEF Entry
      <4>4. CASE part # {}
        <5>1. part \ {M!Max(part)} \in SUBSET (1..k) /\ k \notin part \ {M!Max(part)}
          BY <3>2
        <5>2. h[part \ {M!Max(part)}] = g[part \ {M!Max(part)}]
          BY <5>1
        <5> HIDE DEF h
        <5>3. QED
          BY <4>2, <4>4, <5>2 DEF Entry
      <4>5. QED
        BY <4>3, <4>4
    <3>3. QED
      BY <3>1, <3>2
  <2>4. IsTable(h, base, page, 1..k)
    BY <2>3 DEF IsTable
  <2>5. QED
    BY <1>2, <2>4
<1>5. QED
  BY <1>3, <1>4

\* A fold goes through the page from the first to the last message.
LEMMA FoldSteps ==
  ASSUME NEW base, NEW page, NEW n \in Nat, DOMAIN page = 1..n
  PROVE  \E dict :
           /\ dict[0] = base
           /\ \A k \in 1..n : dict[k] = M!Take(dict[k - 1], page[k])
           /\ dict[n] = M!FoldLeft(M!Take, base, page)
<1> DEFINE h == Table(base, page, 1..n)
           dict == [k \in 0..n |-> h[1..k]]
<1>1. IsTable(h, base, page, 1..n)
  BY TableExists DEF Table
<1>2. ASSUME NEW k \in 0..n PROVE dict[k] = Entry(h, base, page, 1..k)
  <2>1. 1..k \in SUBSET (1..n)
    OBVIOUS
  <2>2. QED
    BY <1>1, <2>1 DEF IsTable
<1>3. dict[0] = base
  <2>1. 1..0 = {}
    OBVIOUS
  <2>2. dict[0] = Entry(h, base, page, {})
    BY <1>2, <2>1
  <2>3. QED
    BY <2>2 DEF Entry
<1>4. ASSUME NEW k \in 1..n PROVE dict[k] = M!Take(dict[k - 1], page[k])
  <2>1. M!Max(1..k) = k /\ 1..k # {}
    <3>1. k \in Nat /\ 1..k \in SUBSET (0..k) /\ k \in 1..k
      OBVIOUS
    <3>2. QED
      BY <3>1, MaxIs
  <2>2. (1..k) \ {k} = 1..(k - 1)
    OBVIOUS
  <2>3. dict[k] = M!Take(h[1..(k - 1)], page[k])
    <3>1. dict[k] = Entry(h, base, page, 1..k)
      BY <1>2
    <3> HIDE DEF dict, h
    <3>2. QED
      BY <2>1, <2>2, <3>1 DEF Entry
  <2>4. QED
    BY <2>3
<1>5. dict[n] = M!FoldLeft(M!Take, base, page)
  BY FoldIsEntry
<1>6. QED
  BY <1>3, <1>4, <1>5

-----------------------------------------------------------------------------
(* MisaSync.                                                               *)

Records == UNION {M!ToSet(Pages[i]) : i \in DOMAIN Pages}

\* The list has no identity twice, and its records in the order of the pages.
OnceInOrder(list) ==
  \A i, j \in DOMAIN list : i < j =>
    /\ M!Identity(list[i]) # M!Identity(list[j])
    /\ \E p, q \in DOMAIN Pages : p <= q /\ M!NewOn(list[i], p) /\ M!NewOn(list[j], q)

\* The records of the list are known and were new on one of the first n pages.
ReadThrough(list, ids, n) ==
  /\ list \in Seq(Records) /\ OnceInOrder(list)
  /\ \A i \in DOMAIN list : M!Identity(list[i]) \in ids /\ \E p \in 1..n : M!NewOn(list[i], p)

\* Every record of the first n pages is known.
Covered(n, ids) == \A p \in 1..n : \A r \in M!ToSet(Pages[p]) : M!Identity(r) \in ids

\* A sync that comes after those that returned earlier reads page n.
Reads(so, earlier, n) ==
  /\ so.records \in Seq(Records)
  /\ ReadThrough(earlier \o so.records, so.known, n) /\ Covered(n - 1, so.known)

\* A list with one more record, which is new on page n.
LEMMA OneMore ==
  ASSUME NEW n \in DOMAIN Pages, NEW list, NEW ids, ReadThrough(list, ids, n),
         NEW r \in Records, M!Identity(r) \notin ids, M!NewOn(r, n)
  PROVE  ReadThrough(Append(list, r), ids \union {M!Identity(r)}, n)
<1> DEFINE more == Append(list, r)
<1>1. /\ list \in Seq(Records) /\ Len(list) \in Nat /\ DOMAIN list = 1 .. Len(list)
  BY LenProperties DEF ReadThrough
<1>2. /\ more \in Seq(Records) /\ DOMAIN more = 1 .. Len(list) + 1
      /\ \A i \in DOMAIN list : more[i] = list[i]
      /\ more[Len(list) + 1] = r
  BY <1>1
<1> HIDE DEF more
<1>3. \A i \in DOMAIN more : i \in DOMAIN list \/ i = Len(list) + 1
  BY <1>1, <1>2
<1>4. n \in Nat /\ n \in 1..n /\ 1..n \subseteq DOMAIN Pages
  BY MisaAssumption
<1>5. ASSUME NEW i \in DOMAIN more
      PROVE  /\ M!Identity(more[i]) \in ids \union {M!Identity(r)}
             /\ \E p \in 1..n : M!NewOn(more[i], p)
  BY <1>2, <1>3, <1>4 DEF ReadThrough
<1>6. ASSUME NEW i \in DOMAIN more, NEW j \in DOMAIN more, i < j
      PROVE  /\ M!Identity(more[i]) # M!Identity(more[j])
             /\ \E p, q \in DOMAIN Pages : p <= q /\ M!NewOn(more[i], p) /\ M!NewOn(more[j], q)
  <2>1. i \in DOMAIN list /\ more[i] = list[i]
    BY <1>1, <1>2, <1>6
  <2>2. CASE j \in DOMAIN list
    BY <1>2, <1>6, <2>1, <2>2 DEF ReadThrough, OnceInOrder
  <2>3. CASE j \notin DOMAIN list
    <3>1. more[j] = r
      BY <1>2, <1>3, <2>3
    <3>2. PICK p \in 1..n : M!NewOn(list[i], p)
      BY <2>1 DEF ReadThrough
    <3>3. p <= n /\ p \in DOMAIN Pages
      BY <1>4
    <3>4. M!Identity(list[i]) \in ids
      BY <2>1 DEF ReadThrough
    <3>5. QED
      BY <2>1, <3>1, <3>2, <3>3, <3>4
  <2>4. QED
    BY <2>2, <2>3
<1>7. OnceInOrder(more)
  BY <1>6 DEF OnceInOrder
<1>8. QED
  BY <1>2, <1>5, <1>7 DEF ReadThrough, more

\* A record that is taken stays taken.
LEMMA TakeKeeps ==
  ASSUME NEW n \in DOMAIN Pages, NEW earlier \in Seq(Records), NEW so, Reads(so, earlier, n),
         NEW r \in M!ToSet(Pages[n])
  PROVE  /\ Reads(M!Take(so, r), earlier, n)
         /\ M!Identity(r) \in M!Take(so, r).known /\ so.known \subseteq M!Take(so, r).known
<1>1. CASE M!Identity(r) \in so.known
  BY <1>1 DEF M!Take
<1>2. CASE M!Identity(r) \notin so.known
  <2> DEFINE more == Append(so.records, r)
             ids == so.known \union {M!Identity(r)}
  <2>1. M!Take(so, r) = [known |-> ids, records |-> more]
    BY <1>2 DEF M!Take
  <2>2. r \in Records /\ n \in Nat
    BY MisaAssumption DEF Records
  <2>3. so.records \in Seq(Records) /\ more \in Seq(Records)
    BY <2>2 DEF Reads
  <2>4. earlier \o more = Append(earlier \o so.records, r)
    <3>1. PICK old : old = so.records
      OBVIOUS
    <3>2. old \in Seq(Records) /\ <<r>> \in Seq(Records) /\ earlier \o old \in Seq(Records)
      BY <2>2, <2>3, <3>1, ConcatProperties
    <3>3. /\ Append(old, r) = old \o <<r>>
          /\ Append(earlier \o old, r) = (earlier \o old) \o <<r>>
          /\ (earlier \o old) \o <<r>> = earlier \o (old \o <<r>>)
      BY <2>2, <3>2, AppendIsConcat, ConcatAssociative
    <3>4. QED
      BY <3>1, <3>3
  <2>5. M!NewOn(r, n)
    BY <1>2 DEF M!NewOn, Reads, Covered
  <2>6. ReadThrough(Append(earlier \o so.records, r), ids, n)
    BY <1>2, <2>2, <2>5, OneMore DEF Reads
  <2>7. Covered(n - 1, ids)
    BY DEF Reads, Covered
  <2> HIDE DEF more, ids
  <2>8. M!Take(so, r).known = ids /\ M!Take(so, r).records = more
    BY <2>1
  <2>9. M!Identity(r) \in ids /\ so.known \subseteq ids
    BY DEF ids
  <2>10. QED
    BY <2>3, <2>4, <2>6, <2>7, <2>8, <2>9 DEF Reads
<1>3. QED
  BY <1>1, <1>2

\* A page that is read adds its new records, and all of them are known then.
LEMMA PageKeeps ==
  ASSUME NEW n \in DOMAIN Pages, NEW earlier \in Seq(Records), NEW so, Reads(so, earlier, n)
  PROVE  LET read == M!FoldLeft(M!Take, so, Pages[n])
         IN  /\ Reads(read, earlier, n) /\ so.known \subseteq read.known
             /\ Covered(n, read.known)
<1>1. PICK page, size : page = Pages[n] /\ size = Len(page)
  OBVIOUS
<1>2. n \in Nat /\ size \in Nat /\ DOMAIN page = 1..size
  BY <1>1, MisaAssumption
<1>3. \A i \in 1..size : page[i] \in M!ToSet(Pages[n])
  BY <1>1, <1>2 DEF M!ToSet
<1>4. PICK dict : /\ dict[0] = so
                  /\ \A k \in 1..size : dict[k] = M!Take(dict[k - 1], page[k])
                  /\ dict[size] = M!FoldLeft(M!Take, so, page)
  BY <1>2, FoldSteps, Zenon
<1> DEFINE Good(k) == /\ Reads(dict[k], earlier, n) /\ so.known \subseteq dict[k].known
                      /\ \A i \in 1..k : M!Identity(page[i]) \in dict[k].known
           bad == {k \in 0..size : ~ Good(k)}
<1>5. bad = {}
  <2> SUFFICES ASSUME bad # {} PROVE FALSE
    OBVIOUS
  <2>1. PICK k \in bad : \A j \in bad : k <= j
    <3>1. bad \in SUBSET Nat
      BY <1>2
    <3> HIDE DEF bad
    <3>2. QED
      BY <3>1, LeastNat
  <2>2. k # 0
    BY <1>4
  <2>3. k - 1 \in 0..size /\ k \in 1..size /\ k - 1 \notin bad
    BY <1>2, <2>1, <2>2
  <2>4. Good(k - 1)
    BY <2>3
  <2>5. dict[k] = M!Take(dict[k - 1], page[k]) /\ page[k] \in M!ToSet(Pages[n])
    BY <1>3, <1>4, <2>3
  <2>6. /\ Reads(dict[k], earlier, n) /\ M!Identity(page[k]) \in dict[k].known
        /\ dict[k - 1].known \subseteq dict[k].known
    BY <2>4, <2>5, TakeKeeps
  <2>7. \A i \in 1..k : i \in 1..(k - 1) \/ i = k
    BY <2>3
  <2>8. Good(k)
    BY <2>4, <2>6, <2>7
  <2>9. QED
    BY <2>1, <2>8
<1>6. Good(size)
  BY <1>2, <1>5
<1>7. \A r \in M!ToSet(Pages[n]) : \E i \in 1..size : r = page[i]
  BY <1>1, <1>2 DEF M!ToSet
<1>8. \A p \in 1..n : p \in 1..(n - 1) \/ p = n
  BY <1>2
<1>9. Covered(n, dict[size].known)
  BY <1>6, <1>7, <1>8 DEF Reads, Covered
<1>10. QED
  BY <1>1, <1>4, <1>6, <1>9

\* What the syncs have returned is in order, without repetition, known and behind the
\* checkpoint; with what the sync under way has read it is the same, behind the page that
\* this sync has come to.
RecordsInv ==
  /\ available \in 0 .. Len(Pages) /\ checkpoint \in 0 .. available
  /\ ReadThrough(returned, known, checkpoint) /\ Covered(checkpoint, known)
  /\ sync.running =>
       /\ sync = [running |-> TRUE, at |-> sync.at, attempt |-> sync.attempt, records |-> sync.records]
       /\ sync.at \in checkpoint .. available /\ Covered(sync.at, known)
       /\ sync.records \in Seq(Records) /\ ReadThrough(returned \o sync.records, known, sync.at)

MisaInv == focus = "misa" => RecordsInv

\* The invariant after a step.
LEMMA RecordsAfter ==
  ASSUME available' \in 0 .. Len(Pages), checkpoint' \in 0 .. available',
         ReadThrough(returned', known', checkpoint'), Covered(checkpoint', known'),
         sync'.running =>
           /\ sync' = [running |-> TRUE, at |-> sync'.at, attempt |-> sync'.attempt,
                       records |-> sync'.records]
           /\ sync'.at \in checkpoint' .. available' /\ Covered(sync'.at, known')
           /\ sync'.records \in Seq(Records) /\ ReadThrough(returned' \o sync'.records, known', sync'.at)
  PROVE  RecordsInv'
<1>1. Records' = Records
  BY DEF Records, M!ToSet
<1>2. (ReadThrough(returned, known, checkpoint))'
  BY <1>1 DEF ReadThrough, OnceInOrder, M!Identity, M!NewOn, M!ToSet
<1>3. (Covered(checkpoint, known))'
  BY Zenon DEF Covered, M!Identity, M!ToSet
<1>4. ASSUME sync'.running PROVE (Covered(sync.at, known))'
  BY <1>4, Zenon DEF Covered, M!Identity, M!ToSet
<1>5. ASSUME sync'.running PROVE (ReadThrough(returned \o sync.records, known, sync.at))'
  BY <1>1, <1>5 DEF ReadThrough, OnceInOrder, M!Identity, M!NewOn, M!ToSet
<1>6. QED
  BY <1>1, <1>2, <1>3, <1>4, <1>5 DEF RecordsInv

\* What is held behind a page is held behind a later one, and by a caller that knows more.
LEMMA ReadThroughLater ==
  ASSUME NEW list, NEW ids, NEW more, NEW n \in Nat, NEW m \in Nat, n <= m, ReadThrough(list, ids, n),
         ids \subseteq more
  PROVE  ReadThrough(list, more, m)
BY DEF ReadThrough

\* A sync that reads a page.
LEMMA ReadKeeps ==
  ASSUME RecordsInv, M!ReadPage
  PROVE  RecordsInv'
<1>1. PICK so : so = [known |-> known, records |-> sync.records]
  OBVIOUS
<1>2. PICK earlier : earlier = returned
  OBVIOUS
<1>3. PICK read : read = M!FoldLeft(M!Take, so, M!Fetched)
  OBVIOUS
<1>4. M!Reading = read
  BY <1>1, <1>3, Zenon DEF M!Reading, M!Collected
<1>5. /\ sync.running /\ sync.at \in checkpoint .. available /\ Covered(sync.at, known)
      /\ sync = [running |-> TRUE, at |-> sync.at, attempt |-> sync.attempt, records |-> sync.records]
      /\ so.known = known /\ so.records = sync.records /\ so.records \in Seq(Records)
      /\ ReadThrough(earlier \o so.records, so.known, sync.at)
  BY <1>1, <1>2 DEF RecordsInv, M!ReadPage
<1>6. /\ available \in 0 .. Len(Pages) /\ checkpoint \in 0 .. available /\ sync.at \in Nat
      /\ ReadThrough(earlier, known, checkpoint) /\ earlier \in Seq(Records)
  BY <1>2, <1>5, MisaAssumption DEF RecordsInv, ReadThrough
<1>7. /\ M!Behind \in sync.at .. available /\ known \subseteq read.known
      /\ read.records \in Seq(Records)
      /\ ReadThrough(earlier \o read.records, read.known, M!Behind) /\ Covered(M!Behind, read.known)
  <2>1. CASE sync.at < available
    <3>1. PICK n : n = sync.at + 1
      OBVIOUS
    <3>2. M!Behind = n /\ M!Fetched = Pages[n]
      BY <2>1, <3>1 DEF M!Behind, M!Fetched
    <3>3. n \in DOMAIN Pages /\ n \in Nat /\ n - 1 = sync.at /\ sync.at <= n
          /\ n \in sync.at .. available
      BY <1>5, <1>6, <2>1, <3>1, MisaAssumption
    <3>4. ReadThrough(earlier \o so.records, so.known, n)
      BY <1>5, <1>6, <3>3, ReadThroughLater
    <3>5. Reads(so, earlier, n)
      BY <1>5, <3>3, <3>4 DEF Reads
    <3>6. Reads(read, earlier, n) /\ so.known \subseteq read.known /\ Covered(n, read.known)
      BY <1>3, <1>6, <3>2, <3>3, <3>5, PageKeeps
    <3>7. QED
      BY <1>5, <3>2, <3>3, <3>6 DEF Reads
  <2>2. CASE ~ (sync.at < available)
    <3>1. M!Behind = sync.at /\ M!Fetched = <<>>
      BY <2>2 DEF M!Behind, M!Fetched
    <3>2. PICK empty : empty = <<>>
      OBVIOUS
    <3>3. DOMAIN empty = 1..0
      BY <3>2
    <3>4. read = so
      <4>1. 0 \in Nat
        OBVIOUS
      <4>2. PICK dict : /\ dict[0] = so
                        /\ \A k \in 1..0 : dict[k] = M!Take(dict[k - 1], empty[k])
                        /\ dict[0] = M!FoldLeft(M!Take, so, empty)
        BY <3>3, <4>1, FoldSteps, Zenon
      <4>3. QED
        BY <1>3, <3>1, <3>2, <4>2
    <3>5. QED
      BY <1>5, <1>6, <3>1, <3>4
  <2>3. QED
    BY <2>1, <2>2
<1>8. known' = read.known /\ available' = available
  BY <1>4 DEF M!ReadPage
<1>9. M!Behind \in checkpoint .. available /\ M!Behind \in Nat /\ checkpoint \in Nat
  BY <1>5, <1>6, <1>7
<1>10. CASE M!NextCursor
  <2>1. /\ sync' = [sync EXCEPT !.at = M!Behind, !.attempt = 1, !.records = read.records]
        /\ checkpoint' = checkpoint /\ returned' = returned
    BY <1>4, <1>10 DEF M!ReadPage
  <2>2. sync' = [running |-> TRUE, at |-> M!Behind, attempt |-> 1, records |-> read.records]
    BY <1>5, <2>1
  <2>3. /\ sync'.running /\ sync'.at = M!Behind /\ sync'.records = read.records
        /\ sync' = [running |-> TRUE, at |-> sync'.at, attempt |-> sync'.attempt, records |-> sync'.records]
    BY <2>2
  <2>4. ReadThrough(returned', known', checkpoint')
    BY <1>2, <1>6, <1>7, <1>8, <1>9, <2>1, ReadThroughLater
  <2>5. Covered(checkpoint', known')
    BY <1>7, <1>8, <2>1 DEF RecordsInv, Covered
  <2>6. ReadThrough(returned' \o sync'.records, known', sync'.at) /\ Covered(sync'.at, known')
    BY <1>2, <1>7, <1>8, <2>1, <2>3
  <2>7. QED
    BY <1>6, <1>7, <1>8, <1>9, <2>1, <2>3, <2>4, <2>5, <2>6, RecordsAfter
<1>11. CASE ~ M!NextCursor
  <2>1. sync' = M!Idle /\ checkpoint' = M!Behind /\ returned' = returned \o read.records
    BY <1>4, <1>11 DEF M!ReadPage
  <2>2. ReadThrough(returned', known', checkpoint') /\ Covered(checkpoint', known')
    BY <1>2, <1>7, <1>8, <2>1
  <2>3. checkpoint' \in 0 .. available' /\ available' \in 0 .. Len(Pages)
    BY <1>6, <1>8, <1>9, <2>1
  <2>4. ~ sync'.running
    BY <2>1 DEF M!Idle
  <2>5. QED
    BY <2>2, <2>3, <2>4, RecordsAfter
<1>12. QED
  BY <1>10, <1>11

\* Every step of the synchronisation keeps its records.
LEMMA RecordStep ==
  ASSUME RecordsInv, [M!Next]_(M!vars)
  PROVE  RecordsInv'
<1>1. CASE M!Grow
  <2>1. available < Len(Pages) /\ available' = available + 1
    BY <1>1 DEF M!Grow
  <2>2. checkpoint' = checkpoint /\ known' = known /\ sync' = sync /\ returned' = returned
    BY <1>1 DEF M!Grow
  <2>3. available' \in 0 .. Len(Pages) /\ \A n \in Nat : n <= available => n <= available'
    BY <2>1, MisaAssumption DEF RecordsInv
  <2>4. checkpoint' \in 0 .. available'
    BY <2>2, <2>3 DEF RecordsInv
  <2>5. sync.running => sync.at \in checkpoint' .. available'
    BY <2>2, <2>3, <2>4 DEF RecordsInv
  <2>6. QED
    BY <2>2, <2>3, <2>4, <2>5, RecordsAfter DEF RecordsInv
<1>2. CASE M!Start
  <2>1. /\ sync' = [running |-> TRUE, at |-> checkpoint, attempt |-> 1, records |-> <<>>]
        /\ UNCHANGED <<available, checkpoint, known, returned>>
    BY <1>2 DEF M!Start
  <2>2. /\ sync'.running /\ sync'.at = checkpoint /\ sync'.records = <<>>
        /\ sync' = [running |-> TRUE, at |-> sync'.at, attempt |-> sync'.attempt, records |-> sync'.records]
    BY <2>1
  <2>3. <<>> \in Seq(Records)
    BY EmptySeq
  <2>4. returned \o <<>> = returned
    <3>1. PICK earlier : earlier = returned
      OBVIOUS
    <3>2. earlier \in Seq(Records)
      BY <3>1 DEF RecordsInv, ReadThrough
    <3>3. QED
      BY <3>1, <3>2, ConcatEmptySeq
  <2>5. checkpoint \in checkpoint .. available
    BY MisaAssumption DEF RecordsInv
  <2>6. QED
    BY <2>1, <2>2, <2>3, <2>4, <2>5, RecordsAfter DEF RecordsInv
<1>3. CASE M!ReadPage
  BY <1>3, ReadKeeps
<1>4. CASE M!FailPage
  <2>1. /\ sync.running /\ UNCHANGED <<available, checkpoint, known, returned>>
        /\ sync = [running |-> TRUE, at |-> sync.at, attempt |-> sync.attempt, records |-> sync.records]
    BY <1>4 DEF M!FailPage, RecordsInv
  <2>2. CASE sync.attempt < MaxAttempts
    <3>1. sync' = [sync EXCEPT !.attempt = @ + 1]
      BY <1>4, <2>2 DEF M!FailPage
    <3>2. /\ sync'.running /\ sync'.at = sync.at /\ sync'.records = sync.records
          /\ sync' = [running |-> TRUE, at |-> sync'.at, attempt |-> sync'.attempt, records |-> sync'.records]
      BY <2>1, <3>1
    <3>3. QED
      BY <2>1, <3>2, RecordsAfter DEF RecordsInv
  <2>3. CASE ~ (sync.attempt < MaxAttempts)
    <3>1. ~ sync'.running
      BY <1>4, <2>3 DEF M!FailPage, M!Idle
    <3>2. QED
      BY <2>1, <3>1, RecordsAfter DEF RecordsInv
  <2>4. QED
    BY <2>2, <2>3
<1>5. CASE UNCHANGED M!vars
  BY <1>5, RecordsAfter DEF M!vars, RecordsInv
<1>6. QED
  BY <1>1, <1>2, <1>3, <1>4, <1>5 DEF M!Next

\* For any pages, whatever they repeat, and however fetches fail and syncs are repeated,
\* no version of a record is returned twice, and records come in the order in which the
\* source has them (v1_connectors.py sync_misa).
THEOREM RecordsReturned == Spec => []RecordsOnceInOrder
<1>1. Init => MisaInv
  <2> SUFFICES ASSUME Init, focus = "misa" PROVE RecordsInv
    BY DEF MisaInv
  <2>1. /\ available = 0 /\ checkpoint = 0 /\ known = {} /\ returned = <<>> /\ ~ sync.running
    BY DEF Init, InitMisa, M!Init, M!Idle
  <2>2. <<>> \in Seq(Records) /\ DOMAIN <<>> = {}
    BY EmptySeq
  <2>3. ReadThrough(<<>>, {}, 0) /\ Covered(0, {})
    BY <2>2 DEF ReadThrough, OnceInOrder, Covered
  <2>4. QED
    BY <2>1, <2>3, MisaAssumption DEF RecordsInv
<1>2. MisaInv /\ [Next]_vars => MisaInv'
  BY OneComponent, RecordStep DEF MisaInv
<1>3. MisaInv => RecordsOnceInOrder
  BY DEF MisaInv, RecordsInv, ReadThrough, OnceInOrder, RecordsOnceInOrder, M!RecordsOnceInOrder
<1>4. QED
  BY <1>1, <1>2, <1>3, PTL DEF Spec

-----------------------------------------------------------------------------
(* The invariant.                                                          *)

KeyOf(f, i) == <<f[i].table, f[i].key>>
CaseOf(k, s) == <<"cases", k[2], s>>

\* A row of a file that a session with the writes w sees.
Present(w, k) == k \in I!Keys /\ (k \in DOMAIN w \/ db[k] # I!Missing)

\* The session s has counted c, written w and locked held: it has locked the rows that it
\* writes, has counted those that are not committed, with a case for each new invoice,
\* and sees the customer of every invoice that it writes.
Writes(s, c, w, held) ==
  /\ DOMAIN w \subseteq I!Keys \union {CaseOf(k, s) : k \in {x \in c : x[1] = "invoices"}}
  /\ DOMAIN w \cap I!Keys \subseteq held
  /\ \A r \in DOMAIN w : w[r] # I!Missing
  /\ c = {k \in DOMAIN w \cap I!Keys : db[k] = I!Missing}
  /\ \A k \in c : k[1] = "invoices" => CaseOf(k, s) \in DOMAIN w
  /\ \A k \in DOMAIN w \cap I!Keys : k[1] = "invoices" => Present(w, <<"customers", w[k][1]>>)

\* It sees every row behind the n-th of its file, and the one that its select found.
Behind(f, n, w) == \A i \in 1 .. n - 1 : Present(w, KeyOf(f, i))
Found(f, n, l, w) == l.read => n <= Len(f) /\ (l.value # I!Missing => Present(w, KeyOf(f, n)))

\* All of this of the session s with file f at row n, after it has selected l.
Holds(s, f, n, l, c, w, held) ==
  IF f = <<>>
  THEN n = 1 /\ l = I!Unread /\ c = {} /\ DOMAIN w = {} /\ held = {}
  ELSE /\ f \in Files /\ n \in 1 .. Len(f) + 1
       /\ Writes(s, c, w, held) /\ Behind(f, n, w) /\ Found(f, n, l, w)

\* A committed row was counted once; an invoice has the case of one session, and its
\* customer; a row that is missing has none of these.
RowStands(k) ==
  /\ counted[k] = (IF db[k] = I!Missing THEN 0 ELSE 1)
  /\ k[1] = "invoices" =>
       IF db[k] = I!Missing
       THEN \A t \in Session : db[CaseOf(k, t)] = I!Missing
       ELSE /\ \E s \in Session : \A t \in Session : db[CaseOf(k, t)] # I!Missing <=> t = s
            /\ <<"customers", db[k][1]>> \in I!Keys
            /\ db[<<"customers", db[k][1]>>] # I!Missing

FilesTyped ==
  /\ file = [s \in Session |-> file[s]] /\ at = [s \in Session |-> at[s]]
  /\ loaded = [s \in Session |-> loaded[s]] /\ created = [s \in Session |-> created[s]]

SessionHolds(s) == Holds(s, file[s], at[s], loaded[s], created[s], work[s], locks[s])

ImportInv ==
  /\ DOMAIN db = I!Keys \union I!Cases /\ StoreTyped /\ FilesTyped /\ KeysExclusive
  /\ \A k \in I!Keys : RowStands(k)
  /\ \A s \in Session : SessionHolds(s)

ImportsInv == focus = "ingest" => ImportInv

-----------------------------------------------------------------------------
(* Names of rows.                                                          *)

\* The rows of a file are among the keys.
LEMMA KeysOfFiles ==
  ASSUME NEW f \in Files, NEW i \in 1 .. Len(f)
  PROVE  KeyOf(f, i) \in I!Keys
<1>1. i \in DOMAIN f
  BY FilesAssumption
<1>2. QED
  BY <1>1 DEF KeyOf, I!Keys

\* A key is that of a table, and no case.
LEMMA KeyIsPair ==
  ASSUME NEW k \in I!Keys
  PROVE  /\ k = <<k[1], k[2]>> /\ k[1] \in {"customers", "invoices", "bank"}
         /\ \A j, s : k # CaseOf(j, s)
<1>1. PICK f \in Files : \E i \in DOMAIN f : k = <<f[i].table, f[i].key>>
  BY DEF I!Keys
<1>2. PICK i \in DOMAIN f : k = <<f[i].table, f[i].key>>
  BY <1>1
<1>3. k[1] \in {"customers", "invoices", "bank"} /\ k = <<k[1], k[2]>>
  BY <1>2, FilesAssumption
<1>4. QED
  BY <1>3 DEF CaseOf

\* A case is that of one invoice and one session.
LEMMA CaseIsOne ==
  ASSUME NEW j \in I!Keys, j[1] = "invoices", NEW s \in Session
  PROVE  /\ CaseOf(j, s) \in I!Cases
         /\ \A k \in I!Keys : \A t : k[1] = "invoices" /\ CaseOf(j, s) = CaseOf(k, t) => j = k /\ s = t
<1>1. CaseOf(j, s) \in I!Cases
  BY DEF CaseOf, I!Cases
<1>2. ASSUME NEW k \in I!Keys, NEW t, k[1] = "invoices", CaseOf(j, s) = CaseOf(k, t)
      PROVE  j = k /\ s = t
  BY <1>2, KeyIsPair DEF CaseOf
<1>3. QED
  BY <1>1, <1>2

-----------------------------------------------------------------------------
(* What a session holds after each kind of row.                            *)

\* The parts of Holds for an import under way.
LEMMA HoldsParts ==
  ASSUME NEW s, NEW f, NEW n, NEW l, NEW c, NEW w, NEW held, f # <<>>
  PROVE  Holds(s, f, n, l, c, w, held) <=>
           /\ f \in Files /\ n \in 1 .. Len(f) + 1
           /\ Writes(s, c, w, held) /\ Behind(f, n, w) /\ Found(f, n, l, w)
BY DEF Holds

\* A row that is selected.
LEMMA SelectedHolds ==
  ASSUME NEW s, NEW f, NEW n, NEW l, NEW c, NEW w, NEW held, f # <<>>,
         Holds(s, f, n, l, c, w, held), n <= Len(f),
         NEW v, v # I!Missing => Present(w, KeyOf(f, n))
  PROVE  Holds(s, f, n, [read |-> TRUE, value |-> v], c, w, held)
<1>1. Found(f, n, [read |-> TRUE, value |-> v], w)
  BY DEF Found
<1>2. QED
  BY <1>1, HoldsParts, Zenon

\* The rows behind the next one.
LEMMA RowsBehind ==
  ASSUME NEW f \in Files, NEW n \in 1 .. Len(f), NEW w, NEW w2, DOMAIN w \subseteq DOMAIN w2,
         Behind(f, n, w), Present(w2, KeyOf(f, n))
  PROVE  Behind(f, n + 1, w2) /\ Found(f, n + 1, I!Unread, w2)
<1>1. Len(f) \in Nat
  BY FilesAssumption
<1>2. ASSUME NEW i \in 1 .. (n + 1) - 1 PROVE Present(w2, KeyOf(f, i))
  <2>1. i = n \/ i \in 1 .. n - 1
    BY <1>1
  <2>2. QED
    BY <2>1 DEF Present, Behind
<1>3. QED
  BY <1>2 DEF Behind, Found, I!Unread

\* A row that is there already and needs no write.
LEMMA SkippedHolds ==
  ASSUME NEW s, NEW f, NEW n, NEW l, NEW c, NEW w, NEW held, f # <<>>,
         Holds(s, f, n, l, c, w, held), n <= Len(f), Present(w, KeyOf(f, n))
  PROVE  Holds(s, f, n + 1, I!Unread, c, w, held)
<1>1. f \in Files /\ n \in 1 .. Len(f) + 1 /\ Len(f) \in Nat
  BY HoldsParts, FilesAssumption
<1>2. n \in 1 .. Len(f) /\ n + 1 \in 1 .. Len(f) + 1
  BY <1>1
<1>3. Writes(s, c, w, held) /\ Behind(f, n, w)
  BY HoldsParts
<1>4. Behind(f, n + 1, w) /\ Found(f, n + 1, I!Unread, w)
  BY <1>1, <1>2, <1>3, RowsBehind
<1>5. QED
  BY <1>1, <1>2, <1>3, <1>4, HoldsParts, Zenon

\* The customer of an invoice is behind it in its file.
LEMMA CustomerBehind ==
  ASSUME NEW f \in Files, NEW n \in 1 .. Len(f), f[n].table = "invoices", NEW w,
         Behind(f, n, w)
  PROVE  Present(w, <<"customers", f[n].value[1]>>)
<1>1. n \in DOMAIN f
  BY FilesAssumption
<1>2. PICK j \in 1 .. n - 1 : f[j].table = "customers" /\ f[j].key = f[n].value[1]
  BY <1>1, FilesAssumption
<1>3. QED
  BY <1>2 DEF KeyOf, Behind

\* A row that is written again.
LEMMA UpdatedHolds ==
  ASSUME NEW s, NEW f, NEW n, NEW l, NEW c, NEW w, NEW held, f # <<>>,
         Holds(s, f, n, l, c, w, held), n <= Len(f),
         NEW k, k = KeyOf(f, n), Present(w, k),
         NEW w2, DOMAIN w2 = DOMAIN w \union {k}, w2[k] = f[n].value,
         \A r \in DOMAIN w \ {k} : w2[r] = w[r]
  PROVE  Holds(s, f, n + 1, I!Unread, c, w2, held \union {k})
<1>1. f \in Files /\ n \in 1 .. Len(f) + 1 /\ Len(f) \in Nat
  BY HoldsParts, FilesAssumption
<1>2. n \in 1 .. Len(f) /\ n + 1 \in 1 .. Len(f) + 1 /\ k \in I!Keys
  BY <1>1, KeysOfFiles
<1>3. Behind(f, n, w) /\ Writes(s, c, w, held)
  BY HoldsParts
<1>4. \A r : Present(w, r) => Present(w2, r)
  BY DEF Present
<1>5. Present(w2, k)
  BY <1>4
<1>6. Behind(f, n + 1, w2) /\ Found(f, n + 1, I!Unread, w2)
  BY <1>1, <1>2, <1>3, <1>5, RowsBehind
<1>7. f[n].value # I!Missing /\ f[n].table = k[1]
  <2>1. n \in DOMAIN f
    BY <1>1, <1>2, FilesAssumption
  <2>2. QED
    BY <1>1, <2>1, FilesAssumption DEF I!Missing, KeyOf
<1>8. /\ DOMAIN w \subseteq I!Keys \union {CaseOf(x, s) : x \in {y \in c : y[1] = "invoices"}}
      /\ DOMAIN w \cap I!Keys \subseteq held
      /\ \A r \in DOMAIN w : w[r] # I!Missing
      /\ c = {x \in DOMAIN w \cap I!Keys : db[x] = I!Missing}
      /\ \A x \in c : x[1] = "invoices" => CaseOf(x, s) \in DOMAIN w
      /\ \A x \in DOMAIN w \cap I!Keys : x[1] = "invoices" => Present(w, <<"customers", w[x][1]>>)
  BY <1>3, Zenon DEF Writes
<1>9. DOMAIN w2 \subseteq I!Keys \union {CaseOf(x, s) : x \in {y \in c : y[1] = "invoices"}}
  BY <1>2, <1>8
<1>10. DOMAIN w2 \cap I!Keys \subseteq held \union {k}
  BY <1>8
<1>11. \A r \in DOMAIN w2 : w2[r] # I!Missing
  BY <1>7, <1>8
<1>12. c = {x \in DOMAIN w2 \cap I!Keys : db[x] = I!Missing}
  BY <1>2, <1>8 DEF Present
<1>13. \A x \in c : x[1] = "invoices" => CaseOf(x, s) \in DOMAIN w2
  BY <1>8
<1>14. ASSUME NEW x \in DOMAIN w2 \cap I!Keys, x[1] = "invoices"
       PROVE  Present(w2, <<"customers", w2[x][1]>>)
  <2>1. CASE x = k
    BY <1>1, <1>2, <1>3, <1>4, <1>7, <1>14, <2>1, CustomerBehind
  <2>2. CASE x # k
    BY <1>4, <1>8, <1>14, <2>2
  <2>3. QED
    BY <2>1, <2>2
<1>15. Writes(s, c, w2, held \union {k})
  BY <1>9, <1>10, <1>11, <1>12, <1>13, <1>14, Zenon DEF Writes
<1>16. QED
  BY <1>1, <1>2, <1>6, <1>15, HoldsParts, Zenon

\* The insert of the row k with value v turns the writes w of a session into w2.
Inserts(s, v, k, w, w2) ==
  /\ DOMAIN w2 = DOMAIN w \union {k} \union (IF k[1] = "invoices" THEN {CaseOf(k, s)} ELSE {})
  /\ w2[k] = v
  /\ \A r \in DOMAIN w \ {k, CaseOf(k, s)} : w2[r] = w[r]
  /\ k[1] = "invoices" => w2[CaseOf(k, s)] = <<"new">>
  /\ k[1] # "invoices" => \A r \in DOMAIN w \ {k} : w2[r] = w[r]

\* A row that is inserted, an invoice with its case.
LEMMA AddedHolds ==
  ASSUME NEW s \in Session, NEW f, NEW n, NEW l, NEW c, NEW w, NEW held, f # <<>>,
         Holds(s, f, n, l, c, w, held), n <= Len(f),
         NEW k, k = KeyOf(f, n), k \notin DOMAIN w, db[k] = I!Missing,
         NEW w2, Inserts(s, f[n].value, k, w, w2)
  PROVE  Holds(s, f, n + 1, I!Unread, c \union {k}, w2, held \union {k})
<1> DEFINE case_ == CaseOf(k, s)
<1>0. /\ DOMAIN w2 = DOMAIN w \union {k} \union (IF k[1] = "invoices" THEN {case_} ELSE {})
      /\ w2[k] = f[n].value
      /\ \A r \in DOMAIN w \ {k, case_} : w2[r] = w[r]
      /\ k[1] = "invoices" => w2[case_] = <<"new">>
      /\ k[1] # "invoices" => \A r \in DOMAIN w \ {k} : w2[r] = w[r]
  BY DEF Inserts
<1>1. f \in Files /\ n \in 1 .. Len(f) + 1 /\ Len(f) \in Nat
  BY HoldsParts, FilesAssumption
<1>2. n \in 1 .. Len(f) /\ n + 1 \in 1 .. Len(f) + 1 /\ k \in I!Keys
  BY <1>1, KeysOfFiles
<1>3. Behind(f, n, w) /\ Writes(s, c, w, held)
  BY HoldsParts
<1>4. \A r : Present(w, r) => Present(w2, r)
  BY <1>0 DEF Present
<1>5. Present(w2, k)
  BY <1>0, <1>2 DEF Present
<1>6. Behind(f, n + 1, w2) /\ Found(f, n + 1, I!Unread, w2)
  BY <1>0, <1>1, <1>2, <1>3, <1>5, RowsBehind
<1>7. f[n].value # I!Missing /\ f[n].table = k[1]
  <2>1. n \in DOMAIN f
    BY <1>1, <1>2, FilesAssumption
  <2>2. QED
    BY <1>1, <2>1, FilesAssumption DEF I!Missing, KeyOf
<1>8. /\ DOMAIN w \subseteq I!Keys \union {CaseOf(x, s) : x \in {y \in c : y[1] = "invoices"}}
      /\ DOMAIN w \cap I!Keys \subseteq held
      /\ \A r \in DOMAIN w : w[r] # I!Missing
      /\ c = {x \in DOMAIN w \cap I!Keys : db[x] = I!Missing}
      /\ \A x \in c : x[1] = "invoices" => CaseOf(x, s) \in DOMAIN w
      /\ \A x \in DOMAIN w \cap I!Keys : x[1] = "invoices" => Present(w, <<"customers", w[x][1]>>)
  BY <1>3, Zenon DEF Writes
<1>9. \A x \in I!Keys : x # CaseOf(k, s)
  BY KeyIsPair
<1>10. DOMAIN w2 \subseteq I!Keys \union {CaseOf(x, s) : x \in {y \in c \union {k} : y[1] = "invoices"}}
  BY <1>0, <1>2, <1>8
<1>11. DOMAIN w2 \cap I!Keys = (DOMAIN w \cap I!Keys) \union {k}
  BY <1>0, <1>2, <1>9
<1>12. DOMAIN w2 \cap I!Keys \subseteq held \union {k}
  BY <1>8, <1>11
<1>13. \A r \in DOMAIN w2 : w2[r] # I!Missing
  <2>1. <<"new">> # I!Missing
    BY DEF I!Missing
  <2>2. QED
    BY <1>0, <1>7, <1>8, <2>1
<1>14. c \union {k} = {x \in DOMAIN w2 \cap I!Keys : db[x] = I!Missing}
  BY <1>0, <1>2, <1>8, <1>11
<1>15. \A x \in c \union {k} : x[1] = "invoices" => CaseOf(x, s) \in DOMAIN w2
  BY <1>0, <1>8
<1>16. ASSUME NEW x \in DOMAIN w2 \cap I!Keys, x[1] = "invoices"
       PROVE  Present(w2, <<"customers", w2[x][1]>>)
  <2>1. CASE x = k
    BY <1>0, <1>1, <1>2, <1>3, <1>4, <1>7, <1>16, <2>1, CustomerBehind
  <2>2. CASE x # k
    BY <1>0, <1>4, <1>8, <1>9, <1>11, <1>16, <2>2
  <2>3. QED
    BY <2>1, <2>2
<1>17. Writes(s, c \union {k}, w2, held \union {k})
  BY <1>10, <1>12, <1>13, <1>14, <1>15, <1>16, Zenon DEF Writes
<1>18. QED
  BY <1>1, <1>2, <1>6, <1>17, HoldsParts, Zenon

-----------------------------------------------------------------------------
(* Steps that commit nothing.                                              *)

\* The keys do not change.
LEMMA KeysStay == I!Keys' = I!Keys /\ I!Cases' = I!Cases
BY DEF I!Keys, I!Cases

\* What a session holds survives while rows only appear, and none that it has locked.
LEMMA HoldsKept ==
  ASSUME NEW s, NEW f, NEW n, NEW l, NEW c, NEW w, NEW held, Holds(s, f, n, l, c, w, held),
         \A k \in I!Keys : db[k] # I!Missing => db'[k] # I!Missing,
         \A k \in held \cap I!Keys : db'[k] = db[k]
  PROVE  Holds(s, f, n, l, c, w, held)'
<1>1. I!Keys' = I!Keys /\ I!Missing' = I!Missing /\ I!Unread' = I!Unread
  BY KeysStay DEF I!Missing, I!Unread
<1>2. CASE f = <<>>
  BY <1>1, <1>2 DEF Holds
<1>3. CASE f # <<>>
  <2>1. f \in Files /\ n \in 1 .. Len(f) + 1 /\ Writes(s, c, w, held) /\ Behind(f, n, w) /\ Found(f, n, l, w)
    BY <1>3, HoldsParts
  <2>2. \A k : Present(w, k) => Present(w, k)'
    BY <1>1 DEF Present
  <2>3. \A i : KeyOf(f, i)' = KeyOf(f, i)
    BY DEF KeyOf
  <2>4. Behind(f, n, w)' /\ Found(f, n, l, w)'
    BY <1>1, <2>1, <2>2, <2>3 DEF Behind, Found
  <2>5. \A k : CaseOf(k, s)' = CaseOf(k, s)
    BY DEF CaseOf
  <2>6. \A k \in DOMAIN w \cap I!Keys : db'[k] = db[k]
    BY <2>1 DEF Writes
  <2>7. Writes(s, c, w, held)'
    <3>1. DOMAIN w \subseteq I!Keys \union {CaseOf(k, s) : k \in {x \in c : x[1] = "invoices"}}
      BY <2>1 DEF Writes
    <3>2. (DOMAIN w \subseteq I!Keys \union {CaseOf(k, s) : k \in {x \in c : x[1] = "invoices"}})'
      BY <1>1, <2>5, <3>1
    <3>3. (DOMAIN w \cap I!Keys \subseteq held)' /\ (\A r \in DOMAIN w : w[r] # I!Missing)'
      BY <1>1, <2>1 DEF Writes
    <3>4. c = {k \in DOMAIN w \cap I!Keys : db[k] = I!Missing}
      BY <2>1 DEF Writes
    <3>5. (c = {k \in DOMAIN w \cap I!Keys : db[k] = I!Missing})'
      BY <1>1, <2>6, <3>4
    <3>6. (\A k \in c : k[1] = "invoices" => CaseOf(k, s) \in DOMAIN w)'
      BY <2>1, <2>5 DEF Writes
    <3>7. (\A k \in DOMAIN w \cap I!Keys : k[1] = "invoices" => Present(w, <<"customers", w[k][1]>>))'
      BY <1>1, <2>1, <2>2 DEF Writes
    <3>8. QED
      BY <3>2, <3>3, <3>5, <3>6, <3>7, Zenon DEF Writes
  <2>8. QED
    BY <1>3, <2>1, <2>4, <2>7 DEF Holds
<1>4. QED
  BY <1>2, <1>3

\* One import moves and the others keep what they have.
ImportAlone(s) ==
  \A t \in Session \ {s} :
    /\ file'[t] = file[t] /\ at'[t] = at[t] /\ loaded'[t] = loaded[t] /\ created'[t] = created[t]
    /\ work'[t] = work[t] /\ locks'[t] = locks[t]

\* The others keep what they hold.
LEMMA OthersHold ==
  ASSUME ImportInv, NEW s \in Session, ImportAlone(s),
         \A k \in I!Keys : db[k] # I!Missing => db'[k] # I!Missing,
         \A k \in I!Keys \ locks[s] : db'[k] = db[k],
         \A t \in Session \ {s} : locks'[s] \cap locks[t] = {}
  PROVE  KeysExclusive' /\ \A t \in Session \ {s} : SessionHolds(t)'
<1>1. KeysExclusive'
  BY DEF ImportInv, KeysExclusive, ImportAlone
<1>2. ASSUME NEW t \in Session \ {s} PROVE SessionHolds(t)'
  <2>1. PICK f, n, l, c, w, held : /\ f = file[t] /\ n = at[t] /\ l = loaded[t] /\ c = created[t]
                                   /\ w = work[t] /\ held = locks[t]
    OBVIOUS
  <2>2. Holds(t, f, n, l, c, w, held)
    BY <2>1 DEF ImportInv, SessionHolds
  <2>3. \A k \in held \cap I!Keys : db'[k] = db[k]
    BY <2>1 DEF ImportInv, KeysExclusive
  <2>4. Holds(t, f, n, l, c, w, held)'
    BY <2>2, <2>3, HoldsKept
  <2>5. /\ f = file'[t] /\ n = at'[t] /\ l = loaded'[t] /\ c = created'[t]
        /\ w = work'[t] /\ held = locks'[t]
    BY <2>1 DEF ImportAlone
  <2>6. QED
    BY <2>4, <2>5 DEF SessionHolds
<1>3. QED
  BY <1>1, <1>2

\* A step of one import that leaves the committed rows alone.
LEMMA ImportFrame ==
  ASSUME ImportInv, NEW s \in Session, ImportAlone(s), db' = db, counted' = counted,
         FilesTyped', StoreTyped', SessionHolds(s)',
         \A t \in Session \ {s} : locks'[s] \cap locks[t] = {}
  PROVE  ImportInv'
<1>1. KeysExclusive' /\ \A t \in Session \ {s} : SessionHolds(t)'
  BY OthersHold
<1>2. ASSUME NEW k \in I!Keys PROVE RowStands(k)'
  <2>1. RowStands(k) /\ I!Keys' = I!Keys /\ I!Missing' = I!Missing
    BY KeysStay DEF ImportInv, I!Missing
  <2>2. \A t : CaseOf(k, t)' = CaseOf(k, t)
    BY DEF CaseOf
  <2>3. QED
    BY <2>1, <2>2 DEF RowStands
<1>3. DOMAIN db' = I!Keys \union I!Cases
  BY DEF ImportInv
<1>4. QED
  BY <1>1, <1>2, <1>3, KeysStay DEF ImportInv

\* A session that has ended holds nothing.
LEMMA ImportEnds ==
  ASSUME ImportInv, NEW s \in Session, I!End(s), I!Ended(s)
  PROVE  /\ ImportAlone(s) /\ FilesTyped' /\ StoreTyped' /\ SessionHolds(s)' /\ locks'[s] = {}
<1>1. /\ locks' = [locks EXCEPT ![s] = {}] /\ work' = [work EXCEPT ![s] = I!Nothing]
      /\ file' = [file EXCEPT ![s] = <<>>] /\ at' = [at EXCEPT ![s] = 1]
      /\ loaded' = [loaded EXCEPT ![s] = I!Unread] /\ created' = [created EXCEPT ![s] = {}]
  BY DEF I!End, I!Ended
<1>2. locks' = [t \in Session |-> locks'[t]] /\ locks'[s] = {} /\ \A t \in Session \ {s} : locks'[t] = locks[t]
  BY <1>1 DEF ImportInv, StoreTyped
<1>3. work' = [t \in Session |-> work'[t]] /\ work'[s] = I!Nothing /\ \A t \in Session \ {s} : work'[t] = work[t]
  BY <1>1 DEF ImportInv, StoreTyped
<1>4. file' = [t \in Session |-> file'[t]] /\ file'[s] = <<>> /\ \A t \in Session \ {s} : file'[t] = file[t]
  BY <1>1 DEF ImportInv, FilesTyped
<1>5. at' = [t \in Session |-> at'[t]] /\ at'[s] = 1 /\ \A t \in Session \ {s} : at'[t] = at[t]
  BY <1>1 DEF ImportInv, FilesTyped
<1>6. /\ loaded' = [t \in Session |-> loaded'[t]] /\ loaded'[s] = I!Unread
      /\ \A t \in Session \ {s} : loaded'[t] = loaded[t]
  BY <1>1 DEF ImportInv, FilesTyped
<1>7. /\ created' = [t \in Session |-> created'[t]] /\ created'[s] = {}
      /\ \A t \in Session \ {s} : created'[t] = created[t]
  BY <1>1 DEF ImportInv, FilesTyped
<1>8. DOMAIN I!Nothing = {} /\ I!Unread' = I!Unread
  BY DEF I!Nothing, I!Unread
<1>9. SessionHolds(s)'
  BY <1>2, <1>3, <1>4, <1>5, <1>6, <1>7, <1>8 DEF SessionHolds, Holds
<1>10. FilesTyped'
  BY <1>4, <1>5, <1>6, <1>7 DEF FilesTyped
<1>11. StoreTyped'
  BY <1>2, <1>3 DEF StoreTyped
<1>12. ImportAlone(s)
  BY <1>2, <1>3, <1>4, <1>5, <1>6, <1>7 DEF ImportAlone
<1>13. QED
  BY <1>2, <1>9, <1>10, <1>11, <1>12

\* An import that fails, crashes or is the victim of a deadlock leaves no trace.
LEMMA ImportFails ==
  ASSUME ImportInv, NEW s \in Session, I!Fail(s)
  PROVE  ImportInv'
<1>1. db' = db /\ counted' = counted /\ I!End(s) /\ I!Ended(s)
  BY DEF I!Fail, I!Rollback
<1>2. /\ ImportAlone(s) /\ FilesTyped' /\ StoreTyped' /\ SessionHolds(s)' /\ locks'[s] = {}
  BY <1>1, ImportEnds
<1>3. \A t \in Session \ {s} : locks'[s] \cap locks[t] = {}
  BY <1>2
<1>4. QED
  BY <1>1, <1>2, <1>3, ImportFrame

\* A step of the session s that leaves it with f, n, l, c, w and held.
Moves(s, f, n, l, c, w, held) ==
  /\ file' = [file EXCEPT ![s] = f] /\ at' = [at EXCEPT ![s] = n]
  /\ loaded' = [loaded EXCEPT ![s] = l] /\ created' = [created EXCEPT ![s] = c]
  /\ work' = [work EXCEPT ![s] = w] /\ locks' = [locks EXCEPT ![s] = held]

\* Nobody else has locked any of held.
Unshared(s, held) == \A t \in Session \ {s} : held \cap locks[t] = {}

\* A step of one import that sets what it holds.
LEMMA ImportMoves ==
  ASSUME ImportInv, NEW s \in Session, db' = db, counted' = counted,
         NEW f, NEW n, NEW l, NEW c, NEW w, NEW held, Holds(s, f, n, l, c, w, held),
         Moves(s, f, n, l, c, w, held), Unshared(s, held)
  PROVE  ImportInv'
<1>1. locks' = [t \in Session |-> locks'[t]] /\ locks'[s] = held /\ \A t \in Session \ {s} : locks'[t] = locks[t]
  BY DEF Moves, ImportInv, StoreTyped
<1>2. work' = [t \in Session |-> work'[t]] /\ work'[s] = w /\ \A t \in Session \ {s} : work'[t] = work[t]
  BY DEF Moves, ImportInv, StoreTyped
<1>3. file' = [t \in Session |-> file'[t]] /\ file'[s] = f /\ \A t \in Session \ {s} : file'[t] = file[t]
  BY DEF Moves, ImportInv, FilesTyped
<1>4. at' = [t \in Session |-> at'[t]] /\ at'[s] = n /\ \A t \in Session \ {s} : at'[t] = at[t]
  BY DEF Moves, ImportInv, FilesTyped
<1>5. /\ loaded' = [t \in Session |-> loaded'[t]] /\ loaded'[s] = l
      /\ \A t \in Session \ {s} : loaded'[t] = loaded[t]
  BY DEF Moves, ImportInv, FilesTyped
<1>6. /\ created' = [t \in Session |-> created'[t]] /\ created'[s] = c
      /\ \A t \in Session \ {s} : created'[t] = created[t]
  BY DEF Moves, ImportInv, FilesTyped
<1>7. Holds(s, f, n, l, c, w, held)'
  BY HoldsKept
<1>8. SessionHolds(s)'
  BY <1>1, <1>2, <1>3, <1>4, <1>5, <1>6, <1>7 DEF SessionHolds
<1>9. FilesTyped' /\ StoreTyped'
  BY <1>1, <1>2, <1>3, <1>4, <1>5, <1>6 DEF FilesTyped, StoreTyped
<1>10. ImportAlone(s)
  BY <1>1, <1>2, <1>3, <1>4, <1>5, <1>6 DEF ImportAlone
<1>11. \A t \in Session \ {s} : locks'[s] \cap locks[t] = {}
  BY <1>1 DEF Unshared
<1>12. QED
  BY <1>8, <1>9, <1>10, <1>11, ImportFrame

\* What stays is set to what it was.
LEMMA ImportStays ==
  ASSUME ImportInv, NEW s \in Session
  PROVE  /\ file = [file EXCEPT ![s] = file[s]] /\ at = [at EXCEPT ![s] = at[s]]
         /\ loaded = [loaded EXCEPT ![s] = loaded[s]] /\ created = [created EXCEPT ![s] = created[s]]
         /\ work = [work EXCEPT ![s] = work[s]] /\ locks = [locks EXCEPT ![s] = locks[s]]
         /\ Unshared(s, locks[s])
BY DEF ImportInv, FilesTyped, StoreTyped, KeysExclusive, Unshared

\* A new import has written and counted nothing.
LEMMA BeginKeeps ==
  ASSUME ImportInv, NEW s \in Session, NEW f \in Files, I!Begin(s, f)
  PROVE  ImportInv'
<1>1. /\ file[s] = <<>> /\ file' = [file EXCEPT ![s] = f]
      /\ UNCHANGED <<db, work, locks, at, loaded, created, counted>>
  BY DEF I!Begin
<1>2. at[s] = 1 /\ loaded[s] = I!Unread /\ created[s] = {} /\ DOMAIN work[s] = {} /\ locks[s] = {}
  BY <1>1 DEF ImportInv, SessionHolds, Holds
<1>3. PICK w : w = work[s]
  OBVIOUS
<1>4. Holds(s, f, 1, I!Unread, {}, w, {})
  <2>1. CASE f = <<>>
    BY <1>2, <1>3, <2>1 DEF Holds
  <2>2. CASE f # <<>>
    <3>1. 1 \in 1 .. Len(f) + 1
      BY FilesAssumption
    <3>2. DOMAIN w = {}
      BY <1>2, <1>3
    <3>3. Writes(s, {}, w, {})
      BY <3>2 DEF Writes
    <3>4. Behind(f, 1, w) /\ Found(f, 1, I!Unread, w)
      BY DEF Behind, Found, I!Unread
    <3>5. QED
      BY <2>2, <3>1, <3>3, <3>4, HoldsParts
  <2>3. QED
    BY <2>1, <2>2
<1>5. Moves(s, f, 1, I!Unread, {}, w, {})
  BY <1>1, <1>2, <1>3, ImportStays DEF Moves
<1>6. Unshared(s, {}) /\ db' = db /\ counted' = counted
  BY <1>1 DEF Unshared
<1>7. QED
  BY <1>4, <1>5, <1>6, ImportMoves, Zenon

\* A select finds what the session sees.
LEMMA SelectKeeps ==
  ASSUME ImportInv, NEW s \in Session, I!Select(s)
  PROVE  ImportInv'
<1>1. PICK f, n, l, c, w, held : /\ f = file[s] /\ n = at[s] /\ l = loaded[s] /\ c = created[s]
                                 /\ w = work[s] /\ held = locks[s]
  OBVIOUS
<1>2. f # <<>> /\ n <= Len(f) /\ Holds(s, f, n, l, c, w, held)
  BY <1>1 DEF I!Select, I!InFile, ImportInv, SessionHolds
<1>3. PICK v : v = I!Seen(s, I!Key(s))
  OBVIOUS
<1>4. v = IF KeyOf(f, n) \in DOMAIN w THEN w[KeyOf(f, n)] ELSE db[KeyOf(f, n)]
  BY <1>1, <1>3 DEF I!Seen, I!Key, I!Row, KeyOf
<1>5. KeyOf(f, n) \in I!Keys
  <2>1. f \in Files /\ n \in 1 .. Len(f) + 1 /\ Len(f) \in Nat
    BY <1>2, HoldsParts, FilesAssumption
  <2>2. n \in 1 .. Len(f)
    BY <1>2, <2>1
  <2>3. QED
    BY <2>1, <2>2, KeysOfFiles
<1>6. v # I!Missing => Present(w, KeyOf(f, n))
  BY <1>4, <1>5 DEF Present
<1>7. PICK m : m = [read |-> TRUE, value |-> v]
  OBVIOUS
<1>8. Holds(s, f, n, m, c, w, held)
  BY <1>2, <1>6, <1>7, SelectedHolds
<1>9. /\ loaded' = [loaded EXCEPT ![s] = m]
      /\ UNCHANGED <<db, work, locks, file, at, created, counted>>
  BY <1>3, <1>7 DEF I!Select
<1>10. Moves(s, f, n, m, c, w, held) /\ Unshared(s, held)
  BY <1>1, <1>9, ImportStays DEF Moves
<1>11. db' = db /\ counted' = counted
  BY <1>9
<1>12. QED
  BY <1>8, <1>10, <1>11, ImportMoves, Zenon

\* What the insert of an invoice or of another row writes.
LEMMA InsertedRows ==
  ASSUME NEW s \in Session, NEW f, NEW n, f = file[s], n = at[s], NEW w, NEW k, k = KeyOf(f, n),
         NEW w2, w2 = I!Over(I!Inserted(s), w)
  PROVE  Inserts(s, f[n].value, k, w, w2)
<1> DEFINE new == I!Inserted(s)
           row == CaseOf(k, s)
<1>1. /\ I!Row(s) = f[n] /\ I!Key(s) = k /\ f[n].table = k[1] /\ f[n].key = k[2]
  BY DEF I!Row, I!Key, KeyOf
<1>2. CASE k[1] = "invoices"
  <2> DEFINE first == I!Write(k, f[n].value)
             second == I!Write(row, <<"new">>)
  <2>1. DOMAIN first = {k} /\ first[k] = f[n].value /\ DOMAIN second = {row} /\ second[row] = <<"new">>
    BY DEF I!Write
  <2>2. new = I!Over(first, second)
    BY <1>1, <1>2 DEF I!Inserted, CaseOf
  <2>3. k # row
    BY <1>2 DEF CaseOf
  <2> HIDE DEF first, second, row, new
  <2>4. DOMAIN new = {k, row} /\ new[k] = f[n].value /\ new[row] = <<"new">>
    BY <2>1, <2>2, <2>3 DEF I!Over
  <2>5. /\ DOMAIN w2 = DOMAIN w \union {k, row} /\ w2[k] = f[n].value /\ w2[row] = <<"new">>
        /\ \A r \in DOMAIN w \ {k, row} : w2[r] = w[r]
    BY <2>4 DEF I!Over, new
  <2>6. QED
    BY <1>2, <2>5 DEF row, new, Inserts
<1>3. CASE k[1] # "invoices"
  <2>1. new = I!Write(k, f[n].value)
    BY <1>1, <1>3 DEF I!Inserted
  <2>2. DOMAIN new = {k} /\ new[k] = f[n].value
    BY <2>1 DEF I!Write
  <2> HIDE DEF new
  <2>3. /\ DOMAIN w2 = DOMAIN w \union {k} /\ w2[k] = f[n].value
        /\ \A r \in DOMAIN w \ {k} : w2[r] = w[r]
    BY <2>2 DEF I!Over, new
  <2>4. QED
    BY <1>3, <2>3 DEF new, Inserts
<1>4. QED
  BY <1>2, <1>3

\* Nobody has locked a row that is free.
LEMMA FreeIsUnshared ==
  ASSUME NEW s \in Session, NEW held, Unshared(s, held), NEW k, I!Free(s, k)
  PROVE  Unshared(s, held \union {k})
BY DEF Unshared, I!Free

\* The row after the select: it conflicts, is there already, or is written.
LEMMA StoreKeeps ==
  ASSUME ImportInv, NEW s \in Session, I!Store(s)
  PROVE  ImportInv'
<1>1. PICK f, n, l, c, w, held : /\ f = file[s] /\ n = at[s] /\ l = loaded[s] /\ c = created[s]
                                 /\ w = work[s] /\ held = locks[s]
  OBVIOUS
<1>2. f # <<>> /\ n <= Len(f) /\ Holds(s, f, n, l, c, w, held) /\ l.read
  BY <1>1 DEF I!Store, I!InFile, ImportInv, SessionHolds
<1>3. PICK k : k = KeyOf(f, n)
  OBVIOUS
<1>4. I!Row(s) = f[n] /\ I!Key(s) = k /\ (I!Known(s) <=> l.value # I!Missing)
  BY <1>1, <1>3 DEF I!Row, I!Key, I!Known, KeyOf
<1>5. k \in I!Keys
  <2>1. f \in Files /\ n \in 1 .. Len(f) + 1 /\ Len(f) \in Nat
    BY <1>2, HoldsParts, FilesAssumption
  <2>2. n \in 1 .. Len(f)
    BY <1>2, <2>1
  <2>3. QED
    BY <1>3, <2>1, <2>2, KeysOfFiles
<1>6. I!Known(s) => Present(w, k)
  BY <1>2, <1>3, <1>4, HoldsParts DEF Found
<1>7. CASE I!Conflict(s)
  BY <1>7, ImportFails, Zenon DEF I!Store
<1>8. CASE ~ I!Conflict(s)
  <2>1. /\ at' = [at EXCEPT ![s] = n + 1] /\ loaded' = [loaded EXCEPT ![s] = I!Unread]
        /\ created' = [created EXCEPT ![s] = c \union IF I!Known(s) THEN {} ELSE {k}]
        /\ file' = file /\ counted' = counted
    BY <1>1, <1>4, <1>8 DEF I!Store, I!NextRow
  <2>2. file' = [file EXCEPT ![s] = f]
    BY <1>1, <2>1, ImportStays
  <2>3. CASE ~ I!Changes(s)
    <3>1. I!Known(s)
      BY <2>3 DEF I!Changes
    <3>2. Holds(s, f, n + 1, I!Unread, c, w, held)
      BY <1>2, <1>3, <1>6, <3>1, SkippedHolds
    <3>3. UNCHANGED <<db, work, locks>>
      <4>1. UNCHANGED I!store
        BY <1>8, <2>3 DEF I!Store, I!Changes
      <4>2. QED
        BY <4>1 DEF I!store
    <3>4. Moves(s, f, n + 1, I!Unread, c, w, held) /\ Unshared(s, held)
      BY <1>1, <2>1, <2>2, <3>1, <3>3, ImportStays DEF Moves
    <3>5. db' = db
      BY <3>3
    <3>6. QED
      BY <2>1, <3>2, <3>4, <3>5, ImportMoves, Zenon
  <2>4. CASE I!Changes(s) /\ I!Known(s)
    <3>1. PICK w2 : w2 = I!Over(I!Write(k, f[n].value), w)
      OBVIOUS
    <3>2. I!Statement(s, {k}, I!Write(k, f[n].value)) /\ I!Free(s, k)
      BY <1>4, <1>8, <2>4 DEF I!Store
    <3>3. db' = db /\ locks' = [locks EXCEPT ![s] = held \union {k}] /\ work' = [work EXCEPT ![s] = w2]
      BY <1>1, <3>1, <3>2 DEF I!Statement
    <3>4. DOMAIN w2 = DOMAIN w \union {k} /\ w2[k] = f[n].value /\ \A r \in DOMAIN w \ {k} : w2[r] = w[r]
      BY <3>1 DEF I!Over, I!Write
    <3>5. Holds(s, f, n + 1, I!Unread, c, w2, held \union {k})
      <4>1. Present(w, k)
        BY <1>6, <2>4
      <4>2. QED
        BY <1>2, <1>3, <3>4, <4>1, UpdatedHolds, Zenon
    <3>6. Moves(s, f, n + 1, I!Unread, c, w2, held \union {k})
      BY <2>1, <2>2, <2>4, <3>3 DEF Moves
    <3>7. Unshared(s, held \union {k})
      BY <1>1, <3>2, ImportStays, FreeIsUnshared
    <3>8. QED
      BY <2>1, <3>3, <3>5, <3>6, <3>7, ImportMoves, Zenon
  <2>5. CASE ~ I!Known(s)
    <3>1. PICK w2 : w2 = I!Over(I!Inserted(s), w)
      OBVIOUS
    <3>2. I!Statement(s, {k}, I!Inserted(s)) /\ I!Free(s, k)
      BY <1>4, <1>8, <2>5 DEF I!Store, I!Changes
    <3>3. db' = db /\ locks' = [locks EXCEPT ![s] = held \union {k}] /\ work' = [work EXCEPT ![s] = w2]
      BY <1>1, <3>1, <3>2 DEF I!Statement
    <3>4. I!Seen(s, k) = I!Missing
      BY <1>4, <1>8, <2>5 DEF I!Conflict
    <3>5. \A r \in DOMAIN w : w[r] # I!Missing
      BY <1>2, HoldsParts DEF Writes
    <3>6. k \notin DOMAIN w /\ db[k] = I!Missing
      BY <1>1, <3>4, <3>5 DEF I!Seen
    <3>7. Inserts(s, f[n].value, k, w, w2)
      BY <1>1, <1>3, <3>1, InsertedRows, Zenon
    <3>8. Holds(s, f, n + 1, I!Unread, c \union {k}, w2, held \union {k})
      BY <1>2, <1>3, <3>6, <3>7, AddedHolds, Zenon
    <3>9. Moves(s, f, n + 1, I!Unread, c \union {k}, w2, held \union {k})
      BY <2>1, <2>2, <2>5, <3>3 DEF Moves
    <3>10. Unshared(s, held \union {k})
      BY <1>1, <3>2, ImportStays, FreeIsUnshared
    <3>11. QED
      BY <2>1, <3>3, <3>8, <3>9, <3>10, ImportMoves, Zenon
  <2>6. QED
    BY <2>3, <2>4, <2>5
<1>9. QED
  BY <1>7, <1>8

\* The committed rows become those that the session s, which has counted c, sees with w.
Committed(s, c, w) ==
  /\ db' = I!Over(w, db)
  /\ counted' = [k \in I!Keys |-> IF k \in c THEN counted[k] + 1 ELSE counted[k]]

\* They are those before and the counted ones, and the new cases are of counted invoices.
AddsRows(s, c, w, held) ==
  /\ DOMAIN db' = I!Keys \union I!Cases
  /\ \A r \in I!Keys \union I!Cases : db'[r] = IF r \in DOMAIN w THEN w[r] ELSE db[r]
  /\ \A r \in I!Keys \union I!Cases : db[r] # I!Missing => db'[r] # I!Missing
  /\ \A k \in I!Keys \ held : db'[k] = db[k]
  /\ \A k \in c : k \in I!Keys /\ k \in DOMAIN w /\ db[k] = I!Missing
  /\ \A k \in I!Keys \ c : db'[k] = I!Missing <=> db[k] = I!Missing
  /\ \A k \in I!Keys : \A t \in Session :
       k[1] = "invoices" /\ CaseOf(k, t) \in DOMAIN w => k \in c /\ t = s
  /\ \A k : Present(w, k) => k \in I!Keys /\ db'[k] # I!Missing

\* A commit adds rows, and a case only to the invoices that the session has counted.
LEMMA CommittedRows ==
  ASSUME DOMAIN db = I!Keys \union I!Cases, NEW s \in Session, NEW c, NEW w, NEW held,
         Writes(s, c, w, held), Committed(s, c, w)
  PROVE  AddsRows(s, c, w, held)
<1>1. /\ DOMAIN w \subseteq I!Keys \union {CaseOf(x, s) : x \in {y \in c : y[1] = "invoices"}}
      /\ DOMAIN w \cap I!Keys \subseteq held
      /\ \A r \in DOMAIN w : w[r] # I!Missing
      /\ c = {x \in DOMAIN w \cap I!Keys : db[x] = I!Missing}
  BY Zenon DEF Writes
<1>2. \A k \in c : k \in I!Keys /\ k \in DOMAIN w /\ db[k] = I!Missing
  BY <1>1
<1>3. \A k \in c : k[1] = "invoices" => CaseOf(k, s) \in I!Cases
  BY <1>2, CaseIsOne
<1>4. DOMAIN w \subseteq I!Keys \union I!Cases
  BY <1>1, <1>3
<1>5. DOMAIN db' = I!Keys \union I!Cases
  BY <1>4 DEF Committed, I!Over
<1>6. \A r \in I!Keys \union I!Cases : db'[r] = IF r \in DOMAIN w THEN w[r] ELSE db[r]
  BY <1>4 DEF Committed, I!Over
<1>7. \A r \in I!Keys \union I!Cases : db[r] # I!Missing => db'[r] # I!Missing
  BY <1>1, <1>6
<1>8. \A k \in I!Keys \ held : db'[k] = db[k]
  BY <1>1, <1>6
<1>9. \A k \in I!Keys \ c : db'[k] = I!Missing <=> db[k] = I!Missing
  BY <1>1, <1>6
<1>10. ASSUME NEW k \in I!Keys, NEW t \in Session, k[1] = "invoices", CaseOf(k, t) \in DOMAIN w
       PROVE  k \in c /\ t = s
  <2>1. CaseOf(k, t) \notin I!Keys
    BY KeyIsPair
  <2>2. PICK x \in c : x[1] = "invoices" /\ CaseOf(k, t) = CaseOf(x, s)
    BY <1>1, <1>10, <2>1
  <2>3. k = x /\ t = s
    BY <1>2, <1>10, <2>2, CaseIsOne
  <2>4. QED
    BY <2>2, <2>3
<1>11. \A k : Present(w, k) => k \in I!Keys /\ db'[k] # I!Missing
  BY <1>1, <1>6 DEF Present
<1>12. QED
  BY <1>2, <1>5, <1>6, <1>7, <1>8, <1>9, <1>10, <1>11, Zenon DEF AddsRows

\* Every row stands after a commit.
LEMMA CommitStands ==
  ASSUME DOMAIN db = I!Keys \union I!Cases, NEW s \in Session, NEW c, NEW w, NEW held,
         Writes(s, c, w, held), Committed(s, c, w), NEW k \in I!Keys, RowStands(k)
  PROVE  RowStands(k)'
<1>0. AddsRows(s, c, w, held)
  BY CommittedRows, Zenon
<1>1. /\ \A r \in I!Keys \union I!Cases : db'[r] = IF r \in DOMAIN w THEN w[r] ELSE db[r]
      /\ \A r \in I!Keys \union I!Cases : db[r] # I!Missing => db'[r] # I!Missing
      /\ k \in c => k \in DOMAIN w /\ db[k] = I!Missing
      /\ k \notin c => (db'[k] = I!Missing <=> db[k] = I!Missing)
      /\ \A t \in Session : k[1] = "invoices" /\ CaseOf(k, t) \in DOMAIN w => k \in c /\ t = s
      /\ \A j : Present(w, j) => j \in I!Keys /\ db'[j] # I!Missing
  BY <1>0 DEF AddsRows
<1>2. /\ \A r \in DOMAIN w : w[r] # I!Missing
      /\ \A j \in c : j[1] = "invoices" => CaseOf(j, s) \in DOMAIN w
      /\ \A j \in DOMAIN w \cap I!Keys : j[1] = "invoices" => Present(w, <<"customers", w[j][1]>>)
  BY DEF Writes
<1>3. I!Keys' = I!Keys /\ I!Missing' = I!Missing
  BY KeysStay DEF I!Missing
<1>4. \A t : CaseOf(k, t)' = CaseOf(k, t)
  BY DEF CaseOf
<1>5. counted'[k] = IF db'[k] = I!Missing THEN 0 ELSE 1
  BY <1>1, <1>2 DEF Committed, RowStands
<1>6. ASSUME k[1] = "invoices"
      PROVE  IF db'[k] = I!Missing
             THEN \A t \in Session : db'[CaseOf(k, t)] = I!Missing
             ELSE /\ \E o \in Session : \A t \in Session : db'[CaseOf(k, t)] # I!Missing <=> t = o
                  /\ <<"customers", db'[k][1]>> \in I!Keys
                  /\ db'[<<"customers", db'[k][1]>>] # I!Missing
  <2>1. \A t \in Session : CaseOf(k, t) \in I!Cases
    BY <1>6, CaseIsOne
  <2>2. CASE k \in c
    <3>1. db[k] = I!Missing /\ db'[k] = w[k] /\ k \in DOMAIN w \cap I!Keys /\ db'[k] # I!Missing
      BY <1>1, <1>2, <2>2
    <3>2. \A t \in Session : db[CaseOf(k, t)] = I!Missing
      BY <1>6, <3>1 DEF RowStands
    <3>3. \A t \in Session : db'[CaseOf(k, t)] # I!Missing <=> t = s
      BY <1>1, <1>2, <1>6, <2>1, <2>2, <3>2
    <3>4. /\ <<"customers", db'[k][1]>> \in I!Keys
          /\ db'[<<"customers", db'[k][1]>>] # I!Missing
      BY <1>1, <1>2, <1>6, <3>1
    <3>5. QED
      BY <3>1, <3>3, <3>4
  <2>3. CASE k \notin c
    <3>1. \A t \in Session : db'[CaseOf(k, t)] = db[CaseOf(k, t)]
      BY <1>1, <1>6, <2>1, <2>3
    <3>2. CASE db[k] = I!Missing
      BY <1>1, <1>6, <2>3, <3>1, <3>2 DEF RowStands
    <3>3. CASE db[k] # I!Missing
      <4>1. db'[k] # I!Missing
        BY <1>1, <2>3, <3>3
      <4>2. \E o \in Session : \A t \in Session : db'[CaseOf(k, t)] # I!Missing <=> t = o
        BY <1>6, <3>1, <3>3 DEF RowStands
      <4>3. /\ <<"customers", db'[k][1]>> \in I!Keys
            /\ db'[<<"customers", db'[k][1]>>] # I!Missing
        <5>1. CASE k \in DOMAIN w
          BY <1>1, <1>2, <1>6, <5>1
        <5>2. CASE k \notin DOMAIN w
          <6>1. db'[k] = db[k]
            BY <1>1, <5>2
          <6>2. /\ <<"customers", db[k][1]>> \in I!Keys
                /\ db[<<"customers", db[k][1]>>] # I!Missing
            BY <1>6, <3>3 DEF RowStands
          <6>3. QED
            BY <1>1, <6>1, <6>2
        <5>3. QED
          BY <5>1, <5>2
      <4>4. QED
        BY <4>1, <4>2, <4>3
    <3>4. QED
      BY <3>2, <3>3
  <2>4. QED
    BY <2>2, <2>3
<1>7. QED
  BY <1>3, <1>4, <1>5, <1>6 DEF RowStands

\* The commit of a file counts what it adds and leaves the other imports what they hold.
LEMMA CommitFileKeeps ==
  ASSUME ImportInv, NEW s \in Session, I!CommitFile(s)
  PROVE  ImportInv'
<1>1. PICK f, n, l, c, w, held : /\ f = file[s] /\ n = at[s] /\ l = loaded[s] /\ c = created[s]
                                 /\ w = work[s] /\ held = locks[s]
  OBVIOUS
<1>2. f # <<>> /\ Holds(s, f, n, l, c, w, held)
  BY <1>1 DEF I!CommitFile, ImportInv, SessionHolds
<1>3. Writes(s, c, w, held)
  BY <1>2, HoldsParts
<1>4. Committed(s, c, w) /\ I!End(s) /\ I!Ended(s)
  BY <1>1 DEF I!CommitFile, I!Commit, Committed
<1>5. /\ ImportAlone(s) /\ FilesTyped' /\ StoreTyped' /\ SessionHolds(s)' /\ locks'[s] = {}
  BY <1>4, ImportEnds
<1>6. DOMAIN db = I!Keys \union I!Cases
  BY DEF ImportInv
<1>7. /\ DOMAIN db' = I!Keys \union I!Cases
      /\ \A k \in I!Keys : db[k] # I!Missing => db'[k] # I!Missing
      /\ \A k \in I!Keys \ held : db'[k] = db[k]
  BY <1>3, <1>4, <1>6, CommittedRows DEF AddsRows
<1>8. \A t \in Session \ {s} : locks'[s] \cap locks[t] = {}
  BY <1>5
<1>9. KeysExclusive' /\ \A t \in Session \ {s} : SessionHolds(t)'
  BY <1>1, <1>5, <1>7, <1>8, OthersHold
<1>10. \A k \in I!Keys : RowStands(k)'
  BY <1>3, <1>4, <1>6, CommitStands DEF ImportInv
<1>11. QED
  BY <1>5, <1>7, <1>9, <1>10, KeysStay DEF ImportInv

-----------------------------------------------------------------------------
(* The theorem.                                                            *)

\* Every step of the imports keeps the invariant.
LEMMA ImportStep ==
  ASSUME ImportInv, [I!Next]_(I!vars)
  PROVE  ImportInv'
<1>1. ASSUME NEW s \in Session, NEW f \in Files, I!Begin(s, f) PROVE ImportInv'
  BY <1>1, BeginKeeps
<1>2. ASSUME NEW s \in Session, I!Select(s) PROVE ImportInv'
  BY <1>2, SelectKeeps
<1>3. ASSUME NEW s \in Session, I!Store(s) PROVE ImportInv'
  BY <1>3, StoreKeeps
<1>4. ASSUME NEW s \in Session, I!CommitFile(s) PROVE ImportInv'
  BY <1>4, CommitFileKeeps
<1>5. ASSUME NEW s \in Session, I!Crash(s) PROVE ImportInv'
  <2>1. I!Fail(s)
    BY <1>5, Zenon DEF I!Crash
  <2>2. QED
    BY <2>1, ImportFails
<1>6. ASSUME NEW s \in Session, I!DeadlockVictim(s) PROVE ImportInv'
  <2>1. I!Fail(s)
    BY <1>6, Zenon DEF I!DeadlockVictim
  <2>2. QED
    BY <2>1, ImportFails
<1>7. CASE UNCHANGED I!vars
  <2>1. /\ db' = db /\ work' = work /\ locks' = locks /\ file' = file /\ at' = at
        /\ loaded' = loaded /\ created' = created /\ counted' = counted
    BY <1>7 DEF I!vars
  <2>2. FilesTyped' /\ StoreTyped' /\ KeysExclusive'
    BY <2>1 DEF ImportInv, FilesTyped, StoreTyped, KeysExclusive
  <2>3. ASSUME NEW s \in Session PROVE SessionHolds(s)'
    <3>1. PICK f, n, l, c, w, held : /\ f = file[s] /\ n = at[s] /\ l = loaded[s] /\ c = created[s]
                                     /\ w = work[s] /\ held = locks[s]
      OBVIOUS
    <3>2. Holds(s, f, n, l, c, w, held)
      BY <3>1 DEF ImportInv, SessionHolds
    <3>3. Holds(s, f, n, l, c, w, held)'
      BY <2>1, <3>2, HoldsKept
    <3>4. QED
      BY <2>1, <3>1, <3>3 DEF SessionHolds
  <2>4. ASSUME NEW k \in I!Keys PROVE RowStands(k)'
    <3>1. RowStands(k) /\ I!Keys' = I!Keys /\ I!Missing' = I!Missing
      BY KeysStay DEF ImportInv, I!Missing
    <3>2. \A t : CaseOf(k, t)' = CaseOf(k, t)
      BY DEF CaseOf
    <3>3. QED
      BY <2>1, <3>1, <3>2 DEF RowStands
  <2>5. QED
    BY <2>1, <2>2, <2>3, <2>4, KeysStay DEF ImportInv
<1>8. QED
  BY <1>1, <1>2, <1>3, <1>4, <1>5, <1>6, <1>7, Zenon DEF I!Next

\* The imports count as everybody does.
LEMMA SameCardinality == \A set : I!Cardinality(set) = Cardinality(set)
BY Zenon DEF I!Cardinality, Cardinality

\* A row that stands has one case if it is an invoice that exists.
LEMMA StandsExactly ==
  ASSUME NEW k \in I!Keys, RowStands(k), k[1] = "invoices"
  PROVE  /\ Cardinality({s \in Session : db[<<"cases", k[2], s>>] # I!Missing})
              = IF db[k] = I!Missing THEN 0 ELSE 1
         /\ db[k] # I!Missing => db[<<"customers", db[k][1]>>] # I!Missing
<1> DEFINE having == {s \in Session : db[<<"cases", k[2], s>>] # I!Missing}
<1>1. having = {s \in Session : db[CaseOf(k, s)] # I!Missing}
  BY DEF CaseOf
<1>2. CASE db[k] = I!Missing
  <2>1. having = {}
    BY <1>1, <1>2 DEF RowStands
  <2>2. QED
    BY <1>2, <2>1, FS_EmptySet
<1>3. CASE db[k] # I!Missing
  <2>1. PICK s \in Session : \A t \in Session : db[CaseOf(k, t)] # I!Missing <=> t = s
    BY <1>3 DEF RowStands
  <2>2. having = {s}
    BY <1>1, <2>1
  <2>3. Cardinality(having) = 1
    BY <2>2, FS_Singleton
  <2>4. QED
    BY <1>3, <2>3 DEF RowStands
<1>4. QED
  BY <1>2, <1>3

\* Whatever files are imported, however the imports overlap, fail and are repeated, every
\* invoice has one case and its customer, and every row was counted as created by one
\* answer (ingestion.py upsert_invoice_rows, bank_imports.py upsert_bank_rows).
THEOREM ImportsAddUp == Spec => []ImportsExact
<1>1. Init => ImportsInv
  <2> SUFFICES ASSUME Init, focus = "ingest" PROVE ImportInv
    BY DEF ImportsInv
  <2>1. I!Init
    BY DEF Init, InitIngest
  <2>2. FilesTyped /\ StoreTyped /\ KeysExclusive /\ DOMAIN db = I!Keys \union I!Cases
    BY <2>1 DEF I!Init, FilesTyped, StoreTyped, KeysExclusive
  <2>3. ASSUME NEW s \in Session PROVE SessionHolds(s)
    BY <2>1, <2>3 DEF I!Init, I!Nothing, SessionHolds, Holds
  <2>4. ASSUME NEW k \in I!Keys PROVE RowStands(k)
    BY <2>1, <2>4, CaseIsOne DEF I!Init, RowStands
  <2>5. QED
    BY <2>2, <2>3, <2>4 DEF ImportInv
<1>2. ImportsInv /\ [Next]_vars => ImportsInv'
  BY OneComponent, ImportStep DEF ImportsInv
<1>3. ImportsInv => ImportsExact
  <2> SUFFICES ASSUME ImportsInv, focus = "ingest" PROVE I!ImportsExact
    BY DEF ImportsExact
  <2>1. \A k \in I!Keys : RowStands(k)
    BY DEF ImportsInv, ImportInv
  <2>2. I!CountedOnce
    BY <2>1 DEF RowStands, I!CountedOnce
  <2>3. I!OneCasePerInvoice
    <3>1. \A k \in I!Keys : k[1] = "invoices" =>
            /\ Cardinality({s \in Session : db[<<"cases", k[2], s>>] # I!Missing})
                 = IF db[k] = I!Missing THEN 0 ELSE 1
            /\ db[k] # I!Missing => db[<<"customers", db[k][1]>>] # I!Missing
      BY <2>1, StandsExactly, Zenon
    <3>2. QED
      BY <3>1, SameCardinality, Zenon DEF I!OneCasePerInvoice
  <2>4. QED
    BY <2>2, <2>3 DEF I!ImportsExact
<1>4. QED
  BY <1>1, <1>2, <1>3, PTL DEF Spec
=============================================================================
