------------------------------- MODULE Ingest -------------------------------
(***************************************************************************)
(* The import of invoice files and of bank statements: upsert_invoice_rows *)
(* and upsert_bank_rows in the session of their endpoints, statement by    *)
(* statement.  A file is flattened into the rows it asks for, in the order *)
(* of the code: of an invoice line first its customer, then the invoice.   *)
(* Every row is selected by its key without a lock and then inserted,      *)
(* updated or, for bank rows, skipped.  Rows are named by their unique     *)
(* key, <<table, key>>; a case has none and is named by its invoice and    *)
(* the session that made it.                                               *)
(***************************************************************************)
EXTENDS ReadCommitted, Sequences

CONSTANT Files     \* the files, sequences of [table, key, value], values being tuples
VARIABLES file,    \* file[s]: the file session s imports, or <<>>
          at,      \* at[s]: the row of the file it has reached
          loaded,  \* loaded[s]: whether it has selected that row, and what it found
          created, \* created[s]: the rows it has counted as created
          counted  \* counted[k]: how many answers have counted row k as created
vars == <<db, work, locks, file, at, loaded, created, counted>>

Missing == <<>>
Unread == [read |-> FALSE]
Keys == UNION {{<<f[i].table, f[i].key>> : i \in DOMAIN f} : f \in Files}
Cases == {<<"cases", k[2], s>> : k \in {x \in Keys : x[1] = "invoices"}, s \in Session}

Init ==
    /\ db = [r \in Keys \union Cases |-> Missing]
    /\ work = [s \in Session |-> Nothing]
    /\ locks = [s \in Session |-> {}]
    /\ file = [s \in Session |-> <<>>]
    /\ at = [s \in Session |-> 1]
    /\ loaded = [s \in Session |-> Unread]
    /\ created = [s \in Session |-> {}]
    /\ counted = [k \in Keys |-> 0]

Row(s) == file[s][at[s]]
Key(s) == <<Row(s).table, Row(s).key>>
InFile(s) == file[s] # <<>> /\ at[s] <= Len(file[s])
Ended(s) ==
    /\ file' = [file EXCEPT ![s] = <<>>]
    /\ at' = [at EXCEPT ![s] = 1]
    /\ loaded' = [loaded EXCEPT ![s] = Unread]
    /\ created' = [created EXCEPT ![s] = {}]
\* Mutant: the exception is caught inside tenant_session.
FailCommitting(s) == Commit(s) /\ Ended(s) /\ UNCHANGED counted
Fail(s) == Rollback(s) /\ Ended(s) /\ UNCHANGED counted

(* A preview with an invalid row ends the request before any session.      *)
Begin(s, f) ==
    /\ file[s] = <<>>
    /\ file' = [file EXCEPT ![s] = f]
    /\ UNCHANGED <<db, work, locks, at, loaded, created, counted>>

Select(s) ==
    /\ InFile(s) /\ ~ loaded[s].read
    /\ loaded' = [loaded EXCEPT ![s] = [read |-> TRUE, value |-> Seen(s, Key(s))]]
    /\ UNCHANGED <<db, work, locks, file, at, created, counted>>

(* An invoice is inserted with its case, their link, an audit entry and an *)
(* event; <<"new">> stands for all of them.                               *)
Inserted(s) ==
    IF Row(s).table = "invoices"
    THEN Over(Write(Key(s), Row(s).value), Write(<<"cases", Row(s).key, s>>, <<"new">>))
    ELSE Write(Key(s), Row(s).value)
Known(s) == loaded[s].value # Missing
Changes(s) == ~ Known(s) \/ (Row(s).table # "bank" /\ loaded[s].value # Row(s).value)

(* The unique key of a row that another import has inserted since the      *)
(* select, once that import is over.                                       *)
\* Mutant: no unique constraint.
ConflictUnseen(s) == FALSE
Conflict(s) == ~ Known(s) /\ Seen(s, Key(s)) # Missing

NextRow(s) ==
    /\ at' = [at EXCEPT ![s] = @ + 1]
    /\ loaded' = [loaded EXCEPT ![s] = Unread]

Store(s) ==
    /\ InFile(s) /\ loaded[s].read
    /\ Changes(s) => Free(s, Key(s))
    /\ IF Conflict(s) THEN Fail(s)
       ELSE /\ \/ ~ Changes(s) /\ UNCHANGED store
               \/ /\ Changes(s) /\ Known(s)
                  /\ Statement(s, {Key(s)}, Write(Key(s), Row(s).value))
               \/ ~ Known(s) /\ Statement(s, {Key(s)}, Inserted(s))
            /\ created' = [created EXCEPT ![s] = @ \union IF Known(s) THEN {} ELSE {Key(s)}]
            /\ NextRow(s)
            /\ UNCHANGED <<file, counted>>

CommitFile(s) ==
    /\ file[s] # <<>> /\ at[s] > Len(file[s])
    /\ counted' = [k \in Keys |-> IF k \in created[s] THEN counted[k] + 1 ELSE counted[k]]
    /\ Commit(s) /\ Ended(s)

Crash(s) == file[s] # <<>> /\ Fail(s)

Wants(s) == IF InFile(s) /\ loaded[s].read /\ Changes(s) THEN {Key(s)} ELSE {}
DeadlockVictim(s) == Deadlocked(s, Wants) /\ Fail(s)

Next == \E s \in Session :
          \/ \E f \in Files : Begin(s, f)
          \/ Select(s) \/ Store(s) \/ CommitFile(s) \/ Crash(s) \/ DeadlockVictim(s)

Spec == Init /\ [][Next]_vars

-----------------------------------------------------------------------------
(* Whatever imports overlap, fail or die, an invoice has exactly one case  *)
(* (with its link, audit entry and event) and no case is without its       *)
(* invoice; and an invoice never comes without its customer.               *)
OneCasePerInvoice ==
    \A k \in Keys : k[1] = "invoices" =>
        /\ Cardinality({s \in Session : db[<<"cases", k[2], s>>] # Missing})
             = IF db[k] = Missing THEN 0 ELSE 1
        /\ db[k] # Missing => db[<<"customers", db[k][1]>>] # Missing

(* Every row that exists was counted as created by exactly one answer, of  *)
(* the import that inserted it: a file imported again, in part or while    *)
(* its first import runs, creates nothing twice.                           *)
CountedOnce == \A k \in Keys : counted[k] = IF db[k] = Missing THEN 0 ELSE 1

ImportsExact == OneCasePerInvoice /\ CountedOnce
=============================================================================
