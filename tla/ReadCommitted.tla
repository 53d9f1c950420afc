--------------------------- MODULE ReadCommitted ---------------------------
(***************************************************************************)
(* What the services assume of their database: PostgreSQL at its default   *)
(* READ COMMITTED level, as backend/infrastructure/database.py opens it.   *)
(* One session is one request; it sees the committed rows and its own      *)
(* writes, waits for a row that another session has locked, and either     *)
(* commits all of its writes or none.  The database is not part of the     *)
(* repository: it is modelled from how the code uses it.                   *)
(***************************************************************************)
EXTENDS Integers, FiniteSets

CONSTANT Session    \* database sessions, one per request

VARIABLES
  db,       \* committed rows: a function from row identifiers to values
  work,     \* work[s]: the rows session s has written and not committed
  locks     \* locks[s]: the rows session s has locked

store == <<db, work, locks>>

Nothing == <<>>     \* no writes: the function with an empty domain

\* The write of one row, and writes put over others (or over the database).
Write(row, value) == [r \in {row} |-> value]
Over(new, old) ==
  [r \in DOMAIN new \cup DOMAIN old |-> IF r \in DOMAIN new THEN new[r] ELSE old[r]]

\* The value a statement of s reads: its own write, else the committed one.
Seen(s, row) == IF row \in DOMAIN work[s] THEN work[s][row] ELSE db[row]

\* No other session has the row locked.
Free(s, row) == \A o \in Session \ {s} : row \notin locks[o]

\* One statement of s: it locks rows (the caller waits until they are free)
\* and writes new, a function whose domain is part of rows.
Statement(s, rows, new) ==
  /\ locks' = [locks EXCEPT ![s] = @ \cup rows]
  /\ work' = [work EXCEPT ![s] = Over(new, @)]
  /\ UNCHANGED db

\* Mutant: the connection goes back to the pool with its locks.
EndLeakingLocks(s) ==
  /\ work' = [work EXCEPT ![s] = Nothing]
  /\ UNCHANGED locks

\* Both ways to end a session: locks and private writes go.
End(s) ==
  /\ locks' = [locks EXCEPT ![s] = {}]
  /\ work' = [work EXCEPT ![s] = Nothing]

\* The exit of tenant_session without an exception.
Commit(s) == db' = Over(work[s], db) /\ End(s)

\* Its exit with one: an HTTP error, a constraint, a lost connection.
Rollback(s) == UNCHANGED db /\ End(s)

\* s is on a cycle of sessions that each wait for a row of the next;
\* Wants(s) is the set of rows whose lock the next statement of s asks for.
Deadlocked(s, Wants(_)) ==
  LET WaitsFor(x, y) == x # y /\ Wants(x) \cap locks[y] # {}
  IN  \E S \in SUBSET Session :
        /\ s \in S
        /\ \A x \in S : \E y \in S : WaitsFor(x, y)
        /\ \A y \in S : \E x \in S : WaitsFor(x, y)
=============================================================================
