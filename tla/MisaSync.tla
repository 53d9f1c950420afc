------------------------------ MODULE MisaSync ------------------------------
(***************************************************************************)
(* The synchronisation with MISA: sync_misa pages through the source, with *)
(* a limited number of attempts for each page.  Its caller is not in the   *)
(* repository; as in the contract test, it keeps the checkpoint of a sync  *)
(* that returned, and the set known_versions, which the function changes   *)
(* in place, for the next call, also after a sync that raised.             *)
(***************************************************************************)
EXTENDS Naturals, SequencesExt

CONSTANTS Pages,       \* the source: a sequence of pages, sequences of records
          MaxAttempts  \* max_attempts

VARIABLES available,   \* the number of pages the source has so far
          checkpoint,  \* the caller's cursor: the number of pages behind it
          known,       \* known_versions
          sync,        \* the sync under way, or Idle
          returned     \* the records that syncs have returned, in order
vars == <<available, checkpoint, known, sync, returned>>

Idle == [running |-> FALSE]

Init ==
    /\ available = 0 /\ checkpoint = 0
    /\ known = {} /\ returned = <<>>
    /\ sync = Idle

Grow ==
    /\ available < Len(Pages)
    /\ available' = available + 1
    /\ UNCHANGED <<checkpoint, known, sync, returned>>

Start ==
    /\ ~ sync.running
    /\ sync' = [running |-> TRUE, at |-> checkpoint, attempt |-> 1, records |-> <<>>]
    /\ UNCHANGED <<available, checkpoint, known, returned>>

(* The page at the cursor; behind the last one the source answers with an  *)
(* empty page.                                                             *)
Fetched == IF sync.at < available THEN Pages[sync.at + 1] ELSE <<>>
Behind == IF sync.at < available THEN sync.at + 1 ELSE sync.at
NextCursor == Behind < available

(* A record is known by its external id and version, not by its kind.      *)
Identity(r) == <<r.external_id, r.version>>

(* The loop over the records of a page.                                    *)
Take(so, r) ==
    IF Identity(r) \in so.known THEN so
    ELSE [known |-> so.known \union {Identity(r)}, records |-> Append(so.records, r)]
Collected == FoldLeft(Take, [known |-> known, records |-> sync.records], Fetched)
\* Mutant: known_versions is only read.
CollectedUnmarked ==
    LET fresh == SelectSeq(Fetched, LAMBDA r : Identity(r) \notin known)
    IN [known |-> known, records |-> sync.records \o fresh]
Reading == Collected

ReadPage ==
    /\ sync.running
    /\ known' = Reading.known
    /\ IF NextCursor
       THEN /\ sync' = [sync EXCEPT !.at = Behind, !.attempt = 1, !.records = Reading.records]
            /\ UNCHANGED <<checkpoint, returned>>
       ELSE /\ sync' = Idle
            /\ checkpoint' = Behind
            /\ returned' = returned \o Reading.records
    /\ UNCHANGED available

(* A retryable error: another attempt, or the sync raises and what it has  *)
(* read so far is gone, but known_versions keeps it.                       *)
FailPage ==
    /\ sync.running
    /\ sync' = IF sync.attempt < MaxAttempts THEN [sync EXCEPT !.attempt = @ + 1] ELSE Idle
    /\ UNCHANGED <<available, checkpoint, known, returned>>

Next == Grow \/ Start \/ ReadPage \/ FailPage

Spec == Init /\ [][Next]_vars

-----------------------------------------------------------------------------
(* Page p has the record and no page before it has one of its identity.    *)
NewOn(r, p) ==
    /\ r \in ToSet(Pages[p])
    /\ \A q \in 1 .. p - 1 : \A other \in ToSet(Pages[q]) : Identity(other) # Identity(r)

(* No version of a record is returned twice, over any number of syncs,     *)
(* retries, repeated pages and syncs that raise, and records come in the   *)
(* order in which the source has them first.                               *)
RecordsOnceInOrder ==
    \A i, j \in DOMAIN returned : i < j =>
        /\ Identity(returned[i]) # Identity(returned[j])
        /\ \E p, q \in DOMAIN Pages : p <= q /\ NewOn(returned[i], p) /\ NewOn(returned[j], q)

(* What docs/v1-implementation.md:79 says, an error can be retried or      *)
(* replayed: every record behind the checkpoint was returned, also when a  *)
(* sync that had read it raised.                                           *)
RecordsReplayed == \A p \in 1 .. checkpoint : ToSet(Pages[p]) \subseteq ToSet(returned)
=============================================================================
