----------------------------- MODULE GmailSync ------------------------------
(***************************************************************************)
(* The synchronisation with a Gmail label (gmail_sync.py, gmail_fixture.py *)
(* for the storing): a full sync pages from the newest message to the      *)
(* oldest, an incremental one asks for the history since the cursor, which *)
(* the provider keeps for a while.  The provider and the caller that keeps *)
(* the cursor are external: pages of the history begin with the oldest     *)
(* message, and every page comes with the current history id of the whole  *)
(* mailbox, as Gmail's do.  A message is its position in the mailbox,      *)
(* which is also its history id; the cursor 0 is None.                     *)
(***************************************************************************)
EXTENDS Naturals

CONSTANTS MaxMessages, \* bound on the mailbox
          PageSize

VARIABLES mailbox,     \* the newest message
          oldest,      \* the provider has the history after this message
          cursor,      \* the stored cursor
          stored,      \* the messages ingested
          sync         \* the full sync under way, or Idle
vars == <<mailbox, oldest, cursor, stored, sync>>

Idle == [running |-> FALSE]
Listing(began, token, ids) == [running |-> TRUE, began |-> began, token |-> token, ids |-> ids]

Init ==
    /\ mailbox \in 0 .. MaxMessages
    /\ oldest = 0 /\ cursor = 0 /\ stored = {}
    /\ sync = Idle

Arrive ==
    /\ mailbox < MaxMessages
    /\ mailbox' = mailbox + 1
    /\ UNCHANGED <<oldest, cursor, stored, sync>>

Forget ==
    /\ oldest < mailbox
    /\ oldest' = mailbox
    /\ UNCHANGED <<mailbox, cursor, stored, sync>>

(* list_page: the messages below the token, the newest of them first.      *)
Page(token) == {m \in 1 .. token : m + PageSize > token}
NextToken(token) == IF token > PageSize THEN token - PageSize ELSE 0
\* Mutant: the last page is not read.
NextTokenShort(token) == IF token > 2 * PageSize THEN token - PageSize ELSE 0
Rest(token) == NextToken(token)

(* history: the first page of what came after the cursor; there is no call *)
(* for the pages behind it.                                                *)
HistoryPage == {m \in cursor + 1 .. mailbox : m <= cursor + PageSize}

Ingest(ids, history) ==
    /\ stored' = stored \union ids
    /\ cursor' = history
    /\ sync' = Idle

(* One round of the loop of initial_sync: the cursor is the history id of  *)
(* the page read last.                                                     *)
ReadPage(began, token, ids) ==
    LET sofar == ids \union Page(token) IN
    IF Rest(token) = 0 THEN Ingest(sofar, mailbox)
    ELSE /\ sync' = Listing(began, Rest(token), sofar)
         /\ UNCHANGED <<stored, cursor>>

NotificationAdvances(received) == cursor = 0 \/ received > cursor
NeedsFullSync == cursor = 0 \/ cursor < oldest

(* A notification (delayed, repeated or out of order) that advances starts *)
(* an incremental sync; without a cursor, or when the history has expired, *)
(* a full one.                                                             *)
Notify(received) ==
    /\ ~ sync.running
    /\ NotificationAdvances(received)
    /\ IF NeedsFullSync THEN ReadPage(mailbox, mailbox, {}) ELSE Ingest(HistoryPage, mailbox)
    /\ UNCHANGED <<mailbox, oldest>>

Continue ==
    /\ sync.running
    /\ ReadPage(sync.began, sync.token, sync.ids)
    /\ UNCHANGED <<mailbox, oldest>>

Crash ==
    /\ sync.running
    /\ sync' = Idle
    /\ UNCHANGED <<mailbox, oldest, cursor, stored>>

Next == \/ Arrive \/ Forget \/ Continue \/ Crash
        \/ \E received \in 1 .. mailbox : Notify(received)

Spec == Init /\ [][Next]_vars

-----------------------------------------------------------------------------
(* The newest message when the full sync that takes this step began.       *)
Began == IF sync.running THEN sync.began ELSE mailbox

(* The cursor only goes forward, whatever notifications are delayed or     *)
(* repeated, and a full sync that moves it has ingested every message that *)
(* was there when it began, over all its pages and whatever arrives, is    *)
(* forgotten or crashes meanwhile (initial_sync).                          *)
FullSyncsComplete ==
    cursor' # cursor =>
        /\ cursor' > cursor
        /\ sync.running \/ NeedsFullSync => 1 .. Began \subseteq stored'

(* What docs/MVP_IMPLEMENTATION_PLAN.md:137 says: the cursor advances only *)
(* after the messages before it were ingested durably.                     *)
CursorFollowsIngestion == 1 .. cursor \subseteq stored
=============================================================================
