---------------------------- MODULE OutlookSync ----------------------------
(***************************************************************************)
(* The connection to an Outlook inbox: the credential that sign-in stores  *)
(* and a refresh renews, and the manual delta sync that copies new mail    *)
(* into communications and remembers how far it came.  A sync request is a *)
(* chain of short database sessions with awaited provider calls between    *)
(* them; only the last one, which stores messages and cursor, holds locks  *)
(* over several statements.                                                *)
(*                                                                         *)
(* The inbox is a sequence of changes and a delta link is a position in    *)
(* it.  Contents of messages and tokens are left out; of a token only      *)
(* matters whether it is more than five minutes from its expiry.           *)
(***************************************************************************)
EXTENDS ReadCommitted, SequencesExt

CONSTANTS
  Account,      \* mailboxes that may be connected
  Message,      \* messages, by their external id
  Changes,      \* Changes[o]: what will happen in inbox o, in order
  PageSize      \* changes in one answer of the delta query

\* A change without receivedDateTime, which is how a deletion is reported.
CONSTANT Deletion

ASSUME ChangesAssumption ==
  /\ Deletion \notin Message
  /\ \A o \in Account : Changes[o] \in Seq(Message \cup {Deletion})

ASSUME PageAssumption == PageSize \in Nat \ {0}

ASSUME AccountAssumption == Account # {}

VARIABLES
  arrived,    \* arrived[o]: how many of the changes of o have happened
  pc,         \* pc[s]: the step session s is at
  account,    \* account[s]: the mailbox it works on
  begun,      \* begun[s]: arrived when it began (only properties read it)
  status,     \* status[s]: the credential status it loaded
  next,       \* next[s]: the link of its next page
  got,        \* got[s]: the messages of its pages, in dict order
  item,       \* item[s]: the message it stores next
  link        \* link[s]: the stored cursor it loaded

vars == <<db, work, locks, arrived, pc, account, begun, status, next, got, item, link>>

----------------------------------------------------------------------------
(* The rows.                                                               *)

CredentialRow(o) == <<"credential", o>>
CursorRow(o) == <<"cursor", o>>
MessageRow(m) == <<"communication", m>>

Row == {CredentialRow(o) : o \in Account} \cup {CursorRow(o) : o \in Account}
         \cup {MessageRow(m) : m \in Message}

CredentialStatus == {"NONE", "CONNECTED", "REAUTH_REQUIRED"}

NoCursor == -1

InitialValue(row) ==
  CASE row[1] = "credential"    -> [status |-> "NONE", fresh |-> FALSE]
    [] row[1] = "cursor"        -> NoCursor
    [] row[1] = "communication" -> FALSE

SomeAccount == CHOOSE o \in Account : TRUE

Init ==
  /\ db = [row \in Row |-> InitialValue(row)]
  /\ work = [s \in Session |-> Nothing]
  /\ locks = [s \in Session |-> {}]
  /\ arrived = [o \in Account |-> 0]
  /\ pc = [s \in Session |-> "idle"]
  /\ account = [s \in Session |-> SomeAccount]
  /\ begun = [s \in Session |-> 0]
  /\ status = [s \in Session |-> "NONE"]
  /\ next = [s \in Session |-> 0]
  /\ got = [s \in Session |-> <<>>]
  /\ item = [s \in Session |-> 1]
  /\ link = [s \in Session |-> NoCursor]

GoTo(s, label) == pc' = [pc EXCEPT ![s] = label]

\* The request is answered, with its result or an error.
Answer(s) ==
  /\ GoTo(s, "idle")
  /\ account' = [account EXCEPT ![s] = SomeAccount]
  /\ begun' = [begun EXCEPT ![s] = 0]
  /\ status' = [status EXCEPT ![s] = "NONE"]
  /\ next' = [next EXCEPT ![s] = 0]
  /\ got' = [got EXCEPT ![s] = <<>>]
  /\ item' = [item EXCEPT ![s] = 1]
  /\ link' = [link EXCEPT ![s] = NoCursor]

\* An exception: of the sync (503), or inside tenant_session, which rolls back.
Fail(s) == Rollback(s) /\ Answer(s) /\ UNCHANGED arrived

\* A session that wrote one row commits.
Publish(s, row, value) == db' = [db EXCEPT ![row] = value] /\ End(s)

----------------------------------------------------------------------------
(* The world outside.                                                      *)

\* Something happens in an inbox.
Arrive(o) ==
  /\ arrived[o] < Len(Changes[o])
  /\ arrived' = [arrived EXCEPT ![o] = @ + 1]
  /\ UNCHANGED <<store, pc, account, begun, status, next, got, item, link>>

\* The stored access token comes within five minutes of its expiry.
Age(o) ==
  /\ db[CredentialRow(o)].fresh
  /\ \A s \in Session : CredentialRow(o) \notin locks[s]
  /\ db' = [db EXCEPT ![CredentialRow(o)].fresh = FALSE]
  /\ UNCHANGED <<work, locks, arrived, pc, account, begun, status, next, got, item, link>>

----------------------------------------------------------------------------
(* microsoft_callback: somebody signs in and consents                      *)

Begin(s) ==
  /\ pc[s] = "idle"
  /\ \/ \E o \in Account :
          /\ account' = [account EXCEPT ![s] = o]
          /\ begun' = [begun EXCEPT ![s] = 0]
          /\ GoTo(s, "connect_load")
     \/ /\ GoTo(s, "find_account")
        /\ UNCHANGED <<account, begun>>
  /\ UNCHANGED <<store, arrived, status, next, got, item, link>>

\* The code has been exchanged for tokens; the credential is looked up.
ConnectLoad(s) ==
  /\ pc[s] = "connect_load"
  /\ status' = [status EXCEPT ![s] = db[CredentialRow(account[s])].status]
  /\ GoTo(s, "connect_store")
  /\ UNCHANGED <<store, arrived, account, begun, next, got, item, link>>

\* The status column is written only when it differs from what was loaded;
\* token and expiry always differ.
Renewed(s) ==
  LET old == db[CredentialRow(account[s])] IN
  [status |-> IF status[s] = "CONNECTED" THEN old.status ELSE "CONNECTED", fresh |-> TRUE]

\* It is updated, or inserted unless somebody else did so meanwhile.
ConnectStore(s) ==
  LET row == CredentialRow(account[s]) IN
  /\ pc[s] = "connect_store"
  /\ Free(s, row)
  /\ \/ /\ status[s] = "NONE" => db[row].status = "NONE"
        /\ Publish(s, row, Renewed(s))
        /\ Answer(s)
        /\ UNCHANGED arrived
     \/ /\ status[s] = "NONE" /\ db[row].status # "NONE"
        /\ Fail(s)

----------------------------------------------------------------------------
(* _outlook_account and outlook_access_token                               *)

FindAccount(s) ==
  /\ pc[s] = "find_account"
  /\ \/ \E o \in Account :
          /\ db[CredentialRow(o)].status = "CONNECTED"
          /\ account' = [account EXCEPT ![s] = o]
          /\ begun' = [begun EXCEPT ![s] = arrived[o]]
          /\ GoTo(s, "load_token")
          /\ UNCHANGED <<store, arrived, status, next, got, item, link>>
     \/ /\ \A o \in Account : db[CredentialRow(o)].status # "CONNECTED"
        /\ Fail(s)

LoadToken(s) ==
  LET credential == db[CredentialRow(account[s])] IN
  /\ pc[s] = "load_token"
  /\ \/ /\ credential.status = "CONNECTED"
        /\ GoTo(s, IF credential.fresh THEN "read_cursor" ELSE "refresh")
        /\ UNCHANGED <<store, arrived, account, begun, status, next, got, item, link>>
     \/ credential.status # "CONNECTED" /\ Fail(s)

\* The token endpoint grants, refuses (any status but 200), or cannot be
\* reached.
Refresh(s) ==
  /\ pc[s] = "refresh"
  /\ \/ \E label \in {"refreshed_load", "refused_load"} :
          /\ GoTo(s, label)
          /\ UNCHANGED <<store, arrived, account, begun, status, next, got, item, link>>
     \/ Fail(s)

LoadCredential(s) ==
  /\ status' = [status EXCEPT ![s] = db[CredentialRow(account[s])].status]
  /\ UNCHANGED <<store, arrived, account, begun, next, got, item, link>>

RefreshedLoad(s) ==
  pc[s] = "refreshed_load" /\ LoadCredential(s) /\ GoTo(s, "refreshed_store")

RefreshedStore(s) ==
  LET row == CredentialRow(account[s]) IN
  /\ pc[s] = "refreshed_store"
  /\ Free(s, row)
  /\ Publish(s, row, Renewed(s))
  /\ status' = [status EXCEPT ![s] = "NONE"]
  /\ GoTo(s, "read_cursor")
  /\ UNCHANGED <<arrived, account, begun, next, got, item, link>>

RefusedLoad(s) ==
  pc[s] = "refused_load" /\ LoadCredential(s) /\ GoTo(s, "refused_store")

\* Whatever happened to the credential since the refresh was sent.
RefusedStore(s) ==
  LET row == CredentialRow(account[s])
      old == db[row]
  IN
  /\ pc[s] = "refused_store"
  /\ Free(s, row)
  /\ Publish(s, row,
       IF status[s] = "REAUTH_REQUIRED" THEN old ELSE [old EXCEPT !.status = "REAUTH_REQUIRED"])
  /\ Answer(s)
  /\ UNCHANGED arrived

----------------------------------------------------------------------------
(* sync_outlook over the delta query                                       *)

ReadCursor(s) ==
  LET stored == db[CursorRow(account[s])] IN
  /\ pc[s] = "read_cursor"
  /\ next' = [next EXCEPT ![s] = IF stored = NoCursor THEN 0 ELSE stored]
  /\ GoTo(s, "fetch")
  /\ UNCHANGED <<store, arrived, account, begun, status, got, item, link>>

\* Mutant: the link of a page that is always full.
PageEndFull(s) == next[s] + PageSize

\* Where the page of s ends, which is where its link continues.
PageEnd(s) == LET o == account[s] IN
  IF next[s] + PageSize <= arrived[o] THEN next[s] + PageSize ELSE arrived[o]

Page(s) == SubSeq(Changes[account[s]], next[s] + 1, PageEnd(s))

\* Mutant: only the last page is kept.
CollectedLast(s) == Page(s)

\* Mutant: a message that appears again moves to the end.
CollectedMoved(s) ==
  LET Move(list, m) == Append(SelectSeq(list, LAMBDA x : x # m), m)
  IN  FoldLeft(Move, got[s], Page(s))

\* The dict of messages: one entry an external id, in the order of the first.
Put(list, m) == IF m \in ToSet(list) THEN list ELSE Append(list, m)
Collected(s) == FoldLeft(Put, got[s], Page(s))

\* Mutant: the next link is not followed.
NoNextLink(s) == FALSE

\* The answer has a next link, not the delta link that ends the round.
NextLink(s) == PageEnd(s) < arrived[account[s]]

\* A page with a deletion cannot be read, and an error of the query fails the
\* whole sync: what was fetched before is dropped.
FetchPage(s) ==
  /\ pc[s] = "fetch"
  /\ \/ /\ Deletion \notin ToSet(Page(s))
        /\ got' = [got EXCEPT ![s] = Collected(s)]
        /\ next' = [next EXCEPT ![s] = PageEnd(s)]
        /\ GoTo(s, CASE NextLink(s)           -> "fetch"
                     [] ~NextLink(s) /\ Collected(s) # <<>> -> "find_message"
                     [] OTHER                 -> "load_cursor")
        /\ UNCHANGED <<store, arrived, account, begun, status, item, link>>
     \/ Fail(s)

----------------------------------------------------------------------------
(* outlook_manual_sync, its last session: messages, then the cursor        *)

\* The message of this round is dealt with.
Proceed(s) ==
  /\ item' = [item EXCEPT ![s] = @ + 1]
  /\ GoTo(s, IF item[s] = Len(got[s]) THEN "load_cursor" ELSE "find_message")
  /\ UNCHANGED <<arrived, account, begun, status, next, got, link>>

FindMessage(s) ==
  LET row == MessageRow(got[s][item[s]]) IN
  /\ pc[s] = "find_message"
  /\ \/ Seen(s, row) /\ Proceed(s) /\ UNCHANGED store
     \/ /\ ~Seen(s, row)
        /\ GoTo(s, "insert_message")
        /\ UNCHANGED <<store, arrived, account, begun, status, next, got, item, link>>

\* The new row is sent before the next select.  Its key is unique: the insert
\* waits for another session that inserted it and fails if that one committed.
InsertMessage(s) ==
  LET row == MessageRow(got[s][item[s]]) IN
  /\ pc[s] = "insert_message"
  /\ Free(s, row)
  /\ \/ ~db[row] /\ Statement(s, {row}, Write(row, TRUE)) /\ Proceed(s)
     \/ db[row] /\ Fail(s)

LoadCursor(s) ==
  /\ pc[s] = "load_cursor"
  /\ link' = [link EXCEPT ![s] = db[CursorRow(account[s])]]
  /\ GoTo(s, "store_cursor")
  /\ UNCHANGED <<store, arrived, account, begun, status, next, got, item>>

\* The cursor column is written when it differs from what was loaded, and
\* commits together with the messages.
StoreCursor(s) ==
  LET row == CursorRow(account[s]) IN
  /\ pc[s] = "store_cursor"
  /\ Free(s, row)
  /\ link[s] = NoCursor => db[row] = NoCursor
  /\ db' = Over(IF next[s] # link[s] THEN Write(row, next[s]) ELSE Nothing, Over(work[s], db))
  /\ End(s)
  /\ Answer(s)
  /\ UNCHANGED arrived

\* Another sync inserted the first cursor meanwhile.
CursorConflict(s) ==
  LET row == CursorRow(account[s]) IN
  /\ pc[s] = "store_cursor"
  /\ Free(s, row)
  /\ link[s] = NoCursor /\ db[row] # NoCursor
  /\ Fail(s)

----------------------------------------------------------------------------

\* The process dies or the connection is lost.
Crash(s) == pc[s] # "idle" /\ Fail(s)

Step(s) ==
  \/ ConnectLoad(s) \/ ConnectStore(s)
  \/ FindAccount(s) \/ LoadToken(s) \/ Refresh(s)
  \/ RefreshedLoad(s) \/ RefreshedStore(s) \/ RefusedLoad(s) \/ RefusedStore(s)
  \/ ReadCursor(s) \/ FetchPage(s)
  \/ FindMessage(s) \/ InsertMessage(s)
  \/ LoadCursor(s) \/ StoreCursor(s) \/ CursorConflict(s)

Next ==
  \/ \E o \in Account : Arrive(o) \/ Age(o)
  \/ \E s \in Session : Begin(s) \/ Step(s) \/ Crash(s)

Spec == Init /\ [][Next]_vars

----------------------------------------------------------------------------
(* Properties.                                                             *)

Labels == {"idle", "connect_load", "connect_store", "find_account", "load_token",
           "refresh", "refreshed_load", "refreshed_store", "refused_load",
           "refused_store", "read_cursor", "fetch", "find_message", "insert_message",
           "load_cursor", "store_cursor"}

Position == UNION {0..arrived[o] : o \in Account}

StoreTyped ==
  /\ DOMAIN db = Row
  /\ \A o \in Account :
       /\ db[CredentialRow(o)] \in [status : CredentialStatus, fresh : BOOLEAN]
       /\ db[CursorRow(o)] \in {NoCursor} \cup (0..arrived[o])
  /\ \A m \in Message : db[MessageRow(m)] \in BOOLEAN
  /\ DOMAIN work = Session
  /\ \A s \in Session :
       /\ DOMAIN work[s] \subseteq {MessageRow(m) : m \in Message}
       /\ \A row \in DOMAIN work[s] : work[s][row] = TRUE
  /\ locks \in [Session -> SUBSET Row]
  /\ arrived \in [Account -> Nat]

ControlTyped ==
  /\ pc \in [Session -> Labels]
  /\ account \in [Session -> Account]
  /\ begun \in [Session -> Position]
  /\ status \in [Session -> CredentialStatus]
  /\ next \in [Session -> Position]
  /\ got \in [Session -> Seq(Message)]
  /\ item \in [Session -> Nat \ {0}]
  /\ link \in [Session -> Position \cup {NoCursor}]

\* Columns keep their types, and no link, stored or held, is ahead of the inbox.
TypeOK == StoreTyped /\ ControlTyped

Stored(m) == m # Deletion => db[MessageRow(m)]

\* No message is skipped: everything before the stored cursor is stored, also
\* when syncs overlap, when the slower one puts an older link over a newer one,
\* and when one of them fails half way.
CursorCovered ==
  \A o \in Account : \A i \in 1..db[CursorRow(o)] : Stored(Changes[o][i])

\* A sync that reports success has stored all that was in the inbox when it
\* began, whoever stored it.
SyncedMeansStored ==
  [][\A s \in Session : StoreCursor(s) =>
       \A m \in Message :
         (\E i \in 1..begun[s] : Changes[account[s]][i] = m) => db'[MessageRow(m)]]_vars

Wants(s) == IF pc[s] = "insert_message" THEN {MessageRow(got[s][item[s]])} ELSE {}

\* Overlapping syncs never wait for each other in a circle, although each holds
\* many new rows: all of them insert in the order of the inbox.
SyncsNeverDeadlock == \A s \in Session : ~Deadlocked(s, Wants)
=============================================================================
