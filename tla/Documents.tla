----------------------------- MODULE Documents ------------------------------
(***************************************************************************)
(* The upload of documents: upload_document and quarantine_and_store, whose *)
(* scan and storage of the content are awaited between the lookup by hash   *)
(* and the insert, inside one database session.  A document is named by the *)
(* hash of its content; its object in storage has the same name, so a       *)
(* second put writes the same object again.  A row exists or not: the       *)
(* document <<"document", d>>, its link <<"link", d>> to the one case, and  *)
(* the source <<"source", d, s>> that an upload in session s leaves.        *)
(***************************************************************************)
EXTENDS ReadCommitted

CONSTANTS Contents,   \* hashes of contents that validate_upload accepts
          Infected    \* those among them that the scanner rejects
VARIABLES upload,     \* upload[s]: the request of session s and how far it is
          objects,    \* the objects in storage
          answered    \* the uploads <<session, request>> answered with success
vars == <<db, work, locks, upload, objects, answered>>

None == [at |-> "none"]
Rows == ({"document", "link"} \X Contents) \union ({"source"} \X Contents \X Session)
Requests == [content : Contents, case : {"none", "known", "unknown"}]

Init ==
    /\ db = [r \in Rows |-> FALSE]
    /\ work = [s \in Session |-> Nothing]
    /\ locks = [s \in Session |-> {}]
    /\ upload = [s \in Session |-> None]
    /\ objects = {}
    /\ answered = {}

At(s, label) == upload[s].at = label
To(s, label) == upload' = [upload EXCEPT ![s].at = label]
Row(s, table) == <<table, upload[s].request.content>>
\* Mutant: a unique violation is taken for a reused document.
RefusedKindly(s) == Rollback(s) /\ To(s, "commit") /\ UNCHANGED <<objects, answered>>
\* Mutant: an indeterminate scan counts as clean.
CleanAssumed(s) == TRUE
Fail(s) == Rollback(s) /\ upload' = [upload EXCEPT ![s] = None] /\ UNCHANGED <<objects, answered>>

Refused(s) == Fail(s)

Begin(s, request) ==
    /\ upload[s] = None
    /\ upload' = [upload EXCEPT ![s] = [at |-> "lookup", request |-> request]]
    /\ UNCHANGED <<store, objects, answered>>

(* A document that exists needs no scan and no storage.                    *)
LookUp(s) ==
    /\ At(s, "lookup")
    /\ To(s, IF Seen(s, Row(s, "document")) THEN "record" ELSE "scan")
    /\ UNCHANGED <<store, objects, answered>>

(* The scanner answers that the content is clean, or that it is not; with  *)
(* no answer the upload fails too (Crash).                                 *)
Clean(s) == upload[s].request.content \notin Infected
Scan(s) ==
    /\ At(s, "scan")
    /\ IF Clean(s) THEN To(s, "put") /\ UNCHANGED <<store, objects, answered>> ELSE Fail(s)

Put(s) ==
    /\ At(s, "put")
    /\ objects' = objects \union {upload[s].request.content}
    /\ To(s, "insert")
    /\ UNCHANGED <<store, answered>>

(* The unique keys of documents (tenant, hash) and links (tenant, case,    *)
(* document): an insert waits for another one of its key and fails when    *)
(* that one has committed.                                                 *)
InsertUnique(s, table, next) ==
    /\ Free(s, Row(s, table))
    /\ IF Seen(s, Row(s, table)) THEN Refused(s)
       ELSE /\ Statement(s, {Row(s, table)}, Write(Row(s, table), TRUE))
            /\ To(s, next)
            /\ UNCHANGED <<objects, answered>>

Insert(s) == At(s, "insert") /\ InsertUnique(s, "document", "record")

(* The source, then the case: an unknown one ends the request.             *)
Record(s) ==
    /\ At(s, "record")
    /\ IF upload[s].request.case = "unknown" THEN Fail(s)
       ELSE /\ Statement(s, {}, Write(<<"source", upload[s].request.content, s>>, TRUE))
            /\ To(s, IF upload[s].request.case = "none" \/ Seen(s, Row(s, "link"))
                     THEN "commit" ELSE "link")
            /\ UNCHANGED <<objects, answered>>

LinkCase(s) == At(s, "link") /\ InsertUnique(s, "link", "commit")

CommitUpload(s) ==
    /\ At(s, "commit")
    /\ Commit(s)
    /\ answered' = answered \union {<<s, upload[s].request>>}
    /\ upload' = [upload EXCEPT ![s] = None]
    /\ UNCHANGED objects

Crash(s) == upload[s] # None /\ Fail(s)

Next == \E s \in Session :
          \/ \E request \in Requests : Begin(s, request)
          \/ LookUp(s) \/ Scan(s) \/ Put(s) \/ Insert(s) \/ Record(s) \/ LinkCase(s)
          \/ CommitUpload(s) \/ Crash(s)

Spec == Init /\ [][Next]_vars

-----------------------------------------------------------------------------
(* A document that the database names was scanned, its object is in        *)
(* storage, and it has a source, whatever uploads overlap or fail between  *)
(* scan, storage and insert; a link is one of a document.                  *)
DocumentsStored ==
    \A d \in Contents :
        /\ db[<<"document", d>>] =>
              d \in objects \ Infected /\ \E s \in Session : db[<<"source", d, s>>]
        /\ db[<<"link", d>>] => db[<<"document", d>>]

(* An upload answered with success is recorded in full: the document, its  *)
(* own source and the link it asked for, although another upload of the    *)
(* same content may have overtaken it.                                     *)
SuccessfulUploadsKept ==
    \A a \in answered : LET d == a[2].content IN
        /\ db[<<"document", d>>] /\ db[<<"source", d, a[1]>>]
        /\ a[2].case = "known" => db[<<"link", d>>]
=============================================================================
