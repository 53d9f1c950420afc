---------------------------- MODULE MCApprovals ----------------------------
(***************************************************************************)
(* A small instance of Approvals for TLC: two approvals of one case, drafts *)
(* under one key for either of them, batches that lock the approvals in    *)
(* opposite orders, carry a stale version, a changed content or a duplicate. *)
(***************************************************************************)
EXTENDS Approvals, TLC

CONSTANTS a1, a2, c1, x1, x2, k1, b1, b2

MCCaseOf == a1 :> c1 @@ a2 :> c1
MCContentOf == a1 :> x1 @@ a2 :> x2

ApproveRequest(a, x) == [kind |-> "approve", approval |-> a, content |-> x]
RejectRequest(a) == [kind |-> "reject", approval |-> a]
DraftRequest(a, x, k) == [kind |-> "draft", approval |-> a, content |-> x, key |-> k]
BulkRequest(k, items) == [kind |-> "bulk", key |-> k, items |-> items]
Of(a, v, x) == [approval |-> a, version |-> v, content |-> x]

\* One session at a time: every kind of request, with a changed content, a stale version
\* and a key that is used for another approval.
SingleBody ==
  { ApproveRequest(a1, x1), ApproveRequest(a1, x2), RejectRequest(a1),
    DraftRequest(a1, x1, k1), DraftRequest(a2, x2, k1),
    BulkRequest(b1, <<Of(a1, 1, x1), Of(a2, 1, x2)>>),
    BulkRequest(b2, <<Of(a2, 1, x2), Of(a1, 1, x2)>>),
    BulkRequest(b2, <<Of(a1, 2, x1), Of(a1, 1, x1)>>) }

\* Two sessions: what can wait or be waited for.  Batches that lock the two approvals in
\* opposite orders, the second with a changed content; a batch with a stale version and a
\* repeated approval; single decisions of either approval, one for a changed content; and
\* the draft of the approval they share.
OverlappingBody ==
  { ApproveRequest(a2, x2), ApproveRequest(a1, x2), RejectRequest(a1),
    DraftRequest(a1, x1, k1),
    BulkRequest(b1, <<Of(a1, 1, x1), Of(a2, 1, x2)>>),
    BulkRequest(b2, <<Of(a2, 1, x2), Of(a1, 1, x2)>>),
    BulkRequest(b2, <<Of(a1, 2, x1), Of(a1, 1, x1)>>) }
=============================================================================
