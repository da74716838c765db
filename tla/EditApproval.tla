---------------------------- MODULE EditApproval ----------------------------
(***************************************************************************)
(* What the edit requests promise, without transactions and locks.  A      *)
(* salesperson files one request at a time for a document; an              *)
(* administrator decides it once, and the document changes together with   *)
(* the approval.  A document may be edited directly, frozen while its      *)
(* money is received, and deleted with its requests.                       *)
(***************************************************************************)
EXTENDS Naturals, FiniteSets, Functions

CONSTANTS
  Documents, Contents, Requests,
  Receipts,   \* the documents that are read without a lock
  Swifts      \* the documents that have no history

VARIABLES docs, requests, history

Guarded(d) == d \notin Receipts
Kept(d, content) == IF d \in Swifts THEN {} ELSE {[doc |-> d, content |-> content]}

With(f, x, value) == [y \in DOMAIN f \cup {x} |-> IF y = x THEN value ELSE f[y]]
Without(f, S) == Restrict(f, DOMAIN f \ S)
RequestsFor(d) == {q \in DOMAIN requests : requests[q].doc = d}
IsPending(q) == requests[q].status = "PENDING"

\* One document at a time: the requests for two documents share no row.
AInit ==
  /\ \E d \in Documents : docs \in [{d} -> [content : Contents, frozen : {FALSE}]]
  /\ requests = <<>> /\ history = {}

AFile(d, q, after) ==
  /\ d \in DOMAIN docs /\ q \in Requests \ DOMAIN requests
  /\ ~ \E p \in RequestsFor(d) : IsPending(p)
  /\ requests' = With(requests, q, [doc |-> d, status |-> "PENDING", pending |-> TRUE, after |-> after])
  /\ UNCHANGED <<docs, history>>

ADecide(q, status) ==
  /\ IsPending(q)
  /\ requests' = [requests EXCEPT ![q].status = status, ![q].pending = FALSE]

AReject(q) == ADecide(q, "REJECTED") /\ UNCHANGED <<docs, history>>

\* The content that a change overwrites is kept, at least where a lock makes
\* it known.
AWrite(d, content) ==
  /\ d \in DOMAIN docs /\ (Guarded(d) => ~ docs[d].frozen)
  /\ docs' = [docs EXCEPT ![d].content = content]
  /\ \E c \in IF Guarded(d) THEN {docs[d].content} ELSE Contents : history' = history \cup Kept(d, c)

AApprove(q) == ADecide(q, "APPROVED") /\ AWrite(requests[q].doc, requests[q].after)
AEdit(d, content) == AWrite(d, content) /\ UNCHANGED requests

AFreeze(d) ==
  /\ d \in DOMAIN docs /\ docs' = [docs EXCEPT ![d].frozen = ~ @]
  /\ UNCHANGED <<requests, history>>

ADelete(d) ==
  /\ d \in DOMAIN docs /\ docs' = Without(docs, {d})
  /\ requests' = Without(requests, RequestsFor(d))
  /\ history' = {old \in history : old.doc # d}

ANext ==
  \/ \E d \in Documents, q \in Requests, c \in Contents : AFile(d, q, c)
  \/ \E q \in DOMAIN requests : AReject(q) \/ AApprove(q)
  \/ \E d \in Documents : AFreeze(d) \/ ADelete(d) \/ \E c \in Contents : AEdit(d, c)

ASpec == AInit /\ [][ANext]_<<docs, requests, history>>
=============================================================================
