---------------------------- MODULE EditRequests ----------------------------
(***************************************************************************)
(* The edit requests for receipts, payment details and SWIFTs, as          *)
(* transactions that lock rows.  The review of a detail or a SWIFT claims  *)
(* the request and then locks, reads and changes the document; the review  *)
(* of a receipt reads the document from its snapshot, changes it and       *)
(* claims the request last.  What a transaction has written but not        *)
(* committed is in "work"; a row that it has written is locked until it    *)
(* ends, and every other transaction that needs the row waits.             *)
(*                                                                         *)
(* The lock of a SWIFT stands for the lock of its detail.                  *)
(***************************************************************************)
EXTENDS EditApproval

CONSTANTS Handlers

ASSUME RequestsAssumption ==
  /\ Receipts \subseteq Documents /\ Swifts \subseteq Documents /\ Receipts \cap Swifts = {}
  /\ Documents \cap Requests = {}

VARIABLES
  locks,  \* locked rows to the handlers that hold them
  work    \* the transaction of each handler

vars == <<docs, requests, history, locks, work>>

Row == [content : Contents, frozen : BOOLEAN]
Request == [doc : Documents, status : {"PENDING", "APPROVED", "REJECTED"}, pending : BOOLEAN,
            after : Contents]

Idle(h) == work[h] = [step |-> "idle"]
Free(h, rows) == \A row \in rows \cap DOMAIN locks : locks[row] = h
Goto(h, tx) == work' = [work EXCEPT ![h] = tx]
Lock(h, row) == locks' = With(locks, row, h)

\* Commit or rollback: the locks are released.
End(h) ==
  /\ Goto(h, [step |-> "idle"])
  /\ locks' = Restrict(locks, {row \in DOMAIN locks : locks[row] # h})

RollBack(h) == End(h) /\ UNCHANGED <<docs, requests, history>>

-----------------------------------------------------------------------------
(* Filing a request.  The key over the pending request's document is       *)
(* unique.                                                                 *)

\* Fault: a pending request is only looked for, there is no key.
KeyIgnored(d) == FALSE

KeyTaken(d) == \E q \in RequestsFor(d) : requests[q].pending

BeginFile(h, d, after) ==
  /\ Idle(h) /\ d \in DOMAIN docs /\ (Guarded(d) => ~ docs[d].frozen)
  /\ ~ \E q \in RequestsFor(d) : IsPending(q)
  /\ Goto(h, [step |-> "file", doc |-> d, after |-> after])
  /\ UNCHANGED <<docs, requests, history, locks>>

\* The new row waits for the document it refers to and for an equal key.
CommitFile(h) ==
  /\ work[h].step = "file"
  /\ LET d == work[h].doc
     IN /\ Free(h, {d} \cup {q \in RequestsFor(d) : requests[q].pending})
        /\ IF d \notin DOMAIN docs \/ KeyTaken(d) \/ Requests \subseteq DOMAIN requests
           THEN RollBack(h)
           ELSE /\ \E q \in Requests \ DOMAIN requests :
                     requests' = With(requests, q,
                       [doc |-> d, status |-> "PENDING", pending |-> TRUE, after |-> work[h].after])
                /\ End(h) /\ UNCHANGED <<docs, history>>

-----------------------------------------------------------------------------
(* Reviewing a request.  A detail or SWIFT that may not be edited any more *)
(* refuses both decisions.                                                 *)

BeginReview(h, q, decision) ==
  /\ Idle(h) /\ q \in DOMAIN requests /\ IsPending(q)
  /\ LET d == requests[q].doc
     IN /\ Guarded(d) \/ decision = "APPROVED" => ~ docs[d].frozen
        /\ Goto(h, [step |-> IF Guarded(d) \/ decision = "REJECTED" THEN "claim" ELSE "apply",
                    request |-> q, doc |-> d, decision |-> decision,
                    after |-> requests[q].after, seen |-> docs[d].content])
  /\ UNCHANGED <<docs, requests, history, locks>>

\* Fault: the claim does not ask whether the request is still pending.
AlwaysClaimable(q) == q \in DOMAIN requests

Claimable(q) == q \in DOMAIN requests /\ IsPending(q) /\ requests[q].pending

Decided(q, decision) == [requests EXCEPT ![q].status = decision, ![q].pending = FALSE]

\* The first write of a review that claims first; a rejection ends there.
Claim(h) ==
  /\ work[h].step = "claim"
  /\ LET q == work[h].request
     IN /\ Free(h, {q})
        /\ IF ~ Claimable(q) THEN RollBack(h)
           ELSE IF work[h].decision = "REJECTED"
           THEN requests' = Decided(q, "REJECTED") /\ End(h) /\ UNCHANGED <<docs, history>>
           ELSE /\ Lock(h, q) /\ Goto(h, [work[h] EXCEPT !.step = "claimed"])
                /\ UNCHANGED <<docs, requests, history>>

\* Fault: the status that was read before the lock is relied on.
StillThere(d) == d \in DOMAIN docs

\* What applyDetailUpdate and applySwiftUpdate check under the lock.
Editable(d) == d \in DOMAIN docs /\ ~ docs[d].frozen

\* Fault: the history keeps what the review saw when it began.
KeptSeen(d, seen) == Kept(d, seen)

KeptLocked(d, seen) == Kept(d, docs[d].content)

\* The document is locked, read again and changed, and the review commits.
ApplyClaimed(h) ==
  /\ work[h].step = "claimed"
  /\ LET d == work[h].doc
     IN /\ Free(h, {d})
        /\ IF ~ Editable(d) THEN RollBack(h)
           ELSE /\ docs' = [docs EXCEPT ![d].content = work[h].after]
                /\ history' = history \cup KeptLocked(d, work[h].seen)
                /\ requests' = Decided(work[h].request, "APPROVED")
                /\ End(h)

\* A receipt is changed from what the snapshot showed ...
Apply(h) ==
  /\ work[h].step = "apply"
  /\ Free(h, {work[h].doc})
  /\ IF work[h].doc \notin DOMAIN docs THEN RollBack(h)
     ELSE /\ Lock(h, work[h].doc) /\ Goto(h, [work[h] EXCEPT !.step = "applied"])
          /\ UNCHANGED <<docs, requests, history>>

\* ... and the request claimed, or all of it undone.
ClaimApplied(h) ==
  /\ work[h].step = "applied"
  /\ Free(h, {work[h].request})
  /\ IF ~ Claimable(work[h].request) THEN RollBack(h)
     ELSE /\ docs' = [docs EXCEPT ![work[h].doc].content = work[h].after]
          /\ history' = history \cup Kept(work[h].doc, work[h].seen)
          /\ requests' = Decided(work[h].request, "APPROVED")
          /\ End(h)

-----------------------------------------------------------------------------
(* The other writers of documents.                                         *)

\* An administrator edits a receipt from a snapshot ...
BeginEdit(h, d, content) ==
  /\ Idle(h) /\ d \in DOMAIN docs /\ ~ Guarded(d) /\ ~ docs[d].frozen
  /\ Goto(h, [step |-> "edit", doc |-> d, after |-> content, seen |-> docs[d].content])
  /\ UNCHANGED <<docs, requests, history, locks>>

CommitEdit(h) ==
  /\ work[h].step = "edit"
  /\ LET d == work[h].doc
     IN /\ Free(h, {d})
        /\ IF d \notin DOMAIN docs THEN RollBack(h)
           ELSE /\ docs' = [docs EXCEPT ![d].content = work[h].after]
                /\ history' = history \cup Kept(d, work[h].seen)
                /\ End(h) /\ UNCHANGED requests

\* ... and a detail or a SWIFT under the lock.
EditLocked(h, d, content) ==
  /\ Idle(h) /\ Guarded(d) /\ Editable(d) /\ Free(h, {d})
  /\ docs' = [docs EXCEPT ![d].content = content]
  /\ history' = history \cup KeptLocked(d, docs[d].content)
  /\ UNCHANGED <<requests, locks, work>>

\* The money arrives, or is taken back: the module Settlement says when.
Freeze(h, d) ==
  /\ Idle(h) /\ d \in DOMAIN docs /\ Free(h, {d})
  /\ docs' = [docs EXCEPT ![d].frozen = ~ @]
  /\ UNCHANGED <<requests, history, locks, work>>

\* A deletion removes the document, then its requests and its history.
BeginDelete(h, d) ==
  /\ Idle(h) /\ d \in DOMAIN docs /\ Free(h, {d})
  /\ Lock(h, d) /\ Goto(h, [step |-> "delete", doc |-> d])
  /\ UNCHANGED <<docs, requests, history>>

Cascaded(d) == RequestsFor(d)

CommitDelete(h) ==
  /\ work[h].step = "delete"
  /\ LET d == work[h].doc
     IN /\ Free(h, RequestsFor(d))
        /\ docs' = Without(docs, {d})
        /\ requests' = Without(requests, Cascaded(d))
        /\ history' = {old \in history : old.doc # d}
  /\ End(h)

-----------------------------------------------------------------------------

\* The rows that the next step of a transaction waits for.
Needs(h) ==
  CASE work[h].step \in {"claim", "applied"} -> {work[h].request}
    [] work[h].step \in {"claimed", "apply", "edit"} -> {work[h].doc}
    [] work[h].step = "file" -> {work[h].doc} \cup {q \in RequestsFor(work[h].doc) : requests[q].pending}
    [] work[h].step = "delete" -> RequestsFor(work[h].doc)
    [] OTHER -> {}

WaitsFor(h, g) == g # h /\ \E row \in Needs(h) \cap DOMAIN locks : locks[row] = g

\* Fault: nobody looks for deadlocks.
NoVictim(h) == FALSE /\ RollBack(h)

\* The database rolls back a transaction of a deadlock.  Reviews wait for
\* documents and deletions for requests, so that a cycle has two members.
Victim(h) ==
  /\ \E g \in Handlers : WaitsFor(h, g) /\ WaitsFor(g, h)
  /\ RollBack(h)

\* The process stops, or the caller gives up.
Abort(h) == ~ Idle(h) /\ RollBack(h)

Init == AInit /\ locks = <<>> /\ work = [h \in Handlers |-> [step |-> "idle"]]

Begin(h) ==
  \/ \E d \in DOMAIN docs :
       \/ Freeze(h, d) \/ BeginDelete(h, d)
       \/ \E c \in Contents : BeginFile(h, d, c) \/ BeginEdit(h, d, c) \/ EditLocked(h, d, c)
  \/ \E q \in DOMAIN requests, decision \in {"APPROVED", "REJECTED"} : BeginReview(h, q, decision)

Advance(h) ==
  \/ CommitFile(h) \/ Claim(h) \/ ApplyClaimed(h) \/ Apply(h) \/ ClaimApplied(h)
  \/ CommitEdit(h) \/ CommitDelete(h) \/ Victim(h)

Next == \E h \in Handlers : Begin(h) \/ Advance(h) \/ Abort(h)

\* Locks are granted in the order in which they were asked for: a
\* transaction that can go on again and again does so.
Fairness == \A h \in Handlers : SF_vars(Advance(h))

Spec == Init /\ [][Next]_vars /\ Fairness

-----------------------------------------------------------------------------

\* Rows are well formed, requests belong to documents that exist, and a row
\* is locked only by a transaction under way.
TypeOK ==
  /\ DOMAIN docs \subseteq Documents /\ \A d \in DOMAIN docs : docs[d] \in Row
  /\ DOMAIN requests \subseteq Requests
  /\ \A q \in DOMAIN requests : requests[q] \in Request /\ requests[q].doc \in DOMAIN docs
  /\ \A row \in DOMAIN locks : ~ Idle(locks[row])

\* A document has one pending request at most, however the filings and the
\* reviews interleave, and exactly the pending ones hold its key.
OnePending ==
  \A d \in DOMAIN docs :
    /\ Cardinality({q \in RequestsFor(d) : IsPending(q)}) <= 1
    /\ \A q \in RequestsFor(d) : IsPending(q) = requests[q].pending

\* A detail or a SWIFT whose money was received is not changed by a review
\* that began before.
FrozenIsNotEdited ==
  [][ \A d \in DOMAIN docs \cap DOMAIN docs' :
        Guarded(d) /\ docs[d].frozen => docs'[d].content = docs[d].content ]_vars

\* The history of a detail has every content that was ever overwritten.
OverwrittenIsKept ==
  [][ \A d \in (DOMAIN docs \cap DOMAIN docs') \ (Receipts \cup Swifts) :
        docs'[d].content # docs[d].content =>
          [doc |-> d, content |-> docs[d].content] \in history' ]_vars

\* The transactions show nothing but whole decisions: a document changes with
\* the approval of its pending request or by a direct edit, and a loser of
\* two reviews, a rejection or an abort leave no trace.
ImplementsApproval == ASpec

\* No transaction waits for ever: the opposite order in which reviews and
\* deletions lock documents and requests is resolved by a rollback.
EveryTransactionEnds == \A h \in Handlers : work[h].step # "idle" ~> work[h].step = "idle"

\* "Approval applies against the latest stored receipt row": a receipt that
\* became Bank_Transfer is not changed by a review that began before.
AppliesToLatestRow ==
  [][ \A d \in DOMAIN docs \cap DOMAIN docs' : docs[d].frozen => docs'[d].content = docs[d].content ]_vars
=============================================================================
