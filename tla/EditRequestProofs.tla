------------------------- MODULE EditRequestProofs -------------------------
(***************************************************************************)
(* Theorems about EditRequests, for any documents, contents, requests and  *)
(* handlers.  Every action of a handler is one of a few kinds of steps: a  *)
(* transaction that goes on and shows nothing, or a commit that changes    *)
(* the tables as EditApproval lets it.  RequestInv says what a handler may *)
(* rely on between its steps: the unique key, because pending requests and *)
(* no others hold it; what it has locked; and, as long as its document is  *)
(* there, what it remembers of the request it reviews.                     *)
(***************************************************************************)
EXTENDS EditRequests, FiniteSetTheorems, TLAPS

\* What a handler may be doing: a direct edit and the review that applies
\* before it claims are for receipts.
Decision == {"APPROVED", "REJECTED"}
Transaction ==
  [step : {"idle"}]
    \cup [step : {"delete"}, doc : Documents]
    \cup [step : {"file"}, doc : Documents, after : Contents]
    \cup [step : {"edit"}, doc : Receipts, after : Contents, seen : Contents]
    \cup [step : {"claim", "claimed"}, request : Requests, doc : Documents, decision : Decision,
          after : Contents, seen : Contents]
    \cup [step : {"apply", "applied"}, request : Requests, doc : Receipts, decision : Decision,
          after : Contents, seen : Contents]

TypeInv ==
  /\ TypeOK
  /\ work \in [Handlers -> Transaction]
  /\ \A row \in DOMAIN locks : locks[row] \in Handlers

\* The unique key: pending requests hold it, others do not.
KeyInv ==
  /\ \A q \in DOMAIN requests : IsPending(q) = requests[q].pending
  /\ \A p, q \in DOMAIN requests :
       requests[p].pending /\ requests[q].pending /\ requests[p].doc = requests[q].doc => p = q

\* A deletion under way holds its document, a review that has claimed its
\* request holds that one, and both still find what they hold.
LockInv ==
  \A h \in Handlers :
    /\ work[h].step = "delete" =>
         /\ work[h].doc \in DOMAIN docs \cap DOMAIN locks
         /\ locks[work[h].doc] = h
    /\ work[h].step = "claimed" =>
         /\ work[h].request \in DOMAIN requests \cap DOMAIN locks
         /\ locks[work[h].request] = h /\ IsPending(work[h].request)

\* As long as the document is there, a review remembers of its request what
\* the request says.
Reviews == {"claim", "claimed", "apply", "applied"}
ReviewInv ==
  /\ \A d, e \in DOMAIN docs : d = e
  /\ \A h \in Handlers : work[h].step \in Reviews /\ DOMAIN docs # {} =>
       LET q == work[h].request
       IN q \in DOMAIN requests /\ requests[q].doc = work[h].doc /\ requests[q].after = work[h].after

RequestInv == TypeInv /\ KeyInv /\ LockInv /\ ReviewInv
-----------------------------------------------------------------------------
(* The kinds of steps.  Whatever an action does is one of these, and the   *)
(* invariant and the refinement are proved of the kinds.                   *)

tables == <<docs, requests, history>>

\* A transaction goes on and changes no table; it may lock a row that is free.
Moves(h, tx) ==
  /\ Goto(h, tx) /\ UNCHANGED tables
  /\ tx \in Transaction /\ tx.step # "idle"
  /\ UNCHANGED locks \/ \E row : Free(h, {row}) /\ Lock(h, row)
  /\ tx.step = "delete" => tx.doc \in DOMAIN docs /\ Free(h, {tx.doc}) /\ Lock(h, tx.doc)
  /\ tx.step = "claimed" =>
       /\ tx.request \in DOMAIN requests /\ IsPending(tx.request)
       /\ Free(h, {tx.request}) /\ Lock(h, tx.request)
  /\ tx.step \in Reviews /\ DOMAIN docs # {} =>
       LET q == tx.request
       IN q \in DOMAIN requests /\ requests[q].doc = tx.doc /\ requests[q].after = tx.after

Files(d, q, c) ==
  /\ d \in DOMAIN docs /\ c \in Contents /\ q \in Requests \ DOMAIN requests /\ ~ KeyTaken(d)
  /\ requests' = With(requests, q, [doc |-> d, status |-> "PENDING", pending |-> TRUE, after |-> c])
  /\ UNCHANGED <<docs, history>>

Decides(h, q, decision) ==
  /\ Claimable(q) /\ Free(h, {q}) /\ requests' = Decided(q, decision)
  /\ \/ decision = "REJECTED" /\ UNCHANGED <<docs, history>>
     \/ decision = "APPROVED" /\ AWrite(requests[q].doc, requests[q].after)

Deletes(h, d) ==
  /\ work[h].step = "delete" /\ work[h].doc = d
  /\ Free(h, RequestsFor(d)) /\ ADelete(d)

Writes(d) == AFreeze(d) \/ \E c \in Contents : AEdit(d, c)

\* A commit ends the transaction; the writes of one action never begin one.
Commits(h) ==
  \/ /\ End(h)
     /\ \/ UNCHANGED tables
        \/ \E d \in Documents, q \in Requests, c \in Contents : Files(d, q, c)
        \/ \E q \in DOMAIN requests, decision \in Decision : Decides(h, q, decision)
        \/ \E d \in Documents : Deletes(h, d) \/ Writes(d)
  \/ UNCHANGED <<work, locks>> /\ \E d \in Documents : Writes(d)

-----------------------------------------------------------------------------

\* The review of a request that exists is about a document that exists.
LEMMA ReviewDoc ==
  ASSUME RequestInv, NEW h \in Handlers, work[h].step \in Reviews,
         work[h].request \in DOMAIN requests
  PROVE  /\ requests[work[h].request].doc = work[h].doc /\ work[h].doc \in DOMAIN docs
         /\ requests[work[h].request].after = work[h].after
BY DEF RequestInv, TypeInv, TypeOK, ReviewInv

\* Beginning: nothing is written, and what is remembered was read now.
LEMMA BeginKind ==
  ASSUME RequestInv, NEW h \in Handlers, Begin(h)
  PROVE  (\E tx : Moves(h, tx)) \/ Commits(h)
<1> USE DEF RequestInv, TypeInv, TypeOK
<1>1. ASSUME NEW d \in DOMAIN docs, Freeze(h, d) PROVE Commits(h)
  BY <1>1 DEF Freeze, Commits, Writes, AFreeze
<1>2. ASSUME NEW d \in DOMAIN docs, BeginDelete(h, d) PROVE \E tx : Moves(h, tx)
  <2> DEFINE tx == [step |-> "delete", doc |-> d]
  <2>1. tx \in Transaction /\ tx.step = "delete" /\ tx.doc = d
    BY DEF Transaction
  <2>2. Goto(h, tx) /\ UNCHANGED tables /\ Free(h, {d}) /\ Lock(h, d)
    BY <1>2 DEF BeginDelete, tables
  <2> HIDE DEF tx
  <2>3. Moves(h, tx)
    BY <2>1, <2>2 DEF Moves, Reviews
  <2> QED
    BY <2>3
<1>3. ASSUME NEW d \in DOMAIN docs, NEW c \in Contents, BeginFile(h, d, c) PROVE \E tx : Moves(h, tx)
  <2> DEFINE tx == [step |-> "file", doc |-> d, after |-> c]
  <2>1. tx \in Transaction /\ tx.step = "file"
    BY DEF Transaction
  <2>2. Goto(h, tx) /\ UNCHANGED tables /\ UNCHANGED locks
    BY <1>3 DEF BeginFile, tables
  <2> HIDE DEF tx
  <2>3. Moves(h, tx)
    BY <2>1, <2>2 DEF Moves, Reviews
  <2> QED
    BY <2>3
<1>4. ASSUME NEW d \in DOMAIN docs, NEW c \in Contents, BeginEdit(h, d, c) PROVE \E tx : Moves(h, tx)
  <2> DEFINE tx == [step |-> "edit", doc |-> d, after |-> c, seen |-> docs[d].content]
  <2>1. d \in Receipts /\ docs[d].content \in Contents
    BY <1>4 DEF BeginEdit, Guarded, Row
  <2>2. tx \in Transaction /\ tx.step = "edit"
    BY <2>1 DEF Transaction
  <2>3. Goto(h, tx) /\ UNCHANGED tables /\ UNCHANGED locks
    BY <1>4 DEF BeginEdit, tables
  <2> HIDE DEF tx
  <2>4. Moves(h, tx)
    BY <2>2, <2>3 DEF Moves, Reviews
  <2> QED
    BY <2>4
<1>5. ASSUME NEW d \in DOMAIN docs, NEW c \in Contents, EditLocked(h, d, c) PROVE Commits(h)
  <2>1. docs[d].content \in Contents
    BY DEF Row
  <2>2. AEdit(d, c)
    BY <1>5, <2>1 DEF EditLocked, Editable, KeptLocked, AEdit, AWrite
  <2> QED
    BY <1>5, <2>2 DEF EditLocked, Commits, Writes
<1>6. ASSUME NEW q \in DOMAIN requests, NEW decision \in Decision, BeginReview(h, q, decision)
      PROVE  \E tx : Moves(h, tx)
  <2> DEFINE d == requests[q].doc
             at == IF Guarded(d) \/ decision = "REJECTED" THEN "claim" ELSE "apply"
             tx == [step |-> at, request |-> q, doc |-> d, decision |-> decision,
                    after |-> requests[q].after, seen |-> docs[d].content]
  <2>1. d \in Documents /\ requests[q].after \in Contents /\ docs[d].content \in Contents
    BY DEF Request, Row
  <2>2. at \in {"claim", "apply"} /\ (at = "apply" => d \in Receipts)
    BY DEF Guarded
  <2> HIDE DEF at
  <2>3. tx \in Transaction /\ tx.step = at /\ tx.request = q /\ tx.doc = d /\ tx.after = requests[q].after
    BY <2>1, <2>2 DEF Transaction
  <2>4. Goto(h, tx) /\ UNCHANGED tables /\ UNCHANGED locks
    BY <1>6 DEF BeginReview, tables, at
  <2> HIDE DEF tx, d
  <2>5. Moves(h, tx)
    BY <2>2, <2>3, <2>4 DEF Moves, d
  <2> QED
    BY <2>5
<1> QED
  BY <1>1, <1>2, <1>3, <1>4, <1>5, <1>6 DEF Begin, Decision

\* A transaction that has begun goes on or ends.
LEMMA AdvanceKind ==
  ASSUME RequestInv, NEW h \in Handlers, Advance(h) \/ Abort(h)
  PROVE  (\E tx : Moves(h, tx)) \/ Commits(h)
<1>0. ASSUME RollBack(h) PROVE Commits(h)
  BY <1>0 DEF RollBack, Commits, tables
<1>1. work[h] \in Transaction
  BY DEF RequestInv, TypeInv
<1>2. ASSUME CommitFile(h) PROVE Commits(h)
  <2>1. CASE RollBack(h)
    BY <2>1, <1>0
  <2>2. CASE ~ RollBack(h)
    <3>1. work[h].doc \in DOMAIN docs /\ ~ KeyTaken(work[h].doc) /\ End(h) /\ UNCHANGED <<docs, history>>
      BY <1>2, <2>2 DEF CommitFile
    <3>2. PICK q \in Requests \ DOMAIN requests : requests' = With(requests, q,
            [doc |-> work[h].doc, status |-> "PENDING", pending |-> TRUE, after |-> work[h].after])
      BY <1>2, <2>2 DEF CommitFile
    <3>3. work[h].after \in Contents /\ work[h].doc \in Documents
      BY <1>1, <1>2 DEF CommitFile, Transaction
    <3>4. Files(work[h].doc, q, work[h].after)
      BY <3>1, <3>2, <3>3 DEF Files
    <3> QED
      BY <3>1, <3>3, <3>4 DEF Commits
  <2> QED
    BY <2>1, <2>2
<1>3. ASSUME Claim(h) PROVE (\E tx : Moves(h, tx)) \/ Commits(h)
  <2> DEFINE q == work[h].request
  <2>0. /\ work[h].step = "claim" /\ q \in Requests /\ work[h].doc \in Documents
        /\ work[h].after \in Contents /\ work[h].seen \in Contents /\ work[h].decision \in Decision
        /\ Free(h, {q})
    BY <1>1, <1>3 DEF Claim, Transaction
  <2>1. CASE ~ Claimable(q)
    BY <1>0, <1>3, <2>1 DEF Claim
  <2>2. CASE Claimable(q) /\ work[h].decision = "REJECTED"
    <3>1. Decides(h, q, "REJECTED") /\ End(h)
      BY <1>3, <2>0, <2>2 DEF Claim, Decides
    <3> QED
      BY <2>2, <3>1 DEF Commits, Decision, Claimable
  <2>3. CASE Claimable(q) /\ work[h].decision # "REJECTED"
    <3> DEFINE tx == [work[h] EXCEPT !.step = "claimed"]
    <3>1. work[h] \in [step : {"claim", "claimed"}, request : Requests, doc : Documents,
                       decision : Decision, after : Contents, seen : Contents]
      BY <1>1, <2>0 DEF Transaction
    <3>2. /\ tx \in Transaction /\ tx.step = "claimed" /\ tx.request = q
          /\ tx.doc = work[h].doc /\ tx.after = work[h].after
      BY <3>1 DEF Transaction
    <3>3. Goto(h, tx) /\ UNCHANGED tables /\ Lock(h, q)
      BY <1>3, <2>3 DEF Claim, tables
    <3>4. q \in DOMAIN requests /\ IsPending(q)
      BY <2>3 DEF Claimable
    <3>5. requests[q].doc = work[h].doc /\ requests[q].after = work[h].after
      BY <2>0, <3>4, ReviewDoc DEF Reviews
    <3> HIDE DEF tx
    <3>6. Moves(h, tx)
      BY <2>0, <3>2, <3>3, <3>4, <3>5 DEF Moves
    <3> QED
      BY <3>6
  <2> QED
    BY <2>1, <2>2, <2>3
<1>4. ASSUME ApplyClaimed(h) PROVE Commits(h)
  <2> DEFINE q == work[h].request
             d == work[h].doc
  <2>1. CASE ~ Editable(d)
    BY <1>0, <1>4, <2>1 DEF ApplyClaimed
  <2>2. CASE Editable(d)
    <3>1. q \in DOMAIN requests /\ IsPending(q) /\ locks[q] = h
      BY <1>4 DEF ApplyClaimed, RequestInv, LockInv
    <3>2. requests[q].doc = d /\ requests[q].after = work[h].after /\ d \in DOMAIN docs
      BY <1>4, <3>1, ReviewDoc DEF ApplyClaimed, Reviews
    <3>3. docs[d].content \in Contents
      BY <3>2 DEF RequestInv, TypeInv, TypeOK, Row
    <3>4. AWrite(requests[q].doc, requests[q].after)
      BY <1>4, <2>2, <3>2, <3>3 DEF ApplyClaimed, AWrite, Editable, KeptLocked
    <3>5. requests[q].pending
      BY <3>1, Zenon DEF RequestInv, KeyInv
    <3>6. Decides(h, q, "APPROVED") /\ End(h)
      BY <1>4, <2>2, <3>1, <3>4, <3>5 DEF ApplyClaimed, Decides, Claimable, Free
    <3> QED
      BY <3>1, <3>6 DEF Commits, Decision
  <2> QED
    BY <2>1, <2>2
<1>5. ASSUME Apply(h) PROVE (\E tx : Moves(h, tx)) \/ Commits(h)
  <2>1. CASE work[h].doc \notin DOMAIN docs
    BY <1>0, <1>5, <2>1 DEF Apply
  <2>2. CASE work[h].doc \in DOMAIN docs
    <3> DEFINE tx == [work[h] EXCEPT !.step = "applied"]
    <3>1. work[h] \in [step : {"apply", "applied"}, request : Requests, doc : Receipts,
                       decision : Decision, after : Contents, seen : Contents]
      BY <1>1, <1>5 DEF Apply, Transaction
    <3>2. /\ tx \in Transaction /\ tx.step = "applied" /\ tx.request = work[h].request
          /\ tx.doc = work[h].doc /\ tx.after = work[h].after
      BY <3>1 DEF Transaction
    <3>3. Goto(h, tx) /\ UNCHANGED tables /\ Free(h, {work[h].doc}) /\ Lock(h, work[h].doc)
      BY <1>5, <2>2 DEF Apply, tables
    <3>4. work[h].request \in DOMAIN requests /\ requests[work[h].request].doc = work[h].doc
            /\ requests[work[h].request].after = work[h].after
      BY <1>5, <2>2 DEF Apply, RequestInv, ReviewInv, Reviews
    <3> HIDE DEF tx
    <3>5. Moves(h, tx)
      BY <3>2, <3>3, <3>4 DEF Moves
    <3> QED
      BY <3>5
  <2> QED
    BY <2>1, <2>2
<1>6. ASSUME ClaimApplied(h) PROVE Commits(h)
  <2> DEFINE q == work[h].request
             d == work[h].doc
  <2>1. CASE ~ Claimable(q)
    BY <1>0, <1>6, <2>1 DEF ClaimApplied
  <2>2. CASE Claimable(q)
    <3>1. d \in Receipts /\ work[h].seen \in Contents
      BY <1>1, <1>6 DEF ClaimApplied, Transaction
    <3>2. requests[q].doc = d /\ requests[q].after = work[h].after /\ d \in DOMAIN docs
      BY <1>6, <2>2, ReviewDoc DEF ClaimApplied, Claimable, Reviews
    <3>3. AWrite(requests[q].doc, requests[q].after)
      BY <1>6, <2>2, <3>1, <3>2 DEF ClaimApplied, AWrite, Guarded
    <3>4. Decides(h, q, "APPROVED") /\ End(h)
      BY <1>6, <2>2, <3>3 DEF ClaimApplied, Decides
    <3> QED
      BY <2>2, <3>4 DEF Commits, Decision, Claimable
  <2> QED
    BY <2>1, <2>2
<1>7. ASSUME CommitEdit(h) PROVE Commits(h)
  <2> DEFINE d == work[h].doc
  <2>1. CASE d \notin DOMAIN docs
    BY <1>0, <1>7, <2>1 DEF CommitEdit
  <2>2. CASE d \in DOMAIN docs
    <3>1. d \in Receipts /\ work[h].after \in Contents /\ work[h].seen \in Contents
      BY <1>1, <1>7 DEF CommitEdit, Transaction
    <3>2. AEdit(d, work[h].after) /\ End(h)
      BY <1>7, <2>2, <3>1 DEF CommitEdit, AEdit, AWrite, Guarded
    <3>3. d \in Documents
      BY <2>2 DEF RequestInv, TypeInv, TypeOK
    <3> QED
      BY <3>1, <3>2, <3>3 DEF Commits, Writes
  <2> QED
    BY <2>1, <2>2
<1>8. ASSUME CommitDelete(h) PROVE Commits(h)
  <2>1. work[h].doc \in DOMAIN docs /\ work[h].doc \in Documents
    BY <1>8 DEF CommitDelete, RequestInv, LockInv, TypeInv, TypeOK
  <2>2. Deletes(h, work[h].doc) /\ End(h)
    BY <1>8, <2>1 DEF CommitDelete, Deletes, ADelete, Cascaded
  <2> QED
    BY <2>1, <2>2 DEF Commits
<1> QED
  BY <1>0, <1>2, <1>3, <1>4, <1>5, <1>6, <1>7, <1>8 DEF Advance, Abort, Victim

LEMMA StepKind ==
  ASSUME RequestInv, [Next]_vars
  PROVE  \/ UNCHANGED vars
         \/ \E h \in Handlers : (\E tx : Moves(h, tx)) \/ Commits(h)
BY BeginKind, AdvanceKind DEF Next

-----------------------------------------------------------------------------
(* What the kinds of steps keep: the rows and the key ...                  *)

RowsInv ==
  /\ DOMAIN docs \subseteq Documents /\ \A d \in DOMAIN docs : docs[d] \in Row
  /\ DOMAIN requests \subseteq Requests
  /\ \A q \in DOMAIN requests : requests[q] \in Request /\ requests[q].doc \in DOMAIN docs
  /\ \A d, e \in DOMAIN docs : d = e

\* A write changes one document's content, an unfrozen one's where a lock
\* makes that known.
LEMMA WriteFacts ==
  ASSUME RowsInv, NEW d, NEW c \in Contents, AWrite(d, c)
  PROVE  /\ DOMAIN docs' = DOMAIN docs
         /\ \A e \in DOMAIN docs : docs'[e] \in Row /\ (e # d => docs'[e] = docs[e])
         /\ Guarded(d) => ~ docs[d].frozen
         /\ Guarded(d) => history' = history \cup Kept(d, docs[d].content)
<1>1. docs' = [docs EXCEPT ![d].content = c] /\ d \in DOMAIN docs
  BY DEF AWrite
<1>2. docs[d] \in Row
  BY <1>1 DEF RowsInv
<1>3. docs'[d] = [docs[d] EXCEPT !.content = c] /\ DOMAIN docs' = DOMAIN docs
  BY <1>1
<1>4. docs'[d] \in Row
  BY <1>2, <1>3 DEF Row
<1>5. \A e \in DOMAIN docs : e # d => docs'[e] = docs[e]
  BY <1>1
<1>6. Guarded(d) => history' = history \cup Kept(d, docs[d].content)
  BY DEF AWrite
<1>7. Guarded(d) => ~ docs[d].frozen
  BY DEF AWrite
<1> QED
  BY <1>3, <1>4, <1>5, <1>6, <1>7 DEF RowsInv

\* The money of a document arrives or is taken back: its content stays.
LEMMA FreezeFacts ==
  ASSUME RowsInv, NEW d, AFreeze(d)
  PROVE  /\ DOMAIN docs' = DOMAIN docs
         /\ \A e \in DOMAIN docs : docs'[e] \in Row /\ docs'[e].content = docs[e].content
<1>1. docs' = [docs EXCEPT ![d].frozen = ~ @] /\ d \in DOMAIN docs
  BY DEF AFreeze
<1>2. docs[d] \in Row
  BY <1>1 DEF RowsInv
<1> DEFINE no == ~ docs[d].frozen
<1>3. no \in BOOLEAN
  OBVIOUS
<1>4. docs'[d] = [docs[d] EXCEPT !.frozen = no]
  BY <1>1
<1> HIDE DEF no
<1>5. docs'[d] \in Row /\ docs'[d].content = docs[d].content
  BY <1>2, <1>3, <1>4 DEF Row
<1>6. DOMAIN docs' = DOMAIN docs /\ \A e \in DOMAIN docs : e # d => docs'[e] = docs[e]
  BY <1>1
<1> QED
  BY <1>5, <1>6 DEF RowsInv

LEMMA WrittenRows ==
  ASSUME RowsInv, NEW d, Writes(d)
  PROVE  RowsInv' /\ UNCHANGED requests /\ DOMAIN docs' = DOMAIN docs
<1>1. DOMAIN docs' = DOMAIN docs /\ \A e \in DOMAIN docs : docs'[e] \in Row
  BY WriteFacts, FreezeFacts DEF Writes, AEdit
<1>2. UNCHANGED requests
  BY DEF Writes, AEdit, AFreeze
<1> QED
  BY <1>1, <1>2 DEF RowsInv

LEMMA FiledRow ==
  ASSUME RowsInv, KeyInv, NEW d, NEW q, NEW c, Files(d, q, c)
  PROVE  /\ RowsInv' /\ KeyInv' /\ docs' = docs /\ DOMAIN requests \subseteq DOMAIN requests'
         /\ \A p \in DOMAIN requests : requests'[p] = requests[p]
<1> DEFINE row == [doc |-> d, status |-> "PENDING", pending |-> TRUE, after |-> c]
<1>1. /\ d \in DOMAIN docs /\ c \in Contents /\ q \in Requests /\ q \notin DOMAIN requests
      /\ ~ KeyTaken(d) /\ docs' = docs /\ requests' = With(requests, q, row)
  BY DEF Files
<1>2. row \in Request /\ row.doc = d /\ row.status = "PENDING" /\ row.pending = TRUE
  BY <1>1 DEF Request, RowsInv
<1> HIDE DEF row
<1>3. DOMAIN requests' = DOMAIN requests \cup {q} /\ requests'[q] = row
  BY <1>1 DEF With
<1>4. \A p \in DOMAIN requests : requests'[p] = requests[p]
  BY <1>1 DEF With
<1>5. RowsInv'
  BY <1>1, <1>2, <1>3, <1>4 DEF RowsInv
<1>6. ASSUME NEW p \in DOMAIN requests'
      PROVE  IsPending(p)' = requests'[p].pending
  <2>1. CASE p = q
    <3>1. IsPending(p)' = TRUE
      BY <1>2, <1>3, <2>1 DEF IsPending
    <3>2. requests'[p].pending = TRUE
      BY <1>2, <1>3, <2>1
    <3> QED
      BY <3>1, <3>2, Zenon
  <2>2. CASE p \in DOMAIN requests
    <3>1. requests'[p] = requests[p]
      BY <1>4, <2>2
    <3>2. IsPending(p) = requests[p].pending
      BY <2>2, Zenon DEF KeyInv
    <3> QED
      BY <3>1, <3>2, Zenon DEF IsPending
  <2> QED
    BY <1>3, <2>1, <2>2
<1>7. ASSUME NEW p1 \in DOMAIN requests', NEW p2 \in DOMAIN requests',
             requests'[p1].pending, requests'[p2].pending, requests'[p1].doc = requests'[p2].doc
      PROVE  p1 = p2
  <2>0. \A p \in DOMAIN requests : requests[p].pending => requests[p].doc # d
    BY <1>1 DEF KeyTaken, RequestsFor
  <2>1. CASE p1 \in DOMAIN requests /\ p2 \in DOMAIN requests
    <3>1. requests'[p1] = requests[p1] /\ requests'[p2] = requests[p2]
      BY <1>4, <2>1
    <3>2. requests[p1].pending /\ requests[p2].pending /\ requests[p1].doc = requests[p2].doc
      BY <1>7, <3>1, Zenon
    <3> QED
      BY <2>1, <3>2, Zenon DEF KeyInv
  <2>2. CASE p1 = q /\ p2 \in DOMAIN requests
    BY <1>2, <1>3, <1>4, <1>7, <2>0, <2>2
  <2>3. CASE p2 = q /\ p1 \in DOMAIN requests
    BY <1>2, <1>3, <1>4, <1>7, <2>0, <2>3
  <2> QED
    BY <1>3, <2>1, <2>2, <2>3
<1>8. KeyInv'
  BY <1>6, <1>7, Zenon DEF KeyInv
<1> QED
  BY <1>1, <1>3, <1>4, <1>5, <1>8

LEMMA DecidedRow ==
  ASSUME RowsInv, KeyInv, NEW h, NEW q \in DOMAIN requests, NEW decision \in Decision,
         Decides(h, q, decision)
  PROVE  /\ RowsInv' /\ KeyInv'
         /\ DOMAIN docs' = DOMAIN docs /\ DOMAIN requests' = DOMAIN requests
         /\ \A p \in DOMAIN requests : p # q => requests'[p] = requests[p]
         /\ requests'[q].doc = requests[q].doc /\ requests'[q].after = requests[q].after
<1>1. /\ requests' = [requests EXCEPT ![q].status = decision, ![q].pending = FALSE]
      /\ requests[q] \in Request
  BY DEF Decides, Decided, RowsInv
<1>2. DOMAIN requests' = DOMAIN requests /\ \A p \in DOMAIN requests : p # q => requests'[p] = requests[p]
  BY <1>1
<1>3. requests'[q] = [requests[q] EXCEPT !.status = decision, !.pending = FALSE]
  BY <1>1
<1>4. /\ requests'[q] \in Request /\ requests'[q].status = decision /\ requests'[q].pending = FALSE
      /\ requests'[q].doc = requests[q].doc /\ requests'[q].after = requests[q].after
  BY <1>1, <1>3 DEF Request, Decision
<1>5. DOMAIN docs' = DOMAIN docs /\ \A e \in DOMAIN docs : docs'[e] \in Row
  <2>1. CASE UNCHANGED docs
    BY <2>1 DEF RowsInv
  <2>2. CASE AWrite(requests[q].doc, requests[q].after)
    <3>1. requests[q].after \in Contents
      BY <1>1 DEF Request
    <3> QED
      BY <2>2, <3>1, WriteFacts
  <2> QED
    BY <2>1, <2>2 DEF Decides
<1>6. RowsInv'
  <2>1. ASSUME NEW p \in DOMAIN requests
        PROVE  requests'[p] \in Request /\ requests'[p].doc \in DOMAIN docs
    BY <1>2, <1>4 DEF RowsInv
  <2> QED
    BY <1>2, <1>5, <2>1 DEF RowsInv
<1>7. ASSUME NEW p \in DOMAIN requests'
      PROVE  IsPending(p)' = requests'[p].pending
  <2>1. CASE p = q
    <3>1. IsPending(p)' = FALSE
      BY <1>4, <2>1 DEF IsPending, Decision
    <3>2. requests'[p].pending = FALSE
      BY <1>4, <2>1
    <3> QED
      BY <3>1, <3>2, Zenon
  <2>2. CASE p # q
    <3>1. requests'[p] = requests[p] /\ p \in DOMAIN requests
      BY <1>2, <2>2
    <3>2. IsPending(p) = requests[p].pending
      BY <3>1, Zenon DEF KeyInv
    <3> QED
      BY <3>1, <3>2, Zenon DEF IsPending
  <2> QED
    BY <2>1, <2>2
<1>8. ASSUME NEW p1 \in DOMAIN requests', NEW p2 \in DOMAIN requests',
             requests'[p1].pending, requests'[p2].pending, requests'[p1].doc = requests'[p2].doc
      PROVE  p1 = p2
  <2>1. p1 # q /\ p2 # q
    BY <1>4, <1>8
  <2>2. /\ p1 \in DOMAIN requests /\ requests'[p1] = requests[p1]
        /\ p2 \in DOMAIN requests /\ requests'[p2] = requests[p2]
    BY <1>2, <2>1
  <2>3. requests[p1].pending /\ requests[p2].pending /\ requests[p1].doc = requests[p2].doc
    BY <1>8, <2>2, Zenon
  <2> QED
    BY <2>2, <2>3, Zenon DEF KeyInv
<1>9. KeyInv'
  BY <1>7, <1>8, Zenon DEF KeyInv
<1> QED
  BY <1>2, <1>4, <1>5, <1>6, <1>9

\* There is one document, so that a deletion leaves none.
LEMMA RemovedRows ==
  ASSUME RowsInv, KeyInv, NEW d, ADelete(d)
  PROVE  /\ RowsInv' /\ KeyInv' /\ DOMAIN docs' = {} /\ DOMAIN docs = {d}
         /\ DOMAIN requests' \subseteq DOMAIN requests
<1>1. /\ d \in DOMAIN docs /\ docs' = Without(docs, {d})
      /\ requests' = Without(requests, RequestsFor(d))
  BY DEF ADelete
<1>2. DOMAIN docs = {d}
  BY <1>1 DEF RowsInv
<1>3. DOMAIN docs' = {}
  BY <1>1, <1>2 DEF Without, Restrict
<1>4. DOMAIN requests' = DOMAIN requests \ RequestsFor(d)
  BY <1>1 DEF Without, Restrict
<1>5. DOMAIN requests' = {}
  BY <1>2, <1>4 DEF RequestsFor, RowsInv
<1> QED
  BY <1>2, <1>3, <1>5 DEF RowsInv, KeyInv
-----------------------------------------------------------------------------
(* ... the locks and what the transactions remember.                       *)

Owned ==
  /\ work \in [Handlers -> Transaction]
  /\ \A row \in DOMAIN locks : locks[row] \in Handlers /\ ~ Idle(locks[row])

LEMMA InvParts ==
  RequestInv => RowsInv /\ KeyInv /\ Owned
BY DEF RequestInv, TypeInv, TypeOK, RowsInv, Owned, ReviewInv

\* A lock is given away by nobody but its owner.
LEMMA MoveLocks ==
  ASSUME Owned, NEW h \in Handlers, NEW tx, Moves(h, tx)
  PROVE  /\ Owned' /\ work'[h] = tx
         /\ \A g \in Handlers \ {h} :
              /\ work'[g] = work[g]
              /\ \A row \in DOMAIN locks : locks[row] = g => row \in DOMAIN locks' /\ locks'[row] = g
<1>1. work' = [work EXCEPT ![h] = tx] /\ tx \in Transaction /\ tx.step # "idle"
  BY DEF Moves, Goto
<1>2. work' \in [Handlers -> Transaction] /\ work'[h] = tx /\ \A g \in Handlers \ {h} : work'[g] = work[g]
  BY <1>1 DEF Owned
<1>3. \A row \in DOMAIN locks' :
        (row \in DOMAIN locks /\ locks'[row] = locks[row]) \/ locks'[row] = h
  BY DEF Moves, Lock, With
<1>4. \A row \in DOMAIN locks : row \in DOMAIN locks' /\ (locks[row] # h => locks'[row] = locks[row])
  BY DEF Moves, Lock, Free, With
<1>5. \A g \in Handlers : ~ Idle(g) => ~ Idle(g)'
  BY <1>1, <1>2 DEF Idle
<1>6. ~ Idle(h)'
  BY <1>1, <1>2 DEF Idle
<1> QED
  BY <1>2, <1>3, <1>4, <1>5, <1>6 DEF Owned

LEMMA EndLocks ==
  ASSUME Owned, NEW h \in Handlers, End(h)
  PROVE  /\ Owned' /\ work'[h].step = "idle"
         /\ \A g \in Handlers \ {h} :
              /\ work'[g] = work[g]
              /\ \A row \in DOMAIN locks : locks[row] = g => row \in DOMAIN locks' /\ locks'[row] = g
<1> DEFINE held == {row \in DOMAIN locks : locks[row] # h}
<1>1. work' = [work EXCEPT ![h] = [step |-> "idle"]] /\ locks' = [row \in held |-> locks[row]]
  BY DEF End, Goto, Restrict
<1>2. [step |-> "idle"] \in Transaction
  BY DEF Transaction
<1>3. /\ work' \in [Handlers -> Transaction] /\ work'[h].step = "idle"
      /\ \A g \in Handlers \ {h} : work'[g] = work[g]
  BY <1>1, <1>2 DEF Owned
<1>4. DOMAIN locks' = held /\ \A row \in held : locks'[row] = locks[row]
  BY <1>1
<1>5. \A g \in Handlers \ {h} : ~ Idle(g) => ~ Idle(g)'
  BY <1>3 DEF Idle
<1> QED
  BY <1>3, <1>4, <1>5 DEF Owned

-----------------------------------------------------------------------------
(* The invariant.                                                          *)

LEMMA RequestInit ==
  ASSUME RequestsAssumption, Init
  PROVE  RequestInv
<1>1. PICK d \in Documents : docs \in [{d} -> [content : Contents, frozen : {FALSE}]]
  BY DEF Init, AInit
<1>2. docs \in [{d} -> Row]
  BY <1>1 DEF Row
<1>3. DOMAIN requests = {} /\ DOMAIN locks = {}
  BY DEF Init, AInit
<1>4. work \in [Handlers -> Transaction] /\ \A h \in Handlers : work[h].step = "idle"
  BY DEF Init, Transaction
<1> QED
  BY <1>2, <1>3, <1>4 DEF RequestInv, TypeInv, TypeOK, KeyInv, LockInv, ReviewInv, Reviews

LEMMA MoveKeeps ==
  ASSUME RequestInv, NEW h \in Handlers, NEW tx, Moves(h, tx)
  PROVE  RequestInv'
<1>1. RowsInv /\ KeyInv /\ Owned
  BY InvParts
<1>2. docs' = docs /\ requests' = requests
  BY DEF Moves, tables
<1>3. RowsInv' /\ KeyInv'
  <2>1. RowsInv'
    BY <1>1, <1>2 DEF RowsInv
  <2>2. KeyInv'
    BY <1>1, <1>2, Zenon DEF KeyInv, IsPending
  <2> QED
    BY <2>1, <2>2
<1>4. /\ Owned' /\ work'[h] = tx
      /\ \A g \in Handlers \ {h} :
           /\ work'[g] = work[g]
           /\ \A row \in DOMAIN locks : locks[row] = g => row \in DOMAIN locks' /\ locks'[row] = g
  BY <1>1, MoveLocks
<1>5. LockInv'
  <2>1. ASSUME NEW g \in Handlers, work'[g].step = "delete"
        PROVE  work'[g].doc \in DOMAIN docs' \cap DOMAIN locks' /\ locks'[work'[g].doc] = g
    <3>1. CASE g = h
      BY <1>2, <1>4, <2>1, <3>1 DEF Moves, Lock, With
    <3>2. CASE g # h
      BY <1>2, <1>4, <2>1, <3>2 DEF RequestInv, LockInv
    <3> QED
      BY <3>1, <3>2
  <2>2. ASSUME NEW g \in Handlers, work'[g].step = "claimed"
        PROVE  /\ work'[g].request \in DOMAIN requests' \cap DOMAIN locks'
               /\ locks'[work'[g].request] = g /\ requests'[work'[g].request].status = "PENDING"
    <3>1. CASE g = h
      BY <1>2, <1>4, <2>2, <3>1 DEF Moves, Lock, With, IsPending
    <3>2. CASE g # h
      BY <1>2, <1>4, <2>2, <3>2 DEF RequestInv, LockInv, IsPending
    <3> QED
      BY <3>1, <3>2
  <2> QED
    BY <2>1, <2>2 DEF LockInv, IsPending
<1>6. ASSUME NEW g \in Handlers, work'[g].step \in Reviews, DOMAIN docs' # {}
      PROVE  LET q == work'[g].request
             IN q \in DOMAIN requests' /\ requests'[q].doc = work'[g].doc
                  /\ requests'[q].after = work'[g].after
  <2>1. CASE g = h
    BY <1>2, <1>4, <1>6, <2>1 DEF Moves
  <2>2. CASE g # h
    BY <1>2, <1>4, <1>6, <2>2 DEF RequestInv, ReviewInv
  <2> QED
    BY <2>1, <2>2
<1> QED
  BY <1>3, <1>4, <1>5, <1>6 DEF RequestInv, TypeInv, TypeOK, RowsInv, Owned, ReviewInv

\* What a commit leaves to the other transactions: the document of a
\* deletion, the request that a review has claimed, and all that a review
\* remembers while its document is there.
Leaves(h) ==
  /\ RowsInv' /\ KeyInv' /\ DOMAIN docs' \subseteq DOMAIN docs
  /\ \A g \in Handlers \ {h} :
       /\ work[g].step = "delete" => work[g].doc \in DOMAIN docs'
       /\ work[g].step = "claimed" =>
            /\ work[g].request \in DOMAIN requests'
            /\ requests'[work[g].request].status = "PENDING"
  /\ DOMAIN docs' # {} => \A q \in DOMAIN requests :
       /\ q \in DOMAIN requests'
       /\ requests'[q].doc = requests[q].doc /\ requests'[q].after = requests[q].after

LEMMA CommitLeaves ==
  ASSUME RequestInv, NEW h \in Handlers, Commits(h)
  PROVE  Leaves(h)
<1>1. RowsInv /\ KeyInv /\ Owned
  BY InvParts
<1>0. \A g \in Handlers :
        /\ work[g].step = "delete" => work[g].doc \in DOMAIN docs \cap DOMAIN locks /\ locks[work[g].doc] = g
        /\ work[g].step = "claimed" =>
             /\ work[g].request \in DOMAIN requests \cap DOMAIN locks
             /\ locks[work[g].request] = g /\ requests[work[g].request].status = "PENDING"
  BY DEF RequestInv, LockInv, IsPending
<1>2. CASE UNCHANGED <<docs, requests>>
  <2>1. RowsInv'
    BY <1>1, <1>2 DEF RowsInv
  <2>2. KeyInv'
    BY <1>1, <1>2, Zenon DEF KeyInv, IsPending
  <2> QED
    BY <1>0, <1>2, <2>1, <2>2 DEF Leaves
<1>3. ASSUME NEW d, NEW q, NEW c, Files(d, q, c) PROVE Leaves(h)
  <2>1. /\ RowsInv' /\ KeyInv' /\ docs' = docs /\ DOMAIN requests \subseteq DOMAIN requests'
        /\ \A p \in DOMAIN requests : requests'[p] = requests[p]
    BY <1>1, <1>3, FiledRow
  <2> QED
    BY <1>0, <2>1 DEF Leaves
<1>4. ASSUME NEW q \in DOMAIN requests, NEW decision \in Decision, Decides(h, q, decision)
      PROVE  Leaves(h)
  <2>1. /\ RowsInv' /\ KeyInv'
        /\ DOMAIN docs' = DOMAIN docs /\ DOMAIN requests' = DOMAIN requests
        /\ \A p \in DOMAIN requests : p # q => requests'[p] = requests[p]
        /\ requests'[q].doc = requests[q].doc /\ requests'[q].after = requests[q].after
    BY <1>1, <1>4, DecidedRow
  <2>2. Free(h, {q})
    BY <1>4 DEF Decides
  <2>3. \A g \in Handlers \ {h} : work[g].step = "claimed" => work[g].request # q
    BY <1>0, <2>2 DEF Free
  <2> QED
    BY <1>0, <2>1, <2>3 DEF Leaves
<1>5. ASSUME NEW d \in Documents, Deletes(h, d) PROVE Leaves(h)
  <2>1. /\ RowsInv' /\ KeyInv' /\ DOMAIN docs' = {} /\ DOMAIN docs = {d}
    BY <1>1, <1>5, RemovedRows DEF Deletes
  <2>2. \A g \in Handlers \ {h} : work[g].step # "delete"
    BY <1>0, <1>5, <2>1 DEF Deletes
  <2>3. \A g \in Handlers \ {h} : work[g].step # "claimed"
    <3>1. \A q \in DOMAIN requests : q \in RequestsFor(d)
      BY <1>1, <2>1 DEF RowsInv, RequestsFor
    <3>2. Free(h, RequestsFor(d))
      BY <1>5 DEF Deletes
    <3> QED
      BY <1>0, <3>1, <3>2 DEF Free
  <2> QED
    BY <2>1, <2>2, <2>3 DEF Leaves
<1>6. ASSUME NEW d \in Documents, Writes(d) PROVE Leaves(h)
  <2>1. RowsInv' /\ UNCHANGED requests /\ DOMAIN docs' = DOMAIN docs
    BY <1>1, <1>6, WrittenRows
  <2>2. KeyInv'
    BY <1>1, <2>1, Zenon DEF KeyInv, IsPending
  <2> QED
    BY <1>0, <2>1, <2>2 DEF Leaves
<1> QED
  BY <1>2, <1>3, <1>4, <1>5, <1>6 DEF Commits, tables

LEMMA CommitKeeps ==
  ASSUME RequestInv, NEW h \in Handlers, Commits(h)
  PROVE  RequestInv'
<1>1. Leaves(h) /\ Owned
  BY CommitLeaves, InvParts
<1>2. /\ Owned'
      /\ \/ work'[h].step = "idle"
         \/ work'[h] = work[h] /\ locks' = locks /\ UNCHANGED requests /\ DOMAIN docs' = DOMAIN docs
      /\ \A g \in Handlers \ {h} :
           /\ work'[g] = work[g]
           /\ \A row \in DOMAIN locks : locks[row] = g => row \in DOMAIN locks' /\ locks'[row] = g
  <2>1. CASE End(h)
    BY <1>1, <2>1, EndLocks
  <2>2. CASE UNCHANGED <<work, locks>> /\ \E d \in Documents : Writes(d)
    <3>1. UNCHANGED requests /\ DOMAIN docs' = DOMAIN docs
      BY <2>2, WrittenRows, InvParts
    <3>2. Owned'
      BY <1>1, <2>2 DEF Owned, Idle
    <3> QED
      BY <2>2, <3>1, <3>2
  <2> QED
    BY <2>1, <2>2 DEF Commits
<1>3. LockInv'
  <2>1. ASSUME NEW g \in Handlers, work'[g].step = "delete"
        PROVE  work'[g].doc \in DOMAIN docs' \cap DOMAIN locks' /\ locks'[work'[g].doc] = g
    BY <1>1, <1>2, <2>1 DEF RequestInv, LockInv, Leaves
  <2>2. ASSUME NEW g \in Handlers, work'[g].step = "claimed"
        PROVE  /\ work'[g].request \in DOMAIN requests' \cap DOMAIN locks'
               /\ locks'[work'[g].request] = g /\ requests'[work'[g].request].status = "PENDING"
    BY <1>1, <1>2, <2>2 DEF RequestInv, LockInv, Leaves, IsPending
  <2> QED
    BY <2>1, <2>2 DEF LockInv, IsPending
<1>4. ASSUME NEW g \in Handlers, work'[g].step \in Reviews, DOMAIN docs' # {}
      PROVE  LET q == work'[g].request
             IN q \in DOMAIN requests' /\ requests'[q].doc = work'[g].doc
                  /\ requests'[q].after = work'[g].after
  <2>1. work'[g] = work[g]
    BY <1>2, <1>4 DEF Reviews
  <2>2. DOMAIN docs # {}
    BY <1>1, <1>4 DEF Leaves
  <2> QED
    BY <1>1, <1>4, <2>1, <2>2 DEF RequestInv, ReviewInv, Leaves
<1> QED
  BY <1>1, <1>2, <1>3, <1>4 DEF Leaves, RequestInv, TypeInv, TypeOK, RowsInv, Owned, ReviewInv

LEMMA RequestStep ==
  ASSUME RequestInv, [Next]_vars
  PROVE  RequestInv'
<1>1. CASE UNCHANGED vars
  BY <1>1 DEF vars, RequestInv, TypeInv, TypeOK, KeyInv, LockInv, ReviewInv, IsPending, Idle
<1> QED
  BY <1>1, StepKind, MoveKeeps, CommitKeeps

LEMMA RequestInvAlways == Spec => []RequestInv
<1>1. Init => RequestInv
  BY RequestInit, RequestsAssumption
<1>2. RequestInv /\ [Next]_vars => RequestInv'
  BY RequestStep
<1> QED
  BY <1>1, <1>2, PTL DEF Spec

-----------------------------------------------------------------------------
(* The theorems.                                                           *)

\* What the unique key promises (create*EditRequest in lib/*-edit-request-
\* service.ts): two pending requests for a document are the same one.
LEMMA KeyIsOnePending ==
  ASSUME RequestInv
  PROVE  OnePending
<1> SUFFICES ASSUME NEW d \in DOMAIN docs
             PROVE  /\ Cardinality({q \in RequestsFor(d) : IsPending(q)}) <= 1
                    /\ \A q \in RequestsFor(d) : IsPending(q) = requests[q].pending
  BY Zenon DEF OnePending
<1> DEFINE P == {q \in RequestsFor(d) : IsPending(q)}
<1>1. RequestsFor(d) \subseteq DOMAIN requests /\ \A q \in RequestsFor(d) : requests[q].doc = d
  BY DEF RequestsFor
<1>2. \A q \in RequestsFor(d) : IsPending(q) = requests[q].pending
  BY <1>1, Zenon DEF RequestInv, KeyInv
<1>3. \A p, q \in P : p = q
  <2> SUFFICES ASSUME NEW p \in P, NEW q \in P
               PROVE  p = q
    OBVIOUS
  <2>1. p \in DOMAIN requests /\ q \in DOMAIN requests /\ requests[p].doc = requests[q].doc
    BY <1>1
  <2>2. requests[p].pending /\ requests[q].pending
    BY <1>2, Zenon
  <2> QED
    BY <2>1, <2>2, Zenon DEF RequestInv, KeyInv
<1>4. Cardinality(P) <= 1
  <2>1. CASE P = {}
    BY <2>1, FS_EmptySet
  <2>2. CASE P # {}
    <3>1. PICK p \in P : TRUE
      BY <2>2
    <3>2. P = {p}
      BY <1>3, <3>1
    <3> QED
      BY <3>2, FS_Singleton
  <2> QED
    BY <2>1, <2>2
<1> QED
  BY <1>2, <1>4, Zenon

\* Nobody gets a second pending request for a document: not two
\* salespeople who file at the same time, and not one who files while an
\* administrator decides the first.
THEOREM OnePendingAlways == Spec => []OnePending
BY RequestInvAlways, KeyIsOnePending, PTL

\* Every kind of step is a step of the abstract specification.
LEMMA CommitShows ==
  ASSUME RequestInv, NEW h \in Handlers, Commits(h)
  PROVE  [ANext]_<<docs, requests, history>>
<1>1. RowsInv /\ KeyInv
  BY InvParts
<1>2. ASSUME NEW d \in Documents, NEW q \in Requests, NEW c \in Contents, Files(d, q, c)
      PROVE  ANext
  <2>1. ASSUME NEW p \in RequestsFor(d), IsPending(p) PROVE FALSE
    <3>1. p \in DOMAIN requests
      BY DEF RequestsFor
    <3>2. requests[p].pending
      BY <2>1, <3>1, <1>1, Zenon DEF KeyInv
    <3> QED
      BY <1>2, <3>2, Zenon DEF Files, KeyTaken
  <2>2. AFile(d, q, c)
    BY <1>2, <2>1 DEF Files, AFile
  <2> QED
    BY <2>2 DEF ANext
<1>3. ASSUME NEW q \in DOMAIN requests, NEW decision \in Decision, Decides(h, q, decision)
      PROVE  ANext
  <2>1. ADecide(q, decision)
    BY <1>3 DEF Decides, Decided, Claimable, ADecide
  <2>2. AReject(q) \/ AApprove(q)
    BY <1>3, <2>1 DEF Decides, AReject, AApprove
  <2> QED
    BY <2>2 DEF ANext
<1>4. ASSUME NEW d \in Documents, Deletes(h, d) \/ Writes(d) PROVE ANext
  BY <1>4 DEF Deletes, Writes, ANext
<1> QED
  BY <1>2, <1>3, <1>4 DEF Commits, tables

LEMMA StepShows ==
  ASSUME RequestInv, [Next]_vars
  PROVE  [ANext]_<<docs, requests, history>>
<1>1. CASE UNCHANGED vars
  BY <1>1 DEF vars
<1>2. ASSUME NEW h \in Handlers, NEW tx, Moves(h, tx) PROVE UNCHANGED <<docs, requests, history>>
  BY <1>2 DEF Moves, tables
<1> QED
  BY <1>1, <1>2, StepKind, CommitShows

\* The transactions of receipt-edit-request-service.ts,
\* detail-edit-request-service.ts and swift-edit-request-service.ts show
\* whole decisions only: whoever loses a race, is refused under a lock or
\* rolled back leaves the tables as they were.
THEOREM ImplementsApprovalAlways == Spec => ImplementsApproval
<1>1. Init => AInit
  BY DEF Init
<1>2. RequestInv /\ [Next]_vars => [ANext]_<<docs, requests, history>>
  BY StepShows
<1> QED
  BY <1>1, <1>2, RequestInvAlways, PTL DEF Spec, ImplementsApproval, ASpec

\* What a step of the abstract specification does to a document that is
\* still there.
LEMMA ShownContent ==
  ASSUME RowsInv, [ANext]_<<docs, requests, history>>,
         NEW d \in DOMAIN docs \cap DOMAIN docs', docs'[d].content # docs[d].content
  PROVE  Guarded(d) => ~ docs[d].frozen /\ Kept(d, docs[d].content) \subseteq history'
<1>1. ASSUME NEW e, NEW c \in Contents, AWrite(e, c)
      PROVE  Guarded(d) => ~ docs[d].frozen /\ Kept(d, docs[d].content) \subseteq history'
  <2>1. e = d
    BY <1>1, WriteFacts
  <2> QED
    BY <1>1, <2>1, WriteFacts
<1>2. ASSUME NEW q \in DOMAIN requests, AApprove(q)
      PROVE  Guarded(d) => ~ docs[d].frozen /\ Kept(d, docs[d].content) \subseteq history'
  <2>1. requests[q].after \in Contents
    BY DEF RowsInv, Request
  <2> QED
    BY <1>1, <1>2, <2>1 DEF AApprove
<1>3. ASSUME NEW e, NEW c \in Contents, AEdit(e, c)
      PROVE  Guarded(d) => ~ docs[d].frozen /\ Kept(d, docs[d].content) \subseteq history'
  BY <1>1, <1>3 DEF AEdit
<1>4. ASSUME NEW e, AFreeze(e) PROVE FALSE
  BY <1>4, FreezeFacts
<1>5. ASSUME NEW e, ADelete(e) PROVE FALSE
  BY <1>5, RemovedRows DEF ADelete, Without, Restrict
<1>6. docs' # docs
  OBVIOUS
<1> QED
  BY <1>2, <1>3, <1>4, <1>5, <1>6 DEF ANext, AFile, AReject

\* applyDetailUpdate and applySwiftUpdate refuse a detail or SWIFT whose money
\* was received, under the lock: no review, however early it began, changes it.
THEOREM FrozenIsNotEditedAlways == Spec => FrozenIsNotEdited
<1>1. ASSUME RequestInv, [Next]_vars
      PROVE  [ \A d \in DOMAIN docs \cap DOMAIN docs' :
                 Guarded(d) /\ docs[d].frozen => docs'[d].content = docs[d].content ]_vars
  BY <1>1, StepShows, ShownContent, InvParts
<1> QED
  BY <1>1, RequestInvAlways, PTL DEF Spec, FrozenIsNotEdited

\* PaymentDetailEditHistory has, of every change of a detail, the content
\* that was overwritten.
THEOREM OverwrittenIsKeptAlways == Spec => OverwrittenIsKept
<1>1. ASSUME RequestInv, [Next]_vars
      PROVE  [ \A d \in (DOMAIN docs \cap DOMAIN docs') \ (Receipts \cup Swifts) :
                 docs'[d].content # docs[d].content =>
                   [doc |-> d, content |-> docs[d].content] \in history' ]_vars
  <2>1. ASSUME NEW d \in (DOMAIN docs \cap DOMAIN docs') \ (Receipts \cup Swifts),
               docs'[d].content # docs[d].content
        PROVE  [doc |-> d, content |-> docs[d].content] \in history'
    <3>1. Guarded(d) /\ Kept(d, docs[d].content) = {[doc |-> d, content |-> docs[d].content]}
      BY DEF Guarded, Kept
    <3>2. Kept(d, docs[d].content) \subseteq history'
      BY <1>1, <2>1, <3>1, StepShows, ShownContent, InvParts
    <3> QED
      BY <3>1, <3>2
  <2> QED
    BY <2>1
<1> QED
  BY <1>1, RequestInvAlways, PTL DEF Spec, OverwrittenIsKept
=============================================================================
