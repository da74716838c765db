---------------------------- MODULE WhatsAppProofs ----------------------------
(***************************************************************************)
(* Theorems about WhatsAppDelivery, for any number of dispatches in        *)
(* flight, deliveries, versions of the receipt and reported statuses.      *)
(***************************************************************************)
EXTENDS WhatsAppProperties, SequenceTheorems, NaturalsInduction, WellFoundedInduction, TLAPS

-----------------------------------------------------------------------------
(***************************************************************************)
(* What a delivery, a message and a dispatch hold.                         *)
(***************************************************************************)
Row ==
  [retryOf : Nat, correctionOf : SUBSET Nat, key : SUBSET (Nat \X Texts \X Nat),
   text : Texts \cup {NoText}, corrects : SUBSET Nat, approval : BOOLEAN,
   approved : Texts \cup {NoText}, due : BOOLEAN, status : Statuses, claimed : BOOLEAN,
   known : Nat, code : {"None", "REPORTED", "PROVIDER_REJECTED"}]

Message ==
  [row : Nat, text : Texts \cup {NoText}, status : {"ACCEPTED"} \cup Reports,
   past : SUBSET Reports, coded : BOOLEAN]

Session ==
  {Idle}
  \cup [step : {"Previewed"}, row : Nat]
  \cup [step : {"Claimed", "Checked"}, row : Nat, text : Texts \cup {NoText}]
  \cup [step : {"Answered"}, row : Nat, answer : {"Accepted", "Rejected", "Uncertain"},
        message : Nat]

\* What every row keeps, and what only a new row is excused from: it may have
\* no text until the transaction that creates it has refreshed it.
Formed(d) ==
  /\ d \in Row
  /\ d.corrects \subseteq d.correctionOf
  /\ d.key = {} \/ d.correctionOf # {}

Sound(d) ==
  /\ Formed(d)
  /\ d.approval /\ d.status \in {"QUEUED", "SENDING"} => d.approved = d.text

Told(d)  == d.text = NoText => d.status \in {"CANCELLED", "PAUSED"}
Fresh(d) == Told(d) \/ (d.correctionOf # {} /\ d.status = "PENDING")

\* What no refresh touches.
Kept(d, e) ==
  /\ e.retryOf = d.retryOf /\ e.approval = d.approval /\ e.claimed = d.claimed
  /\ e.known = d.known /\ e.code = d.code
  /\ (e.correctionOf = {}) = (d.correctionOf = {})

\* Row e is row d, or what was made of it while it could still be edited.
Rewrites(d, e) ==
  \/ e = d
  \/ d.status \in Editable /\ e.status \in Editable \cup {"CANCELLED"} /\ Kept(d, e)

\* The table of the rows: a retry comes after what it retries, and what a row
\* corrects is no correction.
Placed(rs, r) ==
  /\ rs[r].retryOf < r
  /\ \A o \in rs[r].correctionOf : o \in DOMAIN rs /\ rs[o].correctionOf = {}

Table(rs) ==
  /\ rs \in Seq(Row) /\ Len(rs) <= MaxRows
  /\ \A r \in DOMAIN rs : Sound(rs[r]) /\ Told(rs[r]) /\ Placed(rs, r)

-----------------------------------------------------------------------------
LEMMA LiveType ==
  ASSUME version \in 0..MaxVersion
  PROVE  Live \in Texts /\ version \in Texts /\ NoText \notin Texts /\ Live # NoText
BY BoundsAssumption DEF Live, Texts, Gone, NoText

LEMMA CancelledRowIs ==
  ASSUME NEW d, Sound(d)
  PROVE  /\ Sound(CancelledRow(d)) /\ Told(CancelledRow(d)) /\ Kept(d, CancelledRow(d))
         /\ CancelledRow(d).status = "CANCELLED"
         /\ CancelledRow(d).correctionOf = d.correctionOf
         /\ CancelledRow(d).text = d.text /\ CancelledRow(d).approved = d.approved
<1> DEFINE e == CancelledRow(d)
<1>1. /\ e \in Row /\ e.status = "CANCELLED" /\ e.correctionOf = d.correctionOf
      /\ e.corrects = d.corrects /\ e.key = d.key
      /\ e.text = d.text /\ e.approved = d.approved
  BY DEF Sound, Formed, Row, CancelledRow, Statuses, Editable, Submitted
<1>2. Kept(d, e)
  BY DEF Sound, Formed, Row, CancelledRow, Kept
<1> QED
  BY <1>1, <1>2 DEF Sound, Formed, Told

LEMMA PausedRowIs ==
  ASSUME NEW d, Formed(d)
  PROVE  /\ Sound(PausedRow(d)) /\ Told(PausedRow(d)) /\ Kept(d, PausedRow(d))
         /\ PausedRow(d).status = "PAUSED"
         /\ PausedRow(d).correctionOf = d.correctionOf
<1> DEFINE e == PausedRow(d)
<1>1. /\ e \in Row /\ e.status = "PAUSED" /\ e.correctionOf = d.correctionOf
      /\ e.corrects = d.corrects /\ e.key = d.key
  BY DEF Sound, Formed, Row, PausedRow, Statuses, Editable, Submitted
<1>2. Kept(d, e)
  BY DEF Sound, Formed, Row, PausedRow, Kept
<1> QED
  BY <1>1, <1>2 DEF Sound, Formed, Told

LEMMA RenewedIs ==
  ASSUME NEW d, d \in Row, d.key = {} \/ d.correctionOf # {},
         NEW text \in Texts, NEW corrects, corrects \subseteq d.correctionOf
  PROVE  /\ Sound(Renewed(d, text, corrects)) /\ Told(Renewed(d, text, corrects))
         /\ Kept(d, Renewed(d, text, corrects))
         /\ Renewed(d, text, corrects).status \in {"PENDING", "QUEUED"}
         /\ Renewed(d, text, corrects).correctionOf = d.correctionOf
         /\ Renewed(d, text, corrects).text = text
<1> DEFINE e == Renewed(d, text, corrects)
<1>0. text # NoText
  BY BoundsAssumption DEF Texts, Gone, NoText
<1>1. /\ e \in Row /\ e.correctionOf = d.correctionOf
      /\ e.corrects = corrects /\ e.key = d.key /\ e.text = text
      /\ e.status \in {"PENDING", "QUEUED"}
      /\ e.status = IF d.approval THEN "PENDING" ELSE "QUEUED"
  BY DEF Sound, Formed, Row, Renewed, Statuses, Editable, Submitted
<1>2. Kept(d, e)
  BY DEF Sound, Formed, Row, Renewed, Kept
<1>3. e.approval = d.approval
  BY <1>2 DEF Kept
<1>4. e.approval /\ e.status \in {"QUEUED", "SENDING"} => e.approved = e.text
  BY <1>1, <1>3
<1> QED
  BY <1>0, <1>1, <1>2, <1>4 DEF Sound, Formed, Told

\* A refresh keeps a row sound, gives it a text, and leaves it queued only when
\* it says what the business says.
LEMMA CorrectionIsRefreshed ==
  ASSUME version \in 0..MaxVersion, NEW rs, NEW r, Sound(rs[r]), Fresh(rs[r]),
         rs[r].status \in Editable, rs[r].correctionOf # {}
  PROVE  /\ Sound(RefreshedCorrection(rs, r)) /\ Told(RefreshedCorrection(rs, r))
         /\ Rewrites(rs[r], RefreshedCorrection(rs, r))
         /\ RefreshedCorrection(rs, r).correctionOf = rs[r].correctionOf
         /\ RefreshedCorrection(rs, r).status = "QUEUED" =>
              RefreshedCorrection(rs, r).text = Live /\ source # "Deleting"
         /\ consent = "Out" => RefreshedCorrection(rs, r).status = "CANCELLED"
<1> DEFINE d       == rs[r]
           changes == {o \in d.correctionOf : IsChanged(rs, o)}
           e       == RefreshedCorrection(rs, r)
<1>1. Live \in Texts /\ Live # NoText
  BY LiveType
<1>2. CASE e = CancelledRow(d)
  BY <1>2, CancelledRowIs DEF Rewrites
<1>3. CASE e = PausedRow(d) /\ consent # "Out"
  BY <1>3, PausedRowIs DEF Sound, Rewrites, Editable
<1>4. CASE e = d /\ d.text = Live /\ source # "Deleting" /\ consent # "Out"
  BY <1>1, <1>4 DEF Rewrites, Told
<1>5. CASE e = Renewed(d, Live, changes) /\ source # "Deleting" /\ consent # "Out"
  <2>1. changes \subseteq d.correctionOf
    OBVIOUS
  <2> HIDE DEF changes
  <2> QED
    BY <1>1, <1>5, <2>1, RenewedIs DEF Sound, Formed, Rewrites, Editable
<1> QED
  BY <1>2, <1>3, <1>4, <1>5 DEF RefreshedCorrection

LEMMA RowIsRefreshed ==
  ASSUME version \in 0..MaxVersion, NEW rs, NEW r, Sound(rs[r]), Fresh(rs[r])
  PROVE  /\ Sound(Refreshed(rs, r)) /\ Told(Refreshed(rs, r))
         /\ Rewrites(rs[r], Refreshed(rs, r))
         /\ Refreshed(rs, r).correctionOf = rs[r].correctionOf
         /\ Refreshed(rs, r).status = "QUEUED" =>
              /\ Refreshed(rs, r).text = Live /\ source # "Deleting" /\ AncestorsFailed(rs, r)
         /\ rs[r].status \in Editable /\ consent = "Out" =>
              Refreshed(rs, r).status = "CANCELLED"
<1> DEFINE d == rs[r]
           e == Refreshed(rs, r)
<1>1. /\ Live \in Texts /\ version \in Texts /\ Live # NoText /\ version # NoText
      /\ source # "Removed" => Live = version
  BY LiveType DEF Live
<1>2. CASE d.status \notin Editable
  <2>1. e = d
    BY <1>2 DEF Refreshed
  <2>2. Told(d)
    BY <1>2 DEF Fresh, Editable
  <2> QED
    BY <1>2, <2>1, <2>2 DEF Rewrites, Editable
<1>3. CASE d.status \in Editable /\ e = CancelledRow(d)
  BY <1>3, CancelledRowIs DEF Rewrites
<1>4. CASE /\ d.status \in Editable /\ AncestorsFailed(rs, r) /\ d.correctionOf # {}
           /\ e = RefreshedCorrection(rs, r)
  BY <1>4, CorrectionIsRefreshed
<1>5. CASE /\ d.status \in Editable /\ consent # "Out" /\ d.correctionOf = {}
           /\ e = PausedRow([d EXCEPT !.text = version])
  <2> DEFINE f == [d EXCEPT !.text = version]
  <2>1. f \in Row /\ f.correctionOf = d.correctionOf /\ f.corrects = d.corrects /\ f.key = d.key
    BY <1>1 DEF Sound, Formed, Row
  <2>2. Kept(d, f)
    BY DEF Sound, Formed, Row, Kept
  <2>3. Formed(f)
    BY <2>1 DEF Sound, Formed
  <2> HIDE DEF f
  <2>4. /\ Sound(PausedRow(f)) /\ Told(PausedRow(f)) /\ Kept(f, PausedRow(f))
        /\ PausedRow(f).status = "PAUSED" /\ PausedRow(f).correctionOf = f.correctionOf
    BY <2>3, PausedRowIs
  <2>5. Kept(d, PausedRow(f))
    BY <2>2, <2>4 DEF Kept
  <2> QED
    BY <1>5, <2>1, <2>4, <2>5 DEF Rewrites, Editable, f
<1>6. CASE /\ d.status \in Editable /\ AncestorsFailed(rs, r) /\ source \notin {"Removed", "Deleting"}
           /\ d.text = version /\ e = d /\ consent = "Before"
  BY <1>1, <1>6 DEF Rewrites, Told
<1>7. CASE /\ d.status \in Editable /\ AncestorsFailed(rs, r) /\ source \notin {"Removed", "Deleting"}
           /\ e = Renewed(d, version, {}) /\ consent = "Before"
  BY <1>1, <1>7, RenewedIs DEF Sound, Formed, Rewrites, Editable
<1> QED
  BY <1>2, <1>3, <1>4, <1>5, <1>6, <1>7 DEF Refreshed

-----------------------------------------------------------------------------
(***************************************************************************)
(* The table of the rows after one, or all, of them are written.           *)
(***************************************************************************)
LEMMA TableIs ==
  ASSUME NEW rs, Table(rs)
  PROVE  /\ Len(rs) \in Nat /\ DOMAIN rs = 1..Len(rs) /\ rs = [r \in DOMAIN rs |-> rs[r]]
         /\ \A r \in DOMAIN rs : rs[r] \in Row /\ r \in Nat /\ r > 0
  BY LenProperties DEF Table

LEMMA TableRewritten ==
  ASSUME NEW rs, Table(rs), NEW rs1, DOMAIN rs1 = DOMAIN rs,
         rs1 = [r \in DOMAIN rs |-> rs1[r]],
         \A r \in DOMAIN rs :
           /\ Sound(rs1[r]) /\ Told(rs1[r]) /\ rs1[r].retryOf = rs[r].retryOf
           /\ (rs1[r].correctionOf = {}) = (rs[r].correctionOf = {})
           /\ \A o \in rs1[r].correctionOf : o \in DOMAIN rs /\ rs[o].correctionOf = {}
  PROVE  Table(rs1)
<1>1. Len(rs) \in Nat /\ DOMAIN rs = 1..Len(rs) /\ Len(rs) <= MaxRows
  BY TableIs DEF Table
<1>2. \A r \in 1..Len(rs) : rs1[r] \in Row
  BY <1>1 DEF Sound, Formed
<1>3. rs1 \in Seq(Row) /\ Len(rs1) = Len(rs)
  BY <1>1, <1>2
<1>4. \A r \in DOMAIN rs1 : Placed(rs1, r)
  BY DEF Table, Placed
<1> QED
  BY <1>1, <1>3, <1>4 DEF Table

LEMMA TableWritten ==
  ASSUME NEW rs, Table(rs), NEW r \in DOMAIN rs, NEW d,
         Sound(d), Told(d), d.retryOf = rs[r].retryOf,
         (d.correctionOf = {}) = (rs[r].correctionOf = {}),
         \A o \in d.correctionOf : o \in DOMAIN rs /\ rs[o].correctionOf = {}
  PROVE  /\ Table([rs EXCEPT ![r] = d]) /\ DOMAIN [rs EXCEPT ![r] = d] = DOMAIN rs
         /\ [rs EXCEPT ![r] = d][r] = d
         /\ \A x \in DOMAIN rs \ {r} : [rs EXCEPT ![r] = d][x] = rs[x]
<1> DEFINE rs1 == [rs EXCEPT ![r] = d]
<1>1. /\ DOMAIN rs1 = DOMAIN rs /\ rs1[r] = d /\ \A x \in DOMAIN rs \ {r} : rs1[x] = rs[x]
      /\ rs1 = [x \in DOMAIN rs |-> rs1[x]]
  OBVIOUS
<1> HIDE DEF rs1
<1>2. Table(rs1)
  <2>1. \A x \in DOMAIN rs :
           /\ Sound(rs1[x]) /\ Told(rs1[x]) /\ rs1[x].retryOf = rs[x].retryOf
           /\ (rs1[x].correctionOf = {}) = (rs[x].correctionOf = {})
           /\ \A o \in rs1[x].correctionOf : o \in DOMAIN rs /\ rs[o].correctionOf = {}
    BY <1>1 DEF Table, Placed
  <2> QED
    BY <1>1, <2>1, TableRewritten
<1> QED
  BY <1>1, <1>2 DEF rs1

\* A new row is refreshed by the transaction that creates it.
LEMMA RowIsCreated ==
  ASSUME Table(rows), version \in 0..MaxVersion, HasRoom, NEW d, Sound(d), Fresh(d),
         d.retryOf <= Len(rows),
         \A o \in d.correctionOf : o \in DOMAIN rows /\ rows[o].correctionOf = {}
  PROVE  /\ Table(Created(d))
         /\ Len(Created(d)) = Len(rows) + 1 /\ DOMAIN Created(d) = DOMAIN rows \cup {Len(rows) + 1}
         /\ \A r \in DOMAIN rows : Created(d)[r] = rows[r]
         /\ Rewrites(d, Created(d)[Len(rows) + 1])
         /\ consent = "Out" /\ d.status \in Editable =>
              Created(d)[Len(rows) + 1].status = "CANCELLED"
<1> DEFINE n   == Len(rows) + 1
           rs  == Append(rows, d)
           e   == Refreshed(rs, n)
           rs1 == [rs EXCEPT ![n] = e]
<1>1. /\ Len(rows) \in Nat /\ DOMAIN rows = 1..Len(rows) /\ rows \in Seq(Row)
      /\ \A r \in DOMAIN rows : rows[r] \in Row
  BY TableIs DEF Table
<1>2. d \in Row
  BY DEF Sound, Formed
<1>3. /\ rs \in Seq(Row) /\ Len(rs) = n /\ DOMAIN rs = 1..n /\ rs[n] = d
      /\ \A r \in DOMAIN rows : rs[r] = rows[r]
  BY <1>1, <1>2
<1> HIDE DEF rs
<1>4. /\ Sound(e) /\ Told(e) /\ Rewrites(d, e) /\ e.correctionOf = d.correctionOf
      /\ consent = "Out" /\ d.status \in Editable => e.status = "CANCELLED"
  BY <1>3, RowIsRefreshed
<1>5. e \in Row /\ e.retryOf = d.retryOf
  BY <1>4 DEF Sound, Formed, Rewrites, Kept
<1> HIDE DEF e
<1>6. /\ rs1 \in Seq(Row) /\ Len(rs1) = n /\ DOMAIN rs1 = 1..n /\ rs1[n] = e
      /\ \A r \in DOMAIN rows : rs1[r] = rows[r]
  BY <1>1, <1>3, <1>5
<1>7. Created(d) = rs1
  BY <1>3 DEF Created, e, rs
<1> HIDE DEF rs1
<1>8. n <= MaxRows
  BY <1>1, BoundsAssumption DEF HasRoom
<1>9. Placed(rs1, n)
  BY <1>1, <1>4, <1>5, <1>6 DEF Placed, Row
<1>10. \A r \in DOMAIN rows : Sound(rs1[r]) /\ Told(rs1[r]) /\ Placed(rs1, r)
  BY <1>1, <1>6 DEF Table, Placed
<1>11. Table(rs1)
  BY <1>1, <1>4, <1>6, <1>8, <1>9, <1>10 DEF Table
<1> QED
  BY <1>1, <1>4, <1>6, <1>7, <1>11

LEMMA Smallest ==
  ASSUME NEW S \in SUBSET Nat, S # {}
  PROVE  \E x \in S : \A y \in S : x <= y
<1> DEFINE R == OpToRel(<, Nat)
<1>1. \E x \in S : \A y \in S : <<y, x>> \notin R
  BY NatLessThanWellFounded, WFMin
<1>2. PICK x \in S : \A y \in S : <<y, x>> \notin R
  BY <1>1
<1>3. \A y \in S : ~(y < x)
  BY <1>2 DEF OpToRel
<1> QED
  BY <1>3

\* The baseline of a row is a submitted row, or 0: the rows it is chosen from
\* have a least upper bound.
LEMMA BaselineType ==
  ASSUME NEW rs, Table(rs), NEW r
  PROVE  /\ Baseline(rs, r) \in Nat
         /\ Baseline(rs, r) # 0 =>
              Baseline(rs, r) \in DOMAIN rs /\ rs[Baseline(rs, r)].status \in Submitted
<1> DEFINE C == {c \in DOMAIN rs : r \in rs[c].correctionOf /\ rs[c].status \in Submitted}
           B == {n \in Nat : \A b \in C : b <= n}
<1>1. C \subseteq Nat /\ Len(rs) \in B
  BY TableIs
<1>2. PICK n \in B : \A x \in B : n <= x
  BY <1>1, Smallest
<1> DEFINE chosen == CHOOSE c \in C \cup {0} : \A b \in C : b <= c
<1>3. Baseline(rs, r) = chosen
  BY DEF Baseline
<1> HIDE DEF C
<1>4. n \in C \cup {0}
  <2> SUFFICES ASSUME n \notin C, n # 0 PROVE FALSE
    OBVIOUS
  <2>1. n - 1 \in Nat /\ \A b \in C : b <= n - 1
    BY <1>1, <1>2
  <2> QED
    BY <1>2, <2>1
<1>5. \A b \in C : b <= n
  BY <1>2
<1>6. chosen \in C \cup {0}
  BY <1>4, <1>5
<1> HIDE DEF chosen
<1>7. chosen \in Nat
  BY <1>1, <1>6
<1>8. chosen # 0 => chosen \in DOMAIN rs /\ rs[chosen].status \in Submitted
  BY <1>6 DEF C
<1> QED
  BY <1>3, <1>7, <1>8

-----------------------------------------------------------------------------
(***************************************************************************)
(* Types.  After an opt-out no delivery waits.                             *)
(***************************************************************************)
BusinessInv ==
  /\ version \in 0..MaxVersion /\ source \in {"Live", "Deleting", "Removed"}
  /\ consent \in {"Before", "Out", "Again"}

RowsInv ==
  /\ Table(rows) /\ seen \subseteq {r \in DOMAIN rows : rows[r].status = "PENDING"}
  /\ consent = "Out" => \A r \in DOMAIN rows : rows[r].status \notin Editable

MessagesInv ==
  /\ messages \in Seq(Message) /\ \A m \in DOMAIN messages : messages[m].row \in DOMAIN rows
  /\ applied \subseteq (DOMAIN messages) \X Reports

SessionInv ==
  /\ session \in [Workers -> Session]
  /\ \A w \in Workers : session[w] # Idle => session[w].row \in DOMAIN rows

TypeInv == BusinessInv /\ RowsInv /\ MessagesInv /\ SessionInv

\* Nothing but row r is written.
Only(r) ==
  /\ r \in DOMAIN rows /\ DOMAIN rows' = DOMAIN rows
  /\ \A x \in DOMAIN rows \ {r} : rows'[x] = rows[x]

LEMMA RowIsWritten ==
  ASSUME RowsInv, NEW r \in DOMAIN rows, NEW d, Sound(d), Told(d), d.retryOf = rows[r].retryOf,
         (d.correctionOf = {}) = (rows[r].correctionOf = {}),
         \A o \in d.correctionOf : o \in DOMAIN rows /\ rows[o].correctionOf = {},
         consent = "Out" => d.status \notin Editable,
         rows' = [rows EXCEPT ![r] = d],
         seen' = (IF d = rows[r] THEN seen ELSE seen \ {r})
           \/ (seen' = seen \cup {r} /\ d.status = "PENDING")
           \/ (seen' = seen /\ d.status = rows[r].status),
         consent' = consent
  PROVE  RowsInv' /\ Only(r) /\ rows'[r] = d
<1>1. Table(rows)
  BY DEF RowsInv
<1>2. Table(rows') /\ Only(r) /\ rows'[r] = d
  BY <1>1, TableWritten DEF Only
<1>3. seen' \subseteq {x \in DOMAIN rows' : rows'[x].status = "PENDING"}
  BY <1>2 DEF RowsInv, Only
<1>4. consent' = "Out" => \A x \in DOMAIN rows' : rows'[x].status \notin Editable
  BY <1>2 DEF RowsInv, Only
<1> QED
  BY <1>2, <1>3, <1>4 DEF RowsInv

\* A row that may still be edited, or stays as it is, is rewritten.
LEMMA RowIsRewritten ==
  ASSUME RowsInv, NEW r \in DOMAIN rows, NEW d, Sound(d), Told(d), Rewrites(rows[r], d),
         \A o \in d.correctionOf : o \in DOMAIN rows /\ rows[o].correctionOf = {},
         rows' = [rows EXCEPT ![r] = d],
         seen' = (IF d = rows[r] THEN seen ELSE seen \ {r})
           \/ (seen' = seen \cup {r} /\ d.status = "PENDING")
           \/ (seen' = seen /\ d.status = rows[r].status),
         consent' = consent
  PROVE  RowsInv' /\ Only(r) /\ rows'[r] = d
<1>1. d.retryOf = rows[r].retryOf /\ (d.correctionOf = {}) = (rows[r].correctionOf = {})
  BY DEF Rewrites, Kept
<1>2. consent = "Out" => d.status \notin Editable
  BY DEF RowsInv, Rewrites
<1> QED
  BY <1>1, <1>2, RowIsWritten

LEMMA RowIs ==
  ASSUME RowsInv, NEW r \in DOMAIN rows
  PROVE  /\ Sound(rows[r]) /\ Told(rows[r]) /\ Fresh(rows[r]) /\ Formed(rows[r])
         /\ rows[r] \in Row /\ rows[r].retryOf < r
         /\ \A o \in rows[r].correctionOf : o \in DOMAIN rows /\ rows[o].correctionOf = {}
BY DEF RowsInv, Table, Sound, Formed, Fresh, Placed

\* A refresh of row r.
LEMMA RefreshIs ==
  ASSUME TypeInv, NEW r \in DOMAIN rows
  PROVE  LET d == Refreshed(rows, r) IN
         /\ Sound(d) /\ Told(d) /\ Rewrites(rows[r], d) /\ d \in Row
         /\ \A o \in d.correctionOf : o \in DOMAIN rows /\ rows[o].correctionOf = {}
         /\ d.status = "QUEUED" => d.text = Live /\ source # "Deleting" /\ AncestorsFailed(rows, r)
<1>1. version \in 0..MaxVersion /\ RowsInv
  BY DEF TypeInv, BusinessInv
<1> QED
  BY <1>1, RowIs, RowIsRefreshed DEF Sound, Formed

-----------------------------------------------------------------------------
(***************************************************************************)
(* The steps that rewrite rows which may still be edited.                  *)
(***************************************************************************)
Relaxed ==
  \A w \in Workers : session'[w] = session[w] \/ session'[w].step \in {"Idle", "Previewed"}

Rewriting ==
  /\ DOMAIN rows' = DOMAIN rows /\ \A r \in DOMAIN rows : Rewrites(rows[r], rows'[r])
  /\ Relaxed /\ UNCHANGED <<messages, applied>>

LEMMA UnchangedSession ==
  ASSUME SessionInv, UNCHANGED session, DOMAIN rows \subseteq DOMAIN rows'
  PROVE  SessionInv' /\ Relaxed
BY DEF SessionInv, Relaxed

LEMMA UnchangedMessages ==
  ASSUME MessagesInv, UNCHANGED <<messages, applied>>, DOMAIN rows \subseteq DOMAIN rows'
  PROVE  MessagesInv'
BY DEF MessagesInv

\* One row is rewritten, and nothing else changes.
LEMMA RewriteKeeps ==
  ASSUME TypeInv, NEW r \in DOMAIN rows, NEW d, Sound(d), Told(d), Rewrites(rows[r], d),
         \A o \in d.correctionOf : o \in DOMAIN rows /\ rows[o].correctionOf = {},
         rows' = [rows EXCEPT ![r] = d],
         seen' = (IF d = rows[r] THEN seen ELSE seen \ {r})
           \/ (seen' = seen \cup {r} /\ d.status = "PENDING")
           \/ (seen' = seen /\ d.status = rows[r].status),
         UNCHANGED <<business, session, messages, applied>>
  PROVE  TypeInv' /\ Rewriting
<1>1. RowsInv' /\ Only(r) /\ rows'[r] = d
  BY RowIsRewritten DEF TypeInv, business
<1>2. BusinessInv'
  BY DEF TypeInv, BusinessInv, business
<1>3. SessionInv' /\ Relaxed
  BY <1>1, UnchangedSession DEF TypeInv, Only
<1>4. MessagesInv'
  BY <1>1, UnchangedMessages DEF TypeInv, Only
<1>5. \A x \in DOMAIN rows : Rewrites(rows[x], rows'[x])
  BY <1>1 DEF Only, Rewrites
<1> QED
  BY <1>1, <1>2, <1>3, <1>4, <1>5 DEF TypeInv, Rewriting, Only

LEMMA ReconcileRewrites ==
  ASSUME TypeInv, NEW r \in DOMAIN rows, Reconcile(r)
  PROVE  TypeInv' /\ Rewriting
BY RefreshIs, RewriteKeeps DEF Reconcile, Write

LEMMA ViewRewrites ==
  ASSUME TypeInv, NEW r \in DOMAIN rows, View(r)
  PROVE  TypeInv' /\ Rewriting
<1>1. Refreshed(rows, r).status = "PENDING"
  BY DEF View
<1> QED
  BY <1>1, RefreshIs, RewriteKeeps DEF View

LEMMA ApproveRewrites ==
  ASSUME TypeInv, NEW r \in DOMAIN rows, Approve(r)
  PROVE  TypeInv' /\ Rewriting
<1> DEFINE d == rows[r]
           e == [d EXCEPT !.status = "QUEUED", !.approved = d.text]
<1>1. CASE Write(r, Refreshed(rows, r))
  BY <1>1, RefreshIs, RewriteKeeps DEF Approve, Write
<1>2. CASE d.status = "PENDING" /\ Write(r, e)
  <2>1. Sound(d) /\ Told(d) /\ d \in Row
        /\ \A o \in d.correctionOf : o \in DOMAIN rows /\ rows[o].correctionOf = {}
    BY RowIs DEF TypeInv
  <2>2. /\ e \in Row /\ e.status = "QUEUED" /\ e.correctionOf = d.correctionOf
        /\ e.corrects = d.corrects /\ e.key = d.key /\ e.text = d.text /\ e.approved = d.text
    BY <2>1 DEF Row, Statuses, Editable, Submitted
  <2>3. Kept(d, e)
    BY <2>1 DEF Row, Kept
  <2> HIDE DEF e
  <2>4. Sound(e) /\ Told(e) /\ Rewrites(d, e)
    BY <1>2, <2>1, <2>2, <2>3 DEF Sound, Formed, Told, Rewrites, Editable
  <2> QED
    BY <1>2, <2>1, <2>2, <2>4, RewriteKeeps DEF Approve, Write
<1> QED
  BY <1>1, <1>2 DEF Approve

LEMMA CancelRewrites ==
  ASSUME TypeInv, NEW r \in DOMAIN rows, Cancel(r)
  PROVE  TypeInv' /\ Rewriting
<1>1. Sound(rows[r]) /\ \A o \in rows[r].correctionOf : o \in DOMAIN rows /\ rows[o].correctionOf = {}
  BY RowIs DEF TypeInv
<1> QED
  BY <1>1, CancelledRowIs, RewriteKeeps DEF Cancel, Write, Rewrites

LEMMA BufferEndRewrites ==
  ASSUME TypeInv, NEW r \in DOMAIN rows, BufferEnds(r)
  PROVE  TypeInv' /\ Rewriting
<1> DEFINE d == rows[r]
           e == [d EXCEPT !.due = TRUE]
<1>1. Sound(d) /\ Told(d) /\ d \in Row
      /\ \A o \in d.correctionOf : o \in DOMAIN rows /\ rows[o].correctionOf = {}
  BY RowIs DEF TypeInv
<1>2. /\ e \in Row /\ e.status = d.status /\ e.correctionOf = d.correctionOf
      /\ e.corrects = d.corrects /\ e.key = d.key /\ e.text = d.text /\ e.approved = d.approved
  BY <1>1 DEF Row
<1>3. Kept(d, e)
  BY <1>1 DEF Row, Kept
<1>4. rows' = [rows EXCEPT ![r] = e]
  BY DEF BufferEnds
<1> HIDE DEF e
<1>5. Sound(e) /\ Told(e) /\ Rewrites(d, e)
  BY <1>1, <1>2, <1>3 DEF Sound, Formed, Told, Rewrites, Editable, Kept, BufferEnds
<1> QED
  BY <1>1, <1>2, <1>4, <1>5, RewriteKeeps DEF BufferEnds

\* Every row is rewritten.
LEMMA AllRewriteKeeps ==
  ASSUME TypeInv, DOMAIN rows' = DOMAIN rows, rows' = [r \in DOMAIN rows |-> rows'[r]],
         \A r \in DOMAIN rows :
           /\ Sound(rows'[r]) /\ Told(rows'[r]) /\ Rewrites(rows[r], rows'[r])
           /\ rows'[r].correctionOf = rows[r].correctionOf,
         seen' \subseteq {r \in seen : rows'[r] = rows[r]},
         consent' = "Out" => \A r \in DOMAIN rows : rows'[r].status \notin Editable,
         BusinessInv', UNCHANGED <<session, messages, applied>>
  PROVE  TypeInv' /\ Rewriting
<1>1. \A r \in DOMAIN rows : rows'[r].retryOf = rows[r].retryOf
  BY DEF Rewrites, Kept
<1>2. \A r \in DOMAIN rows : \A o \in rows[r].correctionOf :
        o \in DOMAIN rows /\ rows[o].correctionOf = {}
  BY RowIs DEF TypeInv
<1> DEFINE rs1 == rows'
<1>3. /\ Table(rows) /\ DOMAIN rs1 = DOMAIN rows /\ rs1 = [r \in DOMAIN rows |-> rs1[r]]
      /\ \A r \in DOMAIN rows :
           /\ Sound(rs1[r]) /\ Told(rs1[r]) /\ rs1[r].retryOf = rows[r].retryOf
           /\ (rs1[r].correctionOf = {}) = (rows[r].correctionOf = {})
           /\ \A o \in rs1[r].correctionOf : o \in DOMAIN rows /\ rows[o].correctionOf = {}
  BY <1>1, <1>2 DEF TypeInv, RowsInv
<1>8. Table(rs1)
  <2> HIDE DEF rs1
  <2> QED
    BY <1>3, TableRewritten
<1>4. RowsInv'
  BY <1>8 DEF TypeInv, RowsInv
<1>5. SessionInv' /\ Relaxed
  BY UnchangedSession DEF TypeInv
<1>6. MessagesInv'
  BY UnchangedMessages DEF TypeInv
<1> QED
  BY <1>4, <1>5, <1>6 DEF TypeInv, Rewriting

LEMMA RequestDeletionRewrites ==
  ASSUME TypeInv, RequestDeletion
  PROVE  TypeInv' /\ Rewriting
<1> DEFINE paused(r) == IF /\ rows[r].status \in Editable /\ ~rows[r].claimed
                           /\ rows[r].correctionOf = {}
                        THEN PausedRow(rows[r]) ELSE rows[r]
<1>1. rows' = [r \in DOMAIN rows |-> paused(r)] /\ seen' = {r \in seen : paused(r) = rows[r]}
  BY DEF RequestDeletion, WriteAll
<1>2. \A r \in DOMAIN rows :
        /\ Sound(paused(r)) /\ Told(paused(r)) /\ Rewrites(rows[r], paused(r))
        /\ paused(r).correctionOf = rows[r].correctionOf
  BY RowIs, PausedRowIs DEF TypeInv, Rewrites, Editable
<1> HIDE DEF paused
<1>3. DOMAIN rows' = DOMAIN rows /\ \A r \in DOMAIN rows : rows'[r] = paused(r)
  BY <1>1
<1>4. seen \subseteq DOMAIN rows
  BY DEF TypeInv, RowsInv
<1>5. \A r \in DOMAIN rows : consent' = "Out" => rows'[r].status \notin Editable
  BY <1>2, <1>3 DEF RequestDeletion, TypeInv, RowsInv, Rewrites
<1>6. BusinessInv'
  BY DEF RequestDeletion, TypeInv, BusinessInv
<1> QED
  BY <1>1, <1>2, <1>3, <1>4, <1>5, <1>6, AllRewriteKeeps DEF RequestDeletion

LEMMA OptOutRewrites ==
  ASSUME TypeInv, OptOut
  PROVE  TypeInv' /\ Rewriting
<1> DEFINE revoked(r) == IF rows[r].status \in Editable THEN CancelledRow(rows[r]) ELSE rows[r]
<1>1. rows' = [r \in DOMAIN rows |-> revoked(r)] /\ seen' = {r \in seen : revoked(r) = rows[r]}
  BY DEF OptOut, WriteAll
<1>2. \A r \in DOMAIN rows :
        /\ Sound(revoked(r)) /\ Told(revoked(r)) /\ Rewrites(rows[r], revoked(r))
        /\ revoked(r).correctionOf = rows[r].correctionOf
        /\ revoked(r).status \notin Editable
  BY RowIs, CancelledRowIs DEF TypeInv, Rewrites, Editable
<1> HIDE DEF revoked
<1>3. DOMAIN rows' = DOMAIN rows /\ \A r \in DOMAIN rows : rows'[r] = revoked(r)
  BY <1>1
<1>4. seen \subseteq DOMAIN rows
  BY DEF TypeInv, RowsInv
<1>5. BusinessInv'
  BY DEF OptOut, TypeInv, BusinessInv
<1> QED
  BY <1>1, <1>2, <1>3, <1>4, <1>5, AllRewriteKeeps DEF OptOut

\* The business alone changes.
LEMMA BusinessRewrites ==
  ASSUME TypeInv, Edit \/ DecideDeletion \/ OptIn
  PROVE  TypeInv' /\ Rewriting
<1>1. BusinessInv' /\ (consent' = "Out" => consent = "Out")
  <2>1. CASE Edit
    <3>1. version' \in 0..MaxVersion /\ UNCHANGED <<source, consent>>
      BY <2>1 DEF Edit
    <3> QED
      BY <3>1 DEF TypeInv, BusinessInv
  <2>2. CASE DecideDeletion
    BY <2>2 DEF DecideDeletion, TypeInv, BusinessInv
  <2>3. CASE OptIn
    BY <2>3 DEF OptIn, TypeInv, BusinessInv
  <2> QED
    BY <2>1, <2>2, <2>3
<1>2. UNCHANGED <<rows, seen, session, messages, applied>>
  BY DEF Edit, DecideDeletion, OptIn
<1>3. RowsInv'
  BY <1>1, <1>2 DEF TypeInv, RowsInv
<1>4. SessionInv' /\ Relaxed /\ MessagesInv'
  BY <1>2, UnchangedSession, UnchangedMessages DEF TypeInv
<1> QED
  BY <1>1, <1>2, <1>3, <1>4 DEF TypeInv, Rewriting, Rewrites

\* A correction that waits takes over what is changed now.
Originals == {r \in DOMAIN rows : /\ rows[r].correctionOf = {}
                                  /\ rows[r].status \in Submitted
                                  /\ IsChanged(rows, r)}
NewKey == {<<r, Live, Baseline(rows, r)>> : r \in Originals}
TakenOver(a) == [rows EXCEPT ![a].key = NewKey, ![a].correctionOf = Originals,
                             ![a].status = "PENDING", ![a].approved = NoText,
                             ![a].due = FALSE]

LEMMA CorrectionIsTakenOver ==
  ASSUME TypeInv, NEW a \in ActiveCorrections, Originals # {}
  PROVE  LET e == RefreshedCorrection(TakenOver(a), a) IN
         /\ Sound(e) /\ Told(e) /\ Rewrites(rows[a], e) /\ e.correctionOf = Originals
<1> SUFFICES
      ASSUME NEW originals, originals # {},
             originals = {r \in DOMAIN rows : /\ rows[r].correctionOf = {}
                                              /\ rows[r].status \in Submitted /\ IsChanged(rows, r)},
             NEW key, key = {<<r, Live, Baseline(rows, r)>> : r \in originals},
             NEW rs,
             rs = [rows EXCEPT ![a].key = key, ![a].correctionOf = originals,
                               ![a].status = "PENDING", ![a].approved = NoText,
                               ![a].due = FALSE]
      PROVE  /\ Sound(RefreshedCorrection(rs, a)) /\ Told(RefreshedCorrection(rs, a))
             /\ Rewrites(rows[a], RefreshedCorrection(rs, a))
             /\ RefreshedCorrection(rs, a).correctionOf = originals
  BY DEF Originals, NewKey, TakenOver
<1> DEFINE d == rows[a]
           p == rs[a]
           e == RefreshedCorrection(rs, a)
           changes == {o \in originals : IsChanged(rs, o)}
<1>1. /\ a \in DOMAIN rows /\ d.correctionOf # {} /\ d.status \in Editable /\ d \in Row
      /\ Sound(d) /\ Formed(d)
  BY RowIs DEF ActiveCorrections, TypeInv
<1>2. /\ Table(rows) /\ consent # "Out" /\ DOMAIN rows \subseteq Nat
      /\ Live \in Texts /\ Live # NoText
  <2>1. Table(rows) /\ version \in 0..MaxVersion
    BY DEF TypeInv, RowsInv, BusinessInv
  <2>2. consent # "Out"
    BY <1>1 DEF TypeInv, RowsInv
  <2> QED
    BY <2>1, <2>2, TableIs, LiveType
<1>3. originals \subseteq Nat /\ originals \subseteq DOMAIN rows /\ a \notin originals
  BY <1>1, <1>2
<1>4. key \in SUBSET (Nat \X Texts \X Nat)
  <2>1. \A r \in originals : r \in Nat /\ Baseline(rows, r) \in Nat
    BY <1>2, <1>3, BaselineType
  <2>2. \A r \in originals : <<r, Live, Baseline(rows, r)>> \in Nat \X Texts \X Nat
    BY <1>2, <2>1
  <2> QED
    BY <2>2
<1>5. DOMAIN rs = DOMAIN rows /\ \A x \in DOMAIN rows \ {a} : rs[x] = rows[x]
  BY <1>1
<1>6. /\ p.key = key /\ p.correctionOf = originals /\ p.status = "PENDING"
      /\ p.approved = NoText /\ p.text = d.text /\ p.corrects = d.corrects
  BY <1>1 DEF Row
<1>7. p.retryOf = d.retryOf /\ p.approval = d.approval /\ p.claimed = d.claimed
      /\ p.known = d.known /\ p.code = d.code
  BY <1>1 DEF Row
<1>8. p \in Row
  BY <1>1, <1>3, <1>4 DEF Row, Statuses, Editable
<1> HIDE DEF p
<1>9. Kept(d, p)
  BY <1>1, <1>6, <1>7 DEF Kept
<1>10. ASSUME NEW o \in originals PROVE IsChanged(rs, o)
  <2>1. IsChanged(rows, o) /\ o # a /\ rs[o] = rows[o]
    BY <1>3, <1>5
  <2>2. Baseline(rs, o) = Baseline(rows, o)
    <3>1. \A c \in DOMAIN rows :
            (o \in rs[c].correctionOf /\ rs[c].status \in Submitted)
              <=> (o \in rows[c].correctionOf /\ rows[c].status \in Submitted)
      BY <1>1, <1>5, <1>6 DEF p, Submitted, Editable
    <3>2. {c \in DOMAIN rs : o \in rs[c].correctionOf /\ rs[c].status \in Submitted}
            = {c \in DOMAIN rows : o \in rows[c].correctionOf /\ rows[c].status \in Submitted}
      BY <1>5, <3>1
    <3> QED
      BY <3>2 DEF Baseline
  <2> DEFINE base == Baseline(rows, o)
  <2>3. base # 0 => base \in DOMAIN rows /\ base # a
    BY <1>1, <1>2, BaselineType DEF Submitted, Editable
  <2>4. base # 0 => rs[base] = rows[base]
    BY <1>5, <2>3
  <2> QED
    BY <2>1, <2>2, <2>4 DEF IsChanged
<1>11. changes = originals
  BY <1>10
<1>12. source # "Deleting"
  BY DEF IsChanged
<1>13. CASE e = p /\ p.text = Live /\ p.corrects = originals
  <2>1. Sound(p) /\ Told(p)
    BY <1>2, <1>6, <1>8, <1>13 DEF Sound, Formed, Told
  <2> QED
    BY <1>1, <1>6, <1>9, <1>13, <2>1 DEF Rewrites, Editable
<1>14. CASE e = Renewed(p, Live, originals)
  <2>1. /\ Sound(e) /\ Told(e) /\ Kept(p, e) /\ e.status \in {"PENDING", "QUEUED"}
        /\ e.correctionOf = originals
    <3>1. p \in Row /\ (p.key = {} \/ p.correctionOf # {}) /\ originals \subseteq p.correctionOf
      BY <1>6, <1>8
    <3> DEFINE f == Renewed(p, Live, originals)
    <3>2. /\ Sound(f) /\ Told(f) /\ Kept(p, f) /\ f.status \in {"PENDING", "QUEUED"}
          /\ f.correctionOf = p.correctionOf
      BY ONLY <1>2, <3>1, RenewedIs
    <3> QED
      BY <1>6, <1>14, <3>2
  <2>2. Kept(d, e)
    BY <1>9, <2>1 DEF Kept
  <2> QED
    BY <1>1, <2>1, <2>2 DEF Rewrites, Editable
<1>15. (e = p /\ p.text = Live /\ p.corrects = originals) \/ e = Renewed(p, Live, originals)
  BY <1>2, <1>6, <1>11, <1>12 DEF RefreshedCorrection, p
<1> QED
  BY <1>6, <1>13, <1>14, <1>15

-----------------------------------------------------------------------------
(***************************************************************************)
(* The steps that add a row.                                               *)
(***************************************************************************)
Adding ==
  /\ \A r \in DOMAIN rows : rows'[r] = rows[r]
  /\ \E n : /\ n \notin DOMAIN rows /\ DOMAIN rows' = DOMAIN rows \cup {n}
            /\ rows'[n].status \in Editable \cup {"CANCELLED"}
            /\ rows'[n].retryOf # 0 =>
                 rows'[n].retryOf \in DOMAIN rows /\ IsExplicitFailure(rows[rows'[n].retryOf])
  /\ UNCHANGED <<session, messages, applied>>

LEMMA NewRowIs ==
  ASSUME NEW retryOf \in Nat, NEW correctionOf \in SUBSET Nat,
         NEW key \in SUBSET (Nat \X Texts \X Nat), key = {} \/ correctionOf # {},
         NEW text \in Texts \cup {NoText}, text = NoText => correctionOf # {}
  PROVE  LET d == NewRow(retryOf, correctionOf, key, text) IN
         /\ Sound(d) /\ Fresh(d) /\ d.status \in {"PENDING", "QUEUED"}
         /\ d.retryOf = retryOf /\ d.correctionOf = correctionOf
<1> DEFINE d        == NewRow(retryOf, correctionOf, key, text)
           approval == TestMode \/ correctionOf # {}
           status   == IF approval THEN "PENDING" ELSE "QUEUED"
<1>1. approval \in BOOLEAN /\ FALSE \in BOOLEAN
  OBVIOUS
<1>2. status \in Statuses /\ status \in {"PENDING", "QUEUED"}
      /\ (status = "QUEUED" => ~approval) /\ (correctionOf # {} => status = "PENDING")
  BY DEF Statuses, Editable
<1>3. d = [retryOf |-> retryOf, correctionOf |-> correctionOf, key |-> key, text |-> text,
           corrects |-> {}, approval |-> approval, approved |-> NoText, due |-> FALSE,
           status |-> status, claimed |-> FALSE, known |-> 0, code |-> "None"]
  BY DEF NewRow
<1> HIDE DEF d, approval, status
<1>4. d \in Row
  BY <1>1, <1>2, <1>3 DEF Row
<1>5. /\ d.status = status /\ d.correctionOf = correctionOf /\ d.corrects = {} /\ d.key = key
      /\ d.retryOf = retryOf /\ d.text = text
  BY <1>3
<1>6. d.approval = approval
  BY <1>3
<1>7. Formed(d)
  BY <1>4, <1>5 DEF Formed
<1>8. Sound(d)
  BY <1>2, <1>5, <1>6, <1>7 DEF Sound
<1>9. Fresh(d)
  BY <1>2, <1>5 DEF Fresh, Told
<1> QED
  BY <1>2, <1>5, <1>8, <1>9 DEF d

LEMMA CreationAdds ==
  ASSUME TypeInv, HasRoom, NEW d, Sound(d), Fresh(d), d.status \in Editable,
         \A o \in d.correctionOf : o \in DOMAIN rows /\ rows[o].correctionOf = {},
         d.retryOf # 0 => d.retryOf \in DOMAIN rows /\ IsExplicitFailure(rows[d.retryOf]),
         rows' = Created(d), UNCHANGED <<business, seen, session, messages, applied>>
  PROVE  TypeInv' /\ Adding
<1> DEFINE n == Len(rows) + 1
           e == Created(d)[n]
<1>1. /\ Table(rows) /\ version \in 0..MaxVersion /\ Len(rows) \in Nat
      /\ DOMAIN rows = 1..Len(rows) /\ n \notin DOMAIN rows
  BY TableIs DEF TypeInv, RowsInv, BusinessInv
<1>2. d.retryOf <= Len(rows)
  BY <1>1
<1>3. /\ Table(Created(d)) /\ DOMAIN Created(d) = DOMAIN rows \cup {n}
      /\ \A r \in DOMAIN rows : Created(d)[r] = rows[r]
      /\ Rewrites(d, e)
      /\ consent = "Out" => e.status = "CANCELLED"
  BY <1>1, <1>2, RowIsCreated
<1>4. e.status \in Editable \cup {"CANCELLED"} /\ e.retryOf = d.retryOf
  BY <1>3 DEF Rewrites, Kept
<1> HIDE DEF e, n
<1>5. Adding
  BY <1>1, <1>3, <1>4 DEF Adding, e
<1>6. RowsInv'
  <2>1. Table(rows')
    BY <1>3
  <2>2. seen' \subseteq {r \in DOMAIN rows' : rows'[r].status = "PENDING"}
    BY <1>3 DEF TypeInv, RowsInv
  <2>3. consent' = "Out" => \A r \in DOMAIN rows' : rows'[r].status \notin Editable
    BY <1>3 DEF TypeInv, RowsInv, Editable, e, business
  <2> QED
    BY <2>1, <2>2, <2>3 DEF RowsInv
<1>7. BusinessInv'
  BY DEF TypeInv, BusinessInv, business
<1>8. SessionInv' /\ MessagesInv'
  BY <1>3, UnchangedSession, UnchangedMessages DEF TypeInv
<1> QED
  BY <1>5, <1>6, <1>7, <1>8 DEF TypeInv

LEMMA ProjectAdds ==
  ASSUME TypeInv, Project
  PROVE  TypeInv' /\ Adding
<1> DEFINE d == NewRow(0, {}, {}, version)
<1>1. version \in Texts \cup {NoText} /\ version # NoText
  BY LiveType DEF TypeInv, BusinessInv
<1>2. Sound(d) /\ Fresh(d) /\ d.status \in Editable /\ d.retryOf = 0 /\ d.correctionOf = {}
  BY <1>1, NewRowIs DEF Editable
<1> HIDE DEF d
<1> QED
  BY <1>2, CreationAdds DEF Project, d

LEMMA RetryAdds ==
  ASSUME TypeInv, NEW r \in DOMAIN rows, Retry(r)
  PROVE  TypeInv' /\ Adding
<1> DEFINE d == NewRow(r, rows[r].correctionOf, {}, rows[r].text)
<1>1. /\ rows[r] \in Row /\ Told(rows[r])
      /\ \A o \in rows[r].correctionOf : o \in DOMAIN rows /\ rows[o].correctionOf = {}
  BY RowIs DEF TypeInv
<1>2. IsExplicitFailure(rows[r]) /\ rows[r].text # NoText
  BY <1>1 DEF Retry, IsExplicitFailure, Told
<1>3. /\ rows[r].correctionOf \in SUBSET Nat /\ rows[r].text \in Texts \cup {NoText}
      /\ r \in Nat /\ {} \in SUBSET (Nat \X Texts \X Nat)
  BY <1>1, TableIs DEF Row, TypeInv, RowsInv
<1>4. /\ Sound(d) /\ Fresh(d) /\ d.status \in Editable /\ d.retryOf = r
      /\ d.correctionOf = rows[r].correctionOf
  BY <1>2, <1>3, NewRowIs DEF Editable
<1>5. rows' = Created(d) /\ HasRoom /\ UNCHANGED <<business, seen, session, messages, applied>>
  BY DEF Retry
<1> HIDE DEF d
<1> QED
  BY <1>1, <1>2, <1>4, <1>5, CreationAdds

LEMMA CorrectRewritesOrAdds ==
  ASSUME TypeInv, Correct
  PROVE  TypeInv' /\ (Rewriting \/ Adding)
<1> DEFINE d == NewRow(0, Originals, NewKey, NoText)
<1>1. Originals # {} /\ UNCHANGED <<business, session, messages, applied>>
  BY DEF Correct, Originals
<1>2. \A o \in Originals : o \in DOMAIN rows /\ rows[o].correctionOf = {}
  BY DEF Originals
<1>3. CASE \E a \in ActiveCorrections : Write(a, RefreshedCorrection(TakenOver(a), a))
  <2>1. PICK a \in ActiveCorrections : Write(a, RefreshedCorrection(TakenOver(a), a))
    BY <1>3
  <2> DEFINE e == RefreshedCorrection(TakenOver(a), a)
  <2>2. Sound(e) /\ Told(e) /\ Rewrites(rows[a], e) /\ e.correctionOf = Originals
    BY <1>1, CorrectionIsTakenOver
  <2>3. a \in DOMAIN rows
    BY DEF ActiveCorrections
  <2>4. rows' = [rows EXCEPT ![a] = e] /\ seen' = IF e = rows[a] THEN seen ELSE seen \ {a}
    BY <2>1 DEF Write
  <2> HIDE DEF e
  <2>5. TypeInv' /\ Rewriting
    BY <1>1, <1>2, <2>2, <2>3, <2>4, RewriteKeeps
  <2> QED
    BY <2>5
<1>4. CASE HasRoom /\ rows' = Created(d) /\ UNCHANGED seen
  <2>1. Table(rows) /\ Live \in Texts /\ Originals \in SUBSET Nat
    BY LiveType, TableIs DEF Originals, TypeInv, RowsInv, BusinessInv
  <2>2. \A r \in Originals : r \in Nat /\ Baseline(rows, r) \in Nat
    BY <2>1, BaselineType
  <2>3. \A r \in Originals : <<r, Live, Baseline(rows, r)>> \in Nat \X Texts \X Nat
    BY <2>1, <2>2
  <2>4. NewKey \in SUBSET (Nat \X Texts \X Nat)
    BY <2>3 DEF NewKey
  <2>5. /\ Sound(d) /\ Fresh(d) /\ d.status \in Editable /\ d.retryOf = 0
        /\ d.correctionOf = Originals
    BY <1>1, <2>1, <2>4, NewRowIs DEF Editable
  <2> HIDE DEF d
  <2> QED
    BY <1>1, <1>2, <1>4, <2>5, CreationAdds
<1> QED
  BY <1>3, <1>4 DEF Correct, Originals, NewKey, TakenOver

-----------------------------------------------------------------------------
(***************************************************************************)
(* Who works on a row.  A row that is claimed is never edited again, and   *)
(* one dispatch at most works on it, until it has recorded its answer.     *)
(* Only a dispatch that has claimed a row posts it, so a row has one       *)
(* message.                                                                *)
(***************************************************************************)
Posting(s)     == s.step \in {"Claimed", "Checked"}
Dispatching(s) == s.step \in {"Claimed", "Checked", "Answered"}
Unposted(s)    == Posting(s) \/ (s.step = "Answered" /\ s.answer = "Rejected")

Final(r) == rows[r].status \notin Editable

DispatchInv ==
  /\ \A w \in Workers : Dispatching(session[w]) => Final(session[w].row)
  /\ \A w, v \in Workers :
       Dispatching(session[w]) /\ Dispatching(session[v]) /\ session[w].row = session[v].row => w = v
  /\ \A w \in Workers, m \in DOMAIN messages :
       Unposted(session[w]) => messages[m].row # session[w].row
  /\ \A m \in DOMAIN messages : Final(messages[m].row)
  /\ \A m, n \in DOMAIN messages : messages[m].row = messages[n].row => m = n

\* Nobody will post row r, and what was posted of it the provider reported as
\* failed.
Dead(r) ==
  /\ Final(r)
  /\ \A w \in Workers : Posting(session[w]) => session[w].row # r
  /\ \A m \in DOMAIN messages : messages[m].row = r => "FAILED" \in messages[m].past

\* What the application takes for a failure, and what a row retries, is dead.
RetryInv ==
  /\ \A r \in DOMAIN rows : IsExplicitFailure(rows[r]) => Dead(r)
  /\ \A r \in DOMAIN rows : rows[r].retryOf # 0 =>
       rows[r].retryOf \in DOMAIN rows /\ Dead(rows[r].retryOf)

\* What a dispatch is about to post is what was approved.
ApprovalInv ==
  /\ \A w \in Workers : Posting(session[w]) =>
       LET d == rows[session[w].row] IN d.approval => session[w].text = d.approved
  /\ \A m \in DOMAIN messages :
       LET d == rows[messages[m].row] IN d.approval => messages[m].text = d.approved

DeliveryInv == DispatchInv /\ RetryInv /\ ApprovalInv /\ ReportsAreKept

-----------------------------------------------------------------------------
(***************************************************************************)
(* The kinds of steps of a dispatch and of the callbacks.                  *)
(***************************************************************************)
Claiming(w, r) ==
  /\ Only(r) /\ rows[r].status \in Editable
  /\ rows'[r].status = "SENDING" /\ rows'[r].retryOf = rows[r].retryOf
  /\ rows'[r].text = Live /\ source # "Deleting" /\ consent # "Out" /\ AncestorsFailed(rows, r)
  /\ Posting(session'[w]) /\ session'[w].row = r
  /\ rows'[r].approval => session'[w].text = rows'[r].approved
  /\ \A v \in Workers \ {w} : session'[v] = session[v]
  /\ UNCHANGED <<messages, applied>>

Checking(w) ==
  /\ Posting(session[w]) /\ Posting(session'[w])
  /\ session'[w].row = session[w].row /\ session'[w].text = session[w].text
  /\ \A v \in Workers \ {w} : session'[v] = session[v]
  /\ UNCHANGED <<rows, messages, applied>>

\* A row that may not be edited any more goes on, and takes nothing back that
\* the provider reported of it.
Moving(r) ==
  /\ Only(r) /\ Final(r) /\ rows'[r].status \notin Editable
  /\ rows'[r].status = "SENDING" => rows[r].status = "SENDING"
  /\ rows'[r].retryOf = rows[r].retryOf
  /\ rows'[r].approval = rows[r].approval /\ rows'[r].approved = rows[r].approved
  /\ IsExplicitFailure(rows'[r]) =>
       \/ rows'[r] = rows[r]
       \/ /\ \A w \in Workers : Posting(session'[w]) => session'[w].row # r
          /\ \A m \in DOMAIN messages : messages[m].row = r => "FAILED" \in messages[m].past
  /\ \/ Rank[rows'[r].status] >= Rank[rows[r].status]
     \/ \A m \in DOMAIN messages : messages[m].row # r
  /\ Relaxed /\ UNCHANGED messages
  /\ \A e \in applied' \ applied : messages[e[1]].row = r /\ Rank[rows'[r].status] >= Rank[e[2]]

LEMMA SessionIs ==
  ASSUME SessionInv, NEW w \in Workers
  PROVE  /\ session[w].step \in {"Idle", "Previewed", "Claimed", "Checked", "Answered"}
         /\ session[w].step # "Idle" => session[w].row \in DOMAIN rows
         /\ Posting(session[w]) =>
              session[w] \in [step : {"Claimed", "Checked"}, row : Nat, text : Texts \cup {NoText}]
         /\ session[w].step = "Answered" =>
              session[w] \in [step : {"Answered"}, row : Nat,
                              answer : {"Accepted", "Rejected", "Uncertain"}, message : Nat]
<1>1. session[w] \in Session /\ (session[w] # Idle => session[w].row \in DOMAIN rows)
  BY DEF SessionInv
<1> QED
  BY <1>1 DEF Session, Idle, Posting

LEMMA SessionChanges ==
  ASSUME SessionInv, NEW w \in Workers, NEW s \in Session, s # Idle => s.row \in DOMAIN rows,
         session' = [session EXCEPT ![w] = s], DOMAIN rows' = DOMAIN rows
  PROVE  /\ SessionInv' /\ session'[w] = s /\ \A v \in Workers \ {w} : session'[v] = session[v]
         /\ s.step \in {"Idle", "Previewed"} => Relaxed
BY DEF SessionInv, Relaxed

LEMMA IdleIs == Idle \in Session /\ Idle.step = "Idle"
BY DEF Idle, Session

LEMMA RankType ==
  ASSUME NEW s \in Statuses
  PROVE  Rank[s] \in Int
BY DEF Rank, Statuses, Editable, Submitted

LEMMA PreviewRewrites ==
  ASSUME TypeInv, NEW w \in Workers, NEW r \in DOMAIN rows, Preview(w, r)
  PROVE  TypeInv' /\ Rewriting
<1> DEFINE d == Refreshed(rows, r)
           s == [step |-> "Previewed", row |-> r]
<1>1. /\ Sound(d) /\ Told(d) /\ Rewrites(rows[r], d)
      /\ \A o \in d.correctionOf : o \in DOMAIN rows /\ rows[o].correctionOf = {}
  BY RefreshIs
<1>2. RowsInv' /\ Only(r) /\ rows'[r] = d
  BY <1>1, RowIsRewritten DEF Preview, Write, TypeInv, business
<1>3. s \in Session /\ s.row \in DOMAIN rows /\ s.step = "Previewed"
  BY TableIs DEF Session, TypeInv, RowsInv
<1>4. session' = session \/ session' = [session EXCEPT ![w] = s]
  BY DEF Preview
<1> HIDE DEF d, s
<1>5. SessionInv' /\ Relaxed
  BY <1>2, <1>3, <1>4, SessionChanges, UnchangedSession DEF TypeInv, Only
<1>6. MessagesInv' /\ UNCHANGED <<messages, applied>>
  BY <1>2, UnchangedMessages DEF Preview, TypeInv, Only
<1>7. BusinessInv'
  BY DEF Preview, TypeInv, BusinessInv, business
<1>8. \A x \in DOMAIN rows : Rewrites(rows[x], rows'[x])
  BY <1>1, <1>2 DEF Only, Rewrites
<1> QED
  BY <1>2, <1>5, <1>6, <1>7, <1>8 DEF TypeInv, Rewriting, Only

LEMMA ClaimClaimsOrRewrites ==
  ASSUME TypeInv, NEW w \in Workers, Claim(w)
  PROVE  TypeInv' /\ (Rewriting \/ Claiming(w, session[w].row))
<1> DEFINE r == session[w].row
           d == Refreshed(rows, r)
           e == [d EXCEPT !.status = "SENDING", !.claimed = TRUE, !.due = FALSE]
           s == [step |-> IF d.retryOf = 0 THEN "Checked" ELSE "Claimed", row |-> r, text |-> d.text]
<1>1. r \in DOMAIN rows
  BY SessionIs DEF Claim, TypeInv
<1>2. /\ Sound(d) /\ Told(d) /\ Rewrites(rows[r], d) /\ d \in Row
      /\ \A o \in d.correctionOf : o \in DOMAIN rows /\ rows[o].correctionOf = {}
      /\ d.status = "QUEUED" => d.text = Live /\ source # "Deleting" /\ AncestorsFailed(rows, r)
  BY <1>1, RefreshIs
<1>3. BusinessInv' /\ UNCHANGED <<business, messages, applied>>
  BY DEF Claim, TypeInv, BusinessInv, business
<1>4. CASE Write(r, d) /\ session' = [session EXCEPT ![w] = Idle]
  <2>1. RowsInv' /\ Only(r) /\ rows'[r] = d
    BY <1>1, <1>2, <1>3, <1>4, RowIsRewritten DEF Write, TypeInv, business
  <2>2. SessionInv' /\ Relaxed
    BY <1>4, <2>1, IdleIs, SessionChanges DEF TypeInv, Only
  <2>3. MessagesInv'
    BY <1>3, <2>1, UnchangedMessages DEF TypeInv, Only
  <2>4. \A x \in DOMAIN rows : Rewrites(rows[x], rows'[x])
    BY <1>2, <2>1 DEF Only, Rewrites
  <2> QED
    BY <1>3, <2>1, <2>2, <2>3, <2>4 DEF TypeInv, Rewriting, Only
<1>5. CASE Claimable(d) /\ Write(r, e) /\ session' = [session EXCEPT ![w] = s]
  <2>1. /\ d.status = "QUEUED" /\ consent # "Out" /\ d.text \in Texts \cup {NoText}
        /\ d.retryOf = rows[r].retryOf /\ (d.correctionOf = {}) = (rows[r].correctionOf = {})
        /\ rows[r].status \in Editable
    BY <1>2, <1>5 DEF Claimable, Rewrites, Kept, Row, Editable
  <2>2. /\ e.status = "SENDING" /\ e.correctionOf = d.correctionOf /\ e.corrects = d.corrects
        /\ e.key = d.key /\ e.text = d.text /\ e.approved = d.approved /\ e.retryOf = d.retryOf
    BY <1>2 DEF Row
  <2>3. e.approval = d.approval
    BY <1>2 DEF Row
  <2>4. e \in Row
    BY <1>2 DEF Row, Statuses
  <2> HIDE DEF e
  <2>5. Sound(e) /\ Told(e)
    BY <1>2, <2>1, <2>2, <2>3, <2>4 DEF Sound, Formed, Told
  <2>6. RowsInv' /\ Only(r) /\ rows'[r] = e
    BY <1>1, <1>2, <1>3, <1>5, <2>1, <2>2, <2>5, RowIsWritten DEF Write, TypeInv, Editable, business
  <2>7. s \in Session /\ s.row = r /\ s.text = d.text /\ Posting(s)
    BY <1>1, <2>1, TableIs DEF Session, TypeInv, RowsInv, Posting
  <2> HIDE DEF s
  <2>8. /\ SessionInv' /\ session'[w] = s
        /\ \A v \in Workers \ {w} : session'[v] = session[v]
    BY <1>1, <1>5, <2>6, <2>7, SessionChanges DEF TypeInv, Only
  <2>9. MessagesInv'
    BY <1>3, <2>6, UnchangedMessages DEF TypeInv, Only
  <2>10. e.approval => s.text = e.approved
    BY <1>2, <2>1, <2>2, <2>3, <2>7 DEF Sound
  <2> QED
    BY <1>2, <1>3, <2>1, <2>2, <2>6, <2>7, <2>8, <2>9, <2>10 DEF TypeInv, Claiming
<1> QED
  BY <1>4, <1>5 DEF Claim, Candidate

\* A row that was claimed goes on.
GoesOn(d, e) ==
  /\ e \in Row /\ e.status \notin Editable \cup {"SENDING"}
  /\ d.status \notin {"CANCELLED", "PAUSED"}
  /\ e.retryOf = d.retryOf /\ e.correctionOf = d.correctionOf /\ e.key = d.key
  /\ e.text = d.text /\ e.corrects = d.corrects
  /\ e.approval = d.approval /\ e.approved = d.approved

LEMMA RowGoesOn ==
  ASSUME TypeInv, NEW r \in DOMAIN rows, Final(r), NEW e, e = rows[r] \/ GoesOn(rows[r], e),
         Write(r, e), UNCHANGED business
  PROVE  /\ BusinessInv' /\ RowsInv' /\ Only(r) /\ rows'[r] = e /\ e.status \notin Editable
         /\ e.retryOf = rows[r].retryOf /\ e.approval = rows[r].approval
         /\ e.approved = rows[r].approved /\ (e.status = "SENDING" => rows[r].status = "SENDING")
<1>1. /\ Sound(rows[r]) /\ Told(rows[r])
      /\ \A o \in rows[r].correctionOf : o \in DOMAIN rows /\ rows[o].correctionOf = {}
  BY RowIs DEF TypeInv
<1>2. /\ e.status \notin Editable /\ e.retryOf = rows[r].retryOf
      /\ e.correctionOf = rows[r].correctionOf
      /\ e.approval = rows[r].approval /\ e.approved = rows[r].approved
      /\ e.status = "SENDING" => rows[r].status = "SENDING"
  BY DEF GoesOn, Final
<1>3. Sound(e) /\ Told(e)
  BY <1>1, <1>2 DEF GoesOn, Sound, Formed, Told, Editable
<1>4. RowsInv' /\ Only(r) /\ rows'[r] = e
  BY <1>1, <1>2, <1>3, RowIsWritten DEF Write, TypeInv, business
<1>5. BusinessInv'
  BY DEF TypeInv, BusinessInv, business
<1> QED
  BY <1>2, <1>4, <1>5

LEMMA ClaimExpires ==
  ASSUME TypeInv, NEW r \in DOMAIN rows, ExpireClaim(r)
  PROVE  TypeInv' /\ Moving(r)
<1> DEFINE d == rows[r]
           e == [d EXCEPT !.status = "UNCERTAIN"]
<1>1. d \in Row /\ d.status = "SENDING" /\ Final(r)
  BY RowIs DEF ExpireClaim, TypeInv, Final, Editable
<1>2. /\ e \in Row /\ e.status = "UNCERTAIN" /\ e.retryOf = d.retryOf
      /\ e.correctionOf = d.correctionOf /\ e.key = d.key /\ e.text = d.text
      /\ e.corrects = d.corrects /\ e.approved = d.approved
  BY <1>1 DEF Row, Statuses, Submitted
<1>3. e.approval = d.approval
  BY <1>1 DEF Row
<1>4. GoesOn(d, e)
  BY <1>1, <1>2, <1>3 DEF GoesOn, Editable
<1>5. Write(r, e) /\ UNCHANGED <<business, session, messages, applied>>
  BY DEF ExpireClaim
<1> HIDE DEF e
<1>6. /\ BusinessInv' /\ RowsInv' /\ Only(r) /\ rows'[r] = e /\ e.status \notin Editable
      /\ e.retryOf = d.retryOf /\ e.approval = d.approval /\ e.approved = d.approved
      /\ e.status = "SENDING" => d.status = "SENDING"
  BY <1>1, <1>4, <1>5, RowGoesOn
<1>7. SessionInv' /\ Relaxed /\ MessagesInv'
  BY <1>5, <1>6, UnchangedSession, UnchangedMessages DEF TypeInv, Only
<1>8. Rank[e.status] >= Rank[d.status]
  BY <1>1, <1>2 DEF Rank, Statuses, Editable, Submitted
<1>9. ~IsExplicitFailure(e)
  BY <1>2 DEF IsExplicitFailure
<1> QED
  BY <1>1, <1>5, <1>6, <1>7, <1>8, <1>9 DEF TypeInv, Moving

\* The look at the ancestors: the dispatch goes on, or gives up.
LEMMA CheckChecksOrMoves ==
  ASSUME TypeInv, DispatchInv, NEW w \in Workers, CheckAncestors(w)
  PROVE  TypeInv' /\ (Checking(w) \/ Moving(session[w].row))
<1> DEFINE r == session[w].row
           d == rows[r]
           e == IF Held(r) THEN CancelledRow(d) ELSE d
<1>1. /\ r \in DOMAIN rows /\ Posting(session[w]) /\ d \in Row /\ Final(r) /\ Sound(d)
      /\ session[w] \in [step : {"Claimed", "Checked"}, row : Nat, text : Texts \cup {NoText}]
      /\ \A m \in DOMAIN messages : messages[m].row # r
  BY SessionIs, RowIs DEF CheckAncestors, TypeInv, Posting, DispatchInv, Dispatching, Unposted
<1>2. UNCHANGED <<business, messages, applied>>
  BY DEF CheckAncestors
<1>3. CASE session' = [session EXCEPT ![w].step = "Checked"] /\ UNCHANGED <<rows, seen>>
  <2> DEFINE s == [session[w] EXCEPT !.step = "Checked"]
  <2>1. /\ s \in [step : {"Claimed", "Checked"}, row : Nat, text : Texts \cup {NoText}]
        /\ s.step = "Checked" /\ s.row = r /\ s.text = session[w].text
    BY <1>1
  <2>2. session' = [session EXCEPT ![w] = s]
    BY <1>3
  <2> HIDE DEF s
  <2>3. s \in Session
    BY <2>1 DEF Session
  <2>4. /\ SessionInv' /\ session'[w] = s
        /\ \A v \in Workers \ {w} : session'[v] = session[v]
    BY <1>1, <1>3, <2>1, <2>2, <2>3, SessionChanges DEF TypeInv
  <2>5. BusinessInv' /\ RowsInv' /\ MessagesInv'
    BY <1>2, <1>3 DEF TypeInv, BusinessInv, RowsInv, MessagesInv, business
  <2> QED
    BY <1>1, <1>2, <1>3, <2>1, <2>4, <2>5 DEF TypeInv, Checking, Posting
<1>4. CASE session' = [session EXCEPT ![w] = Idle] /\ Write(r, e)
  <2>1. e = d \/ GoesOn(d, e)
    <3>1. CASE Held(r)
      <4>1. e = CancelledRow(d) /\ d.status = "SENDING"
        BY <3>1 DEF Held
      <4>2. /\ CancelledRow(d) \in Row /\ CancelledRow(d).status = "CANCELLED"
            /\ CancelledRow(d).corrects = d.corrects /\ CancelledRow(d).key = d.key
            /\ CancelledRow(d).correctionOf = d.correctionOf /\ CancelledRow(d).text = d.text
            /\ CancelledRow(d).approved = d.approved
        BY <1>1 DEF CancelledRow, Row, Statuses
      <4>3. CancelledRow(d).retryOf = d.retryOf /\ CancelledRow(d).approval = d.approval
        BY <1>1, CancelledRowIs DEF Kept
      <4> QED
        BY <4>1, <4>2, <4>3 DEF GoesOn, Editable
    <3> QED
      BY <3>1
  <2>2. e = d \/ e.status = "CANCELLED"
    BY <1>1, CancelledRowIs
  <2> HIDE DEF e
  <2>3. /\ BusinessInv' /\ RowsInv' /\ Only(r) /\ rows'[r] = e /\ e.status \notin Editable
        /\ e.retryOf = d.retryOf /\ e.approval = d.approval /\ e.approved = d.approved
        /\ e.status = "SENDING" => d.status = "SENDING"
    BY <1>1, <1>2, <1>4, <2>1, RowGoesOn
  <2>4. SessionInv' /\ Relaxed
    BY <1>4, <2>3, IdleIs, SessionChanges DEF TypeInv, Only
  <2>5. MessagesInv'
    BY <1>2, <2>3, UnchangedMessages DEF TypeInv, Only
  <2>6. IsExplicitFailure(e) => e = d
    BY <2>2 DEF IsExplicitFailure
  <2> QED
    BY <1>1, <1>2, <2>3, <2>4, <2>5, <2>6 DEF TypeInv, Moving
<1> QED
  BY <1>3, <1>4 DEF CheckAncestors

LEMMA CrashRewrites ==
  ASSUME TypeInv, NEW w \in Workers, Crash(w)
  PROVE  TypeInv' /\ Rewriting
<1>1. UNCHANGED <<business, rows, seen, messages, applied>> /\ session' = [session EXCEPT ![w] = Idle]
  BY DEF Crash
<1>2. BusinessInv' /\ RowsInv' /\ MessagesInv'
  BY <1>1 DEF TypeInv, BusinessInv, RowsInv, MessagesInv, business
<1>3. SessionInv' /\ Relaxed
  BY <1>1, IdleIs, SessionChanges DEF TypeInv
<1> QED
  BY <1>1, <1>2, <1>3 DEF TypeInv, Rewriting, Rewrites

\* The answer is written to a row that the dispatch still holds.
LEMMA RecordMoves ==
  ASSUME TypeInv, DispatchInv, NEW w \in Workers, Record(w)
  PROVE  TypeInv' /\ Moving(session[w].row)
<1> DEFINE s == session[w]
           r == s.row
           d == rows[r]
           e == Recorded(d, s)
<1>1. /\ r \in DOMAIN rows /\ d \in Row /\ Final(r)
      /\ s \in [step : {"Answered"}, row : Nat,
                answer : {"Accepted", "Rejected", "Uncertain"}, message : Nat]
  BY SessionIs, RowIs DEF Record, TypeInv, DispatchInv, Dispatching
<1>2. /\ UNCHANGED <<business, messages, applied>> /\ Write(r, e)
      /\ session' = [session EXCEPT ![w] = Idle]
  BY DEF Record
<1>3. \/ e = d
      \/ /\ GoesOn(d, e) /\ d.status = "SENDING"
         /\ \/ e.status \in {"ACCEPTED", "UNCERTAIN"}
            \/ e.status = "FAILED" /\ s.answer = "Rejected"
  <2>1. CASE ~(d.status = "SENDING" /\ d.claimed)
    BY <2>1 DEF Recorded
  <2>2. CASE d.status = "SENDING" /\ s.answer = "Rejected" /\ d.claimed
    <3> DEFINE f == [d EXCEPT !.status = "FAILED", !.code = "PROVIDER_REJECTED", !.claimed = FALSE]
    <3>1. e = f
      BY <2>2 DEF Recorded
    <3>2. f \in Row /\ f.status = "FAILED"
      BY <1>1 DEF Row, Statuses
    <3>3. /\ f.retryOf = d.retryOf /\ f.correctionOf = d.correctionOf /\ f.key = d.key
          /\ f.text = d.text /\ f.corrects = d.corrects /\ f.approved = d.approved
      BY <1>1 DEF Row
    <3>4. f.approval = d.approval
      BY <1>1 DEF Row
    <3> HIDE DEF f, e
    <3> QED
      BY <2>2, <3>1, <3>2, <3>3, <3>4 DEF GoesOn, Editable
  <2>3. CASE d.status = "SENDING" /\ s.answer = "Accepted" /\ d.claimed
    <3> DEFINE f == [d EXCEPT !.status = "ACCEPTED", !.known = s.message]
    <3>1. e = f
      BY <2>3 DEF Recorded
    <3>2. f \in Row /\ f.status = "ACCEPTED"
      BY <1>1 DEF Row, Statuses, Submitted
    <3>3. /\ f.retryOf = d.retryOf /\ f.correctionOf = d.correctionOf /\ f.key = d.key
          /\ f.text = d.text /\ f.corrects = d.corrects /\ f.approved = d.approved
      BY <1>1 DEF Row
    <3>4. f.approval = d.approval
      BY <1>1 DEF Row
    <3> HIDE DEF f, e
    <3> QED
      BY <2>3, <3>1, <3>2, <3>3, <3>4 DEF GoesOn, Editable
  <2>4. CASE d.status = "SENDING" /\ s.answer = "Uncertain" /\ d.claimed
    <3> DEFINE f == [d EXCEPT !.status = "UNCERTAIN"]
    <3>1. e = f
      BY <2>4 DEF Recorded
    <3>2. f \in Row /\ f.status = "UNCERTAIN"
      BY <1>1 DEF Row, Statuses, Submitted
    <3>3. /\ f.retryOf = d.retryOf /\ f.correctionOf = d.correctionOf /\ f.key = d.key
          /\ f.text = d.text /\ f.corrects = d.corrects /\ f.approved = d.approved
      BY <1>1 DEF Row
    <3>4. f.approval = d.approval
      BY <1>1 DEF Row
    <3> HIDE DEF f, e
    <3> QED
      BY <2>4, <3>1, <3>2, <3>3, <3>4 DEF GoesOn, Editable
  <2> QED
    BY <1>1, <2>1, <2>2, <2>3, <2>4
<1> HIDE DEF e
<1>4. /\ BusinessInv' /\ RowsInv' /\ Only(r) /\ rows'[r] = e /\ e.status \notin Editable
      /\ e.retryOf = d.retryOf /\ e.approval = d.approval /\ e.approved = d.approved
      /\ e.status = "SENDING" => d.status = "SENDING"
  BY <1>1, <1>2, <1>3, RowGoesOn
<1>5. /\ SessionInv' /\ Relaxed /\ session'[w] = Idle
      /\ \A v \in Workers \ {w} : session'[v] = session[v]
  BY <1>2, <1>4, IdleIs, SessionChanges DEF TypeInv, Only
<1>6. MessagesInv'
  BY <1>2, <1>4, UnchangedMessages DEF TypeInv, Only
<1>7. Rank[e.status] >= Rank[d.status]
  <2>1. d.status \in Statuses
    BY <1>1 DEF Row
  <2> QED
    BY <1>3, <2>1, RankType DEF Rank, Statuses, Editable, Submitted
<1>8. ASSUME IsExplicitFailure(e), e # d
      PROVE  /\ \A v \in Workers : Posting(session'[v]) => session'[v].row # r
             /\ \A m \in DOMAIN messages : messages[m].row # r
  <2>1. s.answer = "Rejected" /\ s.step = "Answered"
    BY <1>1, <1>3, <1>8 DEF IsExplicitFailure
  <2>2. \A m \in DOMAIN messages : messages[m].row # r
    BY <2>1 DEF DispatchInv, Unposted
  <2>3. ASSUME NEW v \in Workers, Posting(session'[v]), session'[v].row = r PROVE FALSE
    <3>1. v # w
      BY <1>5, <2>3, IdleIs DEF Posting
    <3> QED
      BY <1>5, <2>1, <2>3, <3>1 DEF DispatchInv, Dispatching, Posting
  <2> QED
    BY <2>2, <2>3
<1> QED
  BY <1>1, <1>2, <1>4, <1>5, <1>6, <1>7, <1>8 DEF TypeInv, Moving

\* A callback makes a row go on only when it ranks higher.
LEMMA WebhookMoves ==
  ASSUME TypeInv, DispatchInv, NEW m \in DOMAIN messages, NEW report \in messages[m].past,
         Webhook(m, report)
  PROVE  TypeInv' /\ Moving(messages[m].row)
<1> DEFINE r == messages[m].row
           d == rows[r]
           f == [d EXCEPT !.status = report, !.known = m,
                   !.code = IF report = "FAILED" /\ messages[m].coded THEN "REPORTED" ELSE "None"]
           e == IF Rank[report] > Rank[d.status] THEN f ELSE d
<1>1. /\ r \in DOMAIN rows /\ d \in Row /\ Final(r) /\ messages \in Seq(Message)
      /\ DOMAIN messages = 1..Len(messages) /\ Len(messages) \in Nat
      /\ messages[m] \in Message
  BY RowIs, LenProperties, ElementOfSeq DEF TypeInv, MessagesInv, DispatchInv
<1>2. /\ report \in Reports /\ report \in {"SENT", "FAILED", "DELIVERED", "READ"}
      /\ report \in Statuses /\ m \in Nat
  <2>1. messages[m].past \subseteq Reports
    BY <1>1 DEF Message
  <2>2. report \in Reports
    BY <2>1
  <2>3. report \in {"SENT", "FAILED", "DELIVERED", "READ"}
    BY <2>2, SettingsAssumption
  <2>4. m \in Nat
    BY <1>1
  <2> QED
    BY <2>2, <2>3, <2>4 DEF Statuses, Submitted
<1>3. /\ UNCHANGED <<business, session, messages>> /\ Write(r, e)
      /\ applied' = applied \cup {<<m, report>>} /\ Rank[d.status] >= 0
  BY DEF Webhook
<1>4. d.status \in Statuses /\ d.status \notin Editable \cup {"CANCELLED"}
      /\ Rank[d.status] \in Int /\ Rank[report] \in Int
  <2>1. d.status \in Statuses /\ d.status \notin Editable
    BY <1>1 DEF Row, Final
  <2>2. Rank[d.status] \in Int /\ Rank[report] \in Int
    BY <1>2, <2>1, RankType
  <2>3. d.status # "CANCELLED"
    <3>1. "CANCELLED" \in Statuses => Rank["CANCELLED"] = -1
      BY DEF Rank
    <3> HIDE DEF d
    <3> QED BY <1>3, <2>1, <2>2, <3>1
  <2> QED
    BY <2>1, <2>2, <2>3
<1>5. f \in Row /\ f.status = report
  BY <1>1, <1>2 DEF Row
<1>6. /\ f.retryOf = d.retryOf /\ f.correctionOf = d.correctionOf /\ f.key = d.key
      /\ f.text = d.text /\ f.corrects = d.corrects /\ f.approved = d.approved
  BY <1>1 DEF Row
<1>7. f.approval = d.approval
  BY <1>1 DEF Row
<1> HIDE DEF f
<1>8. GoesOn(d, f)
  BY <1>2, <1>4, <1>5, <1>6, <1>7 DEF GoesOn, Editable
<1>16. \/ e = d /\ ~(Rank[report] > Rank[d.status])
       \/ e = f /\ Rank[report] > Rank[d.status]
  OBVIOUS
<1> HIDE DEF e
<1>9. e = d \/ (GoesOn(d, e) /\ e.status = report)
  BY <1>5, <1>8, <1>16
<1>10. Rank[e.status] >= Rank[d.status] /\ Rank[e.status] >= Rank[report]
  BY <1>4, <1>5, <1>16
<1>11. /\ BusinessInv' /\ RowsInv' /\ Only(r) /\ rows'[r] = e /\ e.status \notin Editable
       /\ e.retryOf = d.retryOf /\ e.approval = d.approval /\ e.approved = d.approved
       /\ e.status = "SENDING" => d.status = "SENDING"
  BY <1>1, <1>3, <1>9, RowGoesOn
<1>12. SessionInv' /\ Relaxed
  BY <1>3, <1>11, UnchangedSession DEF TypeInv, Only
<1>13. MessagesInv'
  <2>2. <<m, report>> \in (DOMAIN messages) \X Reports
    BY <1>2
  <2>1. applied' \subseteq (DOMAIN messages) \X Reports
    BY <1>3, <2>2 DEF TypeInv, MessagesInv
  <2> QED
    BY <1>3, <1>11, <2>1 DEF TypeInv, MessagesInv, Only
<1>14. ASSUME IsExplicitFailure(e), e # d
       PROVE  /\ \A v \in Workers : Posting(session'[v]) => session'[v].row # r
              /\ \A n \in DOMAIN messages : messages[n].row = r => "FAILED" \in messages[n].past
  <2>1. report = "FAILED"
    BY <1>9, <1>14 DEF IsExplicitFailure
  <2>2. \A v \in Workers : Posting(session[v]) => session[v].row # r
    BY DEF DispatchInv, Unposted
  <2>3. \A n \in DOMAIN messages : messages[n].row = r => n = m
    BY DEF DispatchInv
  <2> QED
    BY <1>3, <2>1, <2>2, <2>3
<1>15. \A x \in applied' \ applied : messages[x[1]].row = r /\ Rank[e.status] >= Rank[x[2]]
  BY <1>3, <1>10
<1> QED
  BY <1>1, <1>3, <1>10, <1>11, <1>12, <1>13, <1>14, <1>15 DEF TypeInv, Moving

-----------------------------------------------------------------------------
(***************************************************************************)
(* The steps with the provider.                                            *)
(***************************************************************************)
Answering(w) ==
  /\ session[w].step = "Checked"
  /\ session'[w].step = "Answered" /\ session'[w].row = session[w].row
  /\ \A v \in Workers \ {w} : session'[v] = session[v]
  /\ \/ UNCHANGED messages
     \/ /\ session'[w].answer # "Rejected"
        /\ \A m \in DOMAIN messages : messages'[m] = messages[m]
        /\ \E n : /\ n \notin DOMAIN messages /\ DOMAIN messages' = DOMAIN messages \cup {n}
                  /\ messages'[n].row = session[w].row /\ messages'[n].text = session[w].text
  /\ UNCHANGED <<rows, applied>>

LEMMA PostAnswers ==
  ASSUME TypeInv, NEW w \in Workers, Post(w)
  PROVE  TypeInv' /\ Answering(w)
<1>1. PICK answer \in {"Accepted", "Rejected", "Lost", "Unreached"} :
       /\ messages' = IF answer \in {"Accepted", "Lost"}
                      THEN Append(messages, [row |-> session[w].row, text |-> session[w].text,
                                             status |-> "ACCEPTED", past |-> {}, coded |-> FALSE])
                      ELSE messages
       /\ session' = [session EXCEPT ![w] =
            [step |-> "Answered", row |-> session[w].row,
             answer |-> IF answer \in {"Lost", "Unreached"} THEN "Uncertain" ELSE answer,
             message |-> IF answer = "Accepted" THEN Len(messages') ELSE 0]]
  BY DEF Post
<1> DEFINE message == [row |-> session[w].row, text |-> session[w].text,
                       status |-> "ACCEPTED", past |-> {}, coded |-> FALSE]
           s == [step |-> "Answered", row |-> session[w].row,
                 answer |-> IF answer \in {"Lost", "Unreached"} THEN "Uncertain" ELSE answer,
                 message |-> IF answer = "Accepted" THEN Len(messages) + 1 ELSE 0]
           n == Len(messages) + 1
<1>2. /\ session[w].step = "Checked" /\ session[w].row \in DOMAIN rows
      /\ session[w].row \in Nat /\ session[w].text \in Texts \cup {NoText}
      /\ UNCHANGED <<business, rows, seen, applied>>
  BY SessionIs DEF Post, TypeInv, Posting
<1>3. messages \in Seq(Message) /\ Len(messages) \in Nat /\ DOMAIN messages = 1..Len(messages)
  BY LenProperties DEF TypeInv, MessagesInv
<1>4. message \in Message
  BY <1>2 DEF Message
<1>5. message.row = session[w].row /\ message.text = session[w].text
  OBVIOUS
<1>6. /\ s \in Session /\ s.step = "Answered" /\ s.row = session[w].row
      /\ answer \in {"Accepted", "Lost"} => s.answer # "Rejected"
  BY <1>2, <1>3 DEF Session
<1> HIDE DEF message
<1>7. CASE answer \in {"Accepted", "Lost"}
  <2>1. messages' = Append(messages, message)
    BY <1>1, <1>7 DEF message
  <2>2. /\ messages' \in Seq(Message) /\ Len(messages') = n /\ DOMAIN messages' = 1..n
        /\ messages'[n] = message /\ \A m \in DOMAIN messages : messages'[m] = messages[m]
    BY <1>3, <1>4, <2>1
  <2>3. session' = [session EXCEPT ![w] = s]
    BY <1>1, <1>7, <2>2
  <2> HIDE DEF s
  <2>4. /\ SessionInv' /\ session'[w] = s
        /\ \A v \in Workers \ {w} : session'[v] = session[v]
    BY <1>2, <1>6, <2>3, SessionChanges DEF TypeInv
  <2>5. n \notin DOMAIN messages /\ DOMAIN messages' = DOMAIN messages \cup {n}
    BY <1>3, <2>2
  <2> HIDE DEF n
  <2>6. MessagesInv'
    <3>1. \A m \in DOMAIN messages' : messages'[m].row \in DOMAIN rows
      BY <1>2, <1>5, <2>2, <2>5 DEF TypeInv, MessagesInv
    <3>2. applied \subseteq (DOMAIN messages') \X Reports
      BY <2>5 DEF TypeInv, MessagesInv
    <3> QED
      BY <1>2, <2>2, <3>1, <3>2 DEF MessagesInv
  <2>7. BusinessInv' /\ RowsInv'
    BY <1>2 DEF TypeInv, BusinessInv, RowsInv, business
  <2> QED
    BY <1>2, <1>5, <1>6, <1>7, <2>2, <2>4, <2>5, <2>6, <2>7 DEF TypeInv, Answering
<1>8. CASE answer \notin {"Accepted", "Lost"}
  <2>1. UNCHANGED messages
    BY <1>1, <1>8
  <2>2. session' = [session EXCEPT ![w] = s]
    BY <1>1, <1>8
  <2> HIDE DEF s
  <2>3. /\ SessionInv' /\ session'[w] = s
        /\ \A v \in Workers \ {w} : session'[v] = session[v]
    BY <1>2, <1>6, <2>2, SessionChanges DEF TypeInv
  <2>4. BusinessInv' /\ RowsInv' /\ MessagesInv'
    BY <1>2, <2>1 DEF TypeInv, BusinessInv, RowsInv, MessagesInv, business
  <2> QED
    BY <1>2, <1>6, <2>1, <2>3, <2>4 DEF TypeInv, Answering
<1> QED
  BY <1>7, <1>8

Reporting ==
  /\ DOMAIN messages' = DOMAIN messages
  /\ \A m \in DOMAIN messages : /\ messages'[m].row = messages[m].row
                                /\ messages'[m].text = messages[m].text
                                /\ messages[m].past \subseteq messages'[m].past
  /\ UNCHANGED <<rows, session, applied>>

LEMMA ProviderReports ==
  ASSUME TypeInv, NEW m \in DOMAIN messages, Provider(m)
  PROVE  TypeInv' /\ Reporting
<1>1. PICK s \in Reports, coded \in BOOLEAN :
        messages' = [messages EXCEPT ![m].status = s, ![m].past = @ \cup {s},
                                     ![m].coded = IF s = "FAILED" THEN coded ELSE @]
  BY DEF Provider
<1> DEFINE d == messages[m]
           new == messages'[m]
<1>2. /\ messages \in Seq(Message) /\ Len(messages) \in Nat /\ DOMAIN messages = 1..Len(messages)
      /\ d \in Message
  BY LenProperties, ElementOfSeq DEF TypeInv, MessagesInv
<1>3. UNCHANGED <<business, rows, seen, session, applied>>
  BY DEF Provider
<1>4. /\ DOMAIN messages' = DOMAIN messages
      /\ \A n \in DOMAIN messages \ {m} : messages'[n] = messages[n]
      /\ messages' = [n \in DOMAIN messages |-> messages'[n]]
  BY <1>1
<1>5. new.row = d.row /\ new.text = d.text /\ new.past = d.past \cup {s} /\ new.status = s
  BY <1>1, <1>2 DEF Message
<1>6. new \in Message
  BY <1>1, <1>2 DEF Message
<1> HIDE DEF new, d
<1>7. messages' \in Seq(Message)
  <2>1. \A n \in 1..Len(messages) : messages'[n] \in Message
    <3>1. \A n \in 1..Len(messages) : messages[n] \in Message
      BY <1>2, ElementOfSeq
    <3> QED
      BY <1>2, <1>4, <1>6, <3>1 DEF new
  <2> QED
    BY <1>2, <1>4, <2>1
<1>8. MessagesInv'
  BY <1>3, <1>4, <1>5, <1>7 DEF TypeInv, MessagesInv, new, d
<1>9. BusinessInv' /\ RowsInv' /\ SessionInv'
  BY <1>3 DEF TypeInv, BusinessInv, RowsInv, SessionInv, business
<1>10. Reporting
  BY <1>3, <1>4, <1>5 DEF Reporting, new, d
<1> QED
  BY <1>8, <1>9, <1>10 DEF TypeInv

-----------------------------------------------------------------------------
(***************************************************************************)
(* What the kinds of steps preserve.  Most of them begin no dispatch and   *)
(* post nothing.                                                           *)
(***************************************************************************)
Framed ==
  /\ DOMAIN rows \subseteq DOMAIN rows'
  /\ \A w \in Workers : Dispatching(session'[w]) =>
       /\ Dispatching(session[w]) /\ session'[w].row = session[w].row
       /\ Unposted(session'[w]) => Unposted(session[w])
       /\ Posting(session'[w]) => Posting(session[w]) /\ session'[w].text = session[w].text
  /\ \A r \in DOMAIN rows : Final(r) =>
       /\ rows'[r].status \notin Editable
       /\ rows'[r].approval = rows[r].approval /\ rows'[r].approved = rows[r].approved
  /\ DOMAIN messages' = DOMAIN messages
  /\ \A m \in DOMAIN messages : /\ messages'[m].row = messages[m].row
                                /\ messages'[m].text = messages[m].text
                                /\ messages[m].past \subseteq messages'[m].past

\* A row of a dispatch, or of a message, is in the table.
LEMMA RowsOfWork ==
  ASSUME TypeInv
  PROVE  /\ \A w \in Workers : Dispatching(session[w]) => session[w].row \in DOMAIN rows
         /\ \A m \in DOMAIN messages : messages[m].row \in DOMAIN rows
BY SessionIs DEF TypeInv, MessagesInv, Dispatching

LEMMA DispatchingIs ==
  ASSUME NEW s
  PROVE  /\ Posting(s) => Dispatching(s) /\ Unposted(s)
         /\ Unposted(s) => Dispatching(s)
BY DEF Posting, Dispatching, Unposted

LEMMA FrameKeeps ==
  ASSUME TypeInv, DispatchInv, ApprovalInv, Framed
  PROVE  /\ DispatchInv' /\ ApprovalInv'
         /\ \A r \in DOMAIN rows : Dead(r) => Dead(r)'
<1>1. /\ \A w \in Workers : Dispatching(session[w]) => session[w].row \in DOMAIN rows
      /\ \A m \in DOMAIN messages : messages[m].row \in DOMAIN rows
  BY RowsOfWork
<1>2. DispatchInv'
  <2>1. \A w \in Workers : Dispatching(session'[w]) => rows'[session'[w].row].status \notin Editable
    BY <1>1 DEF DispatchInv, Framed, Final
  <2>2. \A w, v \in Workers :
          Dispatching(session'[w]) /\ Dispatching(session'[v]) /\ session'[w].row = session'[v].row
            => w = v
    BY DEF DispatchInv, Framed
  <2>3. \A w \in Workers, m \in DOMAIN messages' :
          Unposted(session'[w]) => messages'[m].row # session'[w].row
    <3> SUFFICES ASSUME NEW w \in Workers, NEW m \in DOMAIN messages', Unposted(session'[w])
                 PROVE  messages'[m].row # session'[w].row
      OBVIOUS
    <3>1. Dispatching(session'[w])
      BY DispatchingIs
    <3> QED
      BY <3>1 DEF DispatchInv, Framed
  <2>4. \A m \in DOMAIN messages' : rows'[messages'[m].row].status \notin Editable
    BY <1>1 DEF DispatchInv, Framed, Final
  <2>5. \A m, n \in DOMAIN messages' : messages'[m].row = messages'[n].row => m = n
    BY DEF DispatchInv, Framed
  <2> QED
    BY <2>1, <2>2, <2>3, <2>4, <2>5 DEF DispatchInv, Final, Dispatching, Unposted, Posting
<1>3. ApprovalInv'
  <2>1. ASSUME NEW w \in Workers, Posting(session'[w]), rows'[session'[w].row].approval
        PROVE  session'[w].text = rows'[session'[w].row].approved
    <3>1. /\ Posting(session[w]) /\ Dispatching(session[w]) /\ session'[w].row = session[w].row
          /\ session'[w].text = session[w].text
      BY <2>1, DispatchingIs DEF Framed
    <3>2. Final(session[w].row) /\ session[w].row \in DOMAIN rows
      BY <1>1, <3>1 DEF DispatchInv
    <3> QED
      BY <2>1, <3>1, <3>2 DEF Framed, ApprovalInv
  <2>2. ASSUME NEW m \in DOMAIN messages', rows'[messages'[m].row].approval
        PROVE  messages'[m].text = rows'[messages'[m].row].approved
    <3>1. m \in DOMAIN messages /\ messages'[m].row = messages[m].row
          /\ messages'[m].text = messages[m].text
      BY DEF Framed
    <3>2. Final(messages[m].row) /\ messages[m].row \in DOMAIN rows
      BY <1>1, <3>1 DEF DispatchInv
    <3> QED
      BY <2>2, <3>1, <3>2 DEF Framed, ApprovalInv
  <2> QED
    BY <2>1, <2>2 DEF ApprovalInv, Posting
<1>4. ASSUME NEW r \in DOMAIN rows, Dead(r) PROVE Dead(r)'
  <2>1. rows'[r].status \notin Editable
    BY <1>4 DEF Framed, Dead
  <2>2. \A w \in Workers : Posting(session'[w]) => session'[w].row # r
    BY <1>4, DispatchingIs DEF Framed, Dead
  <2>3. \A m \in DOMAIN messages' : messages'[m].row = r => "FAILED" \in messages'[m].past
    BY <1>4 DEF Framed, Dead
  <2> QED
    BY <2>1, <2>2, <2>3 DEF Dead, Final, Posting
<1> QED
  BY <1>2, <1>3, <1>4

\* Who is relaxed begins no dispatch.
LEMMA RelaxedFrame ==
  ASSUME Relaxed
  PROVE  \A w \in Workers : Dispatching(session'[w]) => session'[w] = session[w]
BY DEF Relaxed, Dispatching

LEMMA RewritingKeeps ==
  ASSUME TypeInv, DeliveryInv, Rewriting
  PROVE  DeliveryInv'
<1>1. \A r \in DOMAIN rows : Final(r) => rows'[r] = rows[r]
  BY DEF Rewriting, Rewrites, Final
<1>2. Framed
  BY <1>1, RelaxedFrame DEF Rewriting, Framed, Final
<1>3. /\ DispatchInv' /\ ApprovalInv' /\ \A r \in DOMAIN rows : Dead(r) => Dead(r)'
  BY <1>2, FrameKeeps DEF DeliveryInv
<1>4. RetryInv'
  <2>1. \A r \in DOMAIN rows : IsExplicitFailure(rows'[r]) => rows'[r] = rows[r]
    BY DEF Rewriting, Rewrites, IsExplicitFailure, Editable
  <2>2. \A r \in DOMAIN rows : rows'[r].retryOf = rows[r].retryOf
    BY DEF Rewriting, Rewrites, Kept
  <2>3. \A r \in DOMAIN rows' : IsExplicitFailure(rows'[r]) => Dead(r)'
    BY <1>3, <2>1 DEF DeliveryInv, RetryInv, Rewriting
  <2>4. \A r \in DOMAIN rows' : rows'[r].retryOf # 0 =>
          rows'[r].retryOf \in DOMAIN rows' /\ Dead(rows[r].retryOf)'
    BY <1>3, <2>2 DEF DeliveryInv, RetryInv, Rewriting
  <2> QED
    BY <2>2, <2>3, <2>4 DEF RetryInv
<1>5. ReportsAreKept'
  <2>1. \A m \in DOMAIN messages : rows'[messages[m].row] = rows[messages[m].row]
    BY <1>1, RowsOfWork DEF DeliveryInv, DispatchInv
  <2> QED
    BY <2>1 DEF DeliveryInv, ReportsAreKept, Rewriting, TypeInv, MessagesInv
<1> QED
  BY <1>3, <1>4, <1>5 DEF DeliveryInv

LEMMA AddingKeeps ==
  ASSUME TypeInv, DeliveryInv, Adding
  PROVE  DeliveryInv'
<1>1. PICK n : /\ n \notin DOMAIN rows /\ DOMAIN rows' = DOMAIN rows \cup {n}
               /\ rows'[n].status \in Editable \cup {"CANCELLED"}
               /\ rows'[n].retryOf # 0 =>
                    rows'[n].retryOf \in DOMAIN rows /\ IsExplicitFailure(rows[rows'[n].retryOf])
  BY DEF Adding
<1>2. Framed
  BY <1>1 DEF Adding, Framed, Final
<1>3. /\ DispatchInv' /\ ApprovalInv' /\ \A r \in DOMAIN rows : Dead(r) => Dead(r)'
  BY <1>2, FrameKeeps DEF DeliveryInv
<1>4. RetryInv'
  <2>1. ~IsExplicitFailure(rows'[n])
    BY <1>1 DEF IsExplicitFailure, Editable
  <2>2. \A r \in DOMAIN rows' : IsExplicitFailure(rows'[r]) => Dead(r)'
    BY <1>1, <1>3, <2>1 DEF Adding, DeliveryInv, RetryInv
  <2>3. ASSUME NEW r \in DOMAIN rows', rows'[r].retryOf # 0
        PROVE  rows'[r].retryOf \in DOMAIN rows' /\ Dead(rows[r].retryOf)'
    <3>1. PICK a : a = rows'[r].retryOf
      OBVIOUS
    <3>2. a \in DOMAIN rows /\ Dead(a)
      <4>1. CASE r \in DOMAIN rows
        BY <2>3, <3>1, <4>1 DEF Adding, DeliveryInv, RetryInv
      <4>2. CASE r = n
        BY <1>1, <2>3, <3>1, <4>2 DEF DeliveryInv, RetryInv
      <4> QED
        BY <1>1, <4>1, <4>2
    <3>3. Dead(a)'
      BY <1>3, <3>2
    <3> QED
      BY <1>1, <3>1, <3>2, <3>3
  <2> QED
    BY <2>2, <2>3 DEF RetryInv
<1>5. ReportsAreKept'
  <2>1. \A m \in DOMAIN messages : rows'[messages[m].row] = rows[messages[m].row]
    BY RowsOfWork DEF Adding
  <2> QED
    BY <2>1 DEF DeliveryInv, ReportsAreKept, Adding, TypeInv, MessagesInv
<1> QED
  BY <1>3, <1>4, <1>5 DEF DeliveryInv

LEMMA MovingKeeps ==
  ASSUME TypeInv, TypeInv', DeliveryInv, NEW r, Moving(r)
  PROVE  DeliveryInv'
<1>1. Framed
  BY RelaxedFrame DEF Moving, Only, Framed, Final
<1>2. /\ DispatchInv' /\ ApprovalInv' /\ \A x \in DOMAIN rows : Dead(x) => Dead(x)'
  BY <1>1, FrameKeeps DEF DeliveryInv
<1>3. RetryInv'
  <2>1. ASSUME NEW x \in DOMAIN rows', IsExplicitFailure(rows'[x]) PROVE Dead(x)'
    <3>1. CASE rows'[x] = rows[x]
      BY <1>2, <2>1, <3>1 DEF Moving, Only, DeliveryInv, RetryInv
    <3>2. CASE rows'[x] # rows[x]
      <4>1. x = r
        BY <3>2 DEF Moving, Only
      <4>2. /\ \A w \in Workers : Posting(session'[w]) => session'[w].row # x
            /\ \A m \in DOMAIN messages' : messages'[m].row = x => "FAILED" \in messages'[m].past
            /\ rows'[x].status \notin Editable
        BY <2>1, <3>2, <4>1 DEF Moving
      <4> QED
        BY <4>2 DEF Dead, Final, Posting
    <3> QED
      BY <3>1, <3>2
  <2>2. \A x \in DOMAIN rows : rows'[x].retryOf = rows[x].retryOf
    BY DEF Moving, Only
  <2>3. \A x \in DOMAIN rows' : rows'[x].retryOf # 0 =>
          rows'[x].retryOf \in DOMAIN rows' /\ Dead(rows[x].retryOf)'
    BY <1>2, <2>2 DEF DeliveryInv, RetryInv, Moving, Only
  <2> QED
    BY <2>1, <2>3 DEF RetryInv
<1>4. ReportsAreKept'
  <2> SUFFICES ASSUME NEW e \in applied'
               PROVE  Rank[rows'[messages[e[1]].row].status] >= Rank[e[2]]
    BY DEF ReportsAreKept, Moving
  <2>1. CASE e \notin applied
    BY <2>1 DEF Moving
  <2>2. CASE e \in applied
    <3> DEFINE x == messages[e[1]].row
    <3>1. /\ e[1] \in DOMAIN messages /\ e[2] \in Reports /\ x \in DOMAIN rows
          /\ Rank[rows[x].status] >= Rank[e[2]]
      BY <2>2, RowsOfWork DEF DeliveryInv, ReportsAreKept, TypeInv, MessagesInv
    <3>2. CASE x # r
      BY <3>1, <3>2 DEF Moving, Only
    <3>3. CASE x = r
      <4>1. Rank[rows'[x].status] >= Rank[rows[x].status]
        BY <3>1, <3>3 DEF Moving
      <4>2. rows[x] \in Row /\ rows'[x] \in Row /\ e[2] \in Statuses
        <5>1. rows[x] \in Row /\ x \in DOMAIN rows'
          BY <3>1, RowIs DEF TypeInv, Moving, Only
        <5>2. rows'[x] \in Row
          BY <5>1 DEF TypeInv, RowsInv, Table, Sound, Formed
        <5>3. e[2] \in Statuses
          BY <3>1, SettingsAssumption DEF Statuses, Submitted
        <5> QED
          BY <5>1, <5>2, <5>3
      <4>3. /\ Rank[rows[x].status] \in Int /\ Rank[rows'[x].status] \in Int
            /\ Rank[e[2]] \in Int
        BY <4>2, RankType DEF Row
      <4> QED
        BY <3>1, <4>1, <4>3
    <3> QED
      BY <3>2, <3>3
  <2> QED
    BY <2>1, <2>2
<1> QED
  BY <1>2, <1>3, <1>4 DEF DeliveryInv

\* The rows stay, and so does what is dead.
LEMMA RowsStay ==
  ASSUME TypeInv, DeliveryInv, UNCHANGED rows, \A r \in DOMAIN rows : Dead(r) => Dead(r)'
  PROVE  RetryInv'
<1>1. \A r \in DOMAIN rows' : IsExplicitFailure(rows'[r]) => Dead(r)'
  BY DEF DeliveryInv, RetryInv
<1>2. \A r \in DOMAIN rows' : rows'[r].retryOf # 0 =>
        rows'[r].retryOf \in DOMAIN rows' /\ Dead(rows[r].retryOf)'
  BY DEF DeliveryInv, RetryInv
<1> QED
  BY <1>1, <1>2 DEF RetryInv

LEMMA CheckingKeeps ==
  ASSUME TypeInv, DeliveryInv, NEW w \in Workers, Checking(w)
  PROVE  DeliveryInv'
<1>1. Framed
  <2>1. Dispatching(session[w]) /\ Unposted(session[w])
    BY DispatchingIs DEF Checking
  <2> QED
    BY <2>1 DEF Checking, Framed, Final
<1>2. /\ DispatchInv' /\ ApprovalInv' /\ \A x \in DOMAIN rows : Dead(x) => Dead(x)'
  BY <1>1, FrameKeeps DEF DeliveryInv
<1>3. RetryInv'
  BY <1>2, RowsStay DEF Checking
<1>4. ReportsAreKept'
  BY DEF DeliveryInv, ReportsAreKept, Checking
<1> QED
  BY <1>2, <1>3, <1>4 DEF DeliveryInv

LEMMA ReportingKeeps ==
  ASSUME TypeInv, DeliveryInv, Reporting
  PROVE  DeliveryInv'
<1>1. Framed
  BY DEF Reporting, Framed, Final
<1>2. /\ DispatchInv' /\ ApprovalInv' /\ \A x \in DOMAIN rows : Dead(x) => Dead(x)'
  BY <1>1, FrameKeeps DEF DeliveryInv
<1>3. RetryInv'
  BY <1>2, RowsStay DEF Reporting
<1>4. ReportsAreKept'
  BY DEF DeliveryInv, ReportsAreKept, Reporting, TypeInv, MessagesInv
<1> QED
  BY <1>2, <1>3, <1>4 DEF DeliveryInv

\* Nobody works on a row that may still be edited, so its claim is the first.
LEMMA ClaimingKeeps ==
  ASSUME TypeInv, DeliveryInv, NEW w \in Workers, NEW r, Claiming(w, r)
  PROVE  DeliveryInv'
<1>1. /\ \A v \in Workers : Dispatching(session[v]) => session[v].row \in DOMAIN rows
      /\ \A m \in DOMAIN messages : messages[m].row \in DOMAIN rows
  BY RowsOfWork
<1>2. /\ \A v \in Workers : Dispatching(session[v]) => session[v].row # r
      /\ \A m \in DOMAIN messages : messages[m].row # r
  BY DEF DeliveryInv, DispatchInv, Final, Claiming
<1>3. \A x \in DOMAIN rows : Final(x) => x # r /\ rows'[x] = rows[x]
  BY DEF Final, Claiming, Only
<1>4. /\ Posting(session'[w]) /\ Dispatching(session'[w]) /\ session'[w].row = r
      /\ rows'[r].status \notin Editable
  BY DispatchingIs DEF Claiming, Editable
<1>5. DispatchInv'
  <2>1. \A v \in Workers : Dispatching(session'[v]) => rows'[session'[v].row].status \notin Editable
    BY <1>1, <1>3, <1>4 DEF Claiming, DeliveryInv, DispatchInv, Final
  <2>2. \A v, u \in Workers :
          Dispatching(session'[v]) /\ Dispatching(session'[u]) /\ session'[v].row = session'[u].row
            => v = u
    BY <1>2, <1>4 DEF Claiming, DeliveryInv, DispatchInv
  <2>3. \A v \in Workers, m \in DOMAIN messages' :
          Unposted(session'[v]) => messages'[m].row # session'[v].row
    BY <1>2, <1>4 DEF Claiming, DeliveryInv, DispatchInv
  <2>4. \A m \in DOMAIN messages' : rows'[messages'[m].row].status \notin Editable
    BY <1>1, <1>3 DEF Claiming, DeliveryInv, DispatchInv, Final
  <2>5. \A m, n \in DOMAIN messages' : messages'[m].row = messages'[n].row => m = n
    BY DEF Claiming, DeliveryInv, DispatchInv
  <2> QED
    BY <2>1, <2>2, <2>3, <2>4, <2>5 DEF DispatchInv, Final, Dispatching, Unposted, Posting
<1>6. ASSUME NEW x \in DOMAIN rows, Dead(x) PROVE Dead(x)'
  <2>1. x # r /\ rows'[x].status \notin Editable
    BY <1>3, <1>6 DEF Dead, Final
  <2>2. \A v \in Workers : Posting(session'[v]) => session'[v].row # x
    BY <1>4, <1>6, <2>1 DEF Claiming, Dead
  <2>3. \A m \in DOMAIN messages' : messages'[m].row = x => "FAILED" \in messages'[m].past
    BY <1>6 DEF Claiming, Dead
  <2> QED
    BY <2>1, <2>2, <2>3 DEF Dead, Final, Posting
<1>7. RetryInv'
  <2>1. ~IsExplicitFailure(rows'[r])
    BY DEF Claiming, IsExplicitFailure
  <2>2. \A x \in DOMAIN rows' : IsExplicitFailure(rows'[x]) => Dead(x)'
    BY <1>6, <2>1 DEF Claiming, Only, DeliveryInv, RetryInv
  <2>3. \A x \in DOMAIN rows : rows'[x].retryOf = rows[x].retryOf
    BY DEF Claiming, Only
  <2>4. \A x \in DOMAIN rows' : rows'[x].retryOf # 0 =>
          rows'[x].retryOf \in DOMAIN rows' /\ Dead(rows[x].retryOf)'
    BY <1>6, <2>3 DEF DeliveryInv, RetryInv, Claiming, Only
  <2> QED
    BY <2>2, <2>4 DEF RetryInv
<1>8. ApprovalInv'
  <2>1. ASSUME NEW v \in Workers, Posting(session'[v]), rows'[session'[v].row].approval
        PROVE  session'[v].text = rows'[session'[v].row].approved
    <3>1. CASE v = w
      BY <1>4, <2>1, <3>1 DEF Claiming
    <3>2. CASE v # w
      <4>1. session'[v] = session[v] /\ Posting(session[v]) /\ Dispatching(session[v])
        BY <2>1, <3>2, DispatchingIs DEF Claiming
      <4>2. rows'[session[v].row] = rows[session[v].row]
        BY <1>1, <1>3, <4>1 DEF DeliveryInv, DispatchInv
      <4> QED
        BY <2>1, <4>1, <4>2 DEF DeliveryInv, ApprovalInv
    <3> QED
      BY <3>1, <3>2
  <2>2. ASSUME NEW m \in DOMAIN messages', rows'[messages'[m].row].approval
        PROVE  messages'[m].text = rows'[messages'[m].row].approved
    <3>1. messages' = messages /\ rows'[messages[m].row] = rows[messages[m].row]
      BY <1>1, <1>3 DEF Claiming, DeliveryInv, DispatchInv
    <3> QED
      BY <2>2, <3>1 DEF DeliveryInv, ApprovalInv
  <2> QED
    BY <2>1, <2>2 DEF ApprovalInv, Posting
<1>9. ReportsAreKept'
  <2>1. \A m \in DOMAIN messages : rows'[messages[m].row] = rows[messages[m].row]
    BY <1>1, <1>3 DEF DeliveryInv, DispatchInv
  <2> QED
    BY <2>1 DEF DeliveryInv, ReportsAreKept, Claiming, TypeInv, MessagesInv
<1> QED
  BY <1>5, <1>7, <1>8, <1>9 DEF DeliveryInv

\* What is posted was held by its dispatch alone, and posted by nobody before.
LEMMA AnsweringKeeps ==
  ASSUME TypeInv, DeliveryInv, NEW w \in Workers, Answering(w)
  PROVE  DeliveryInv'
<1> DEFINE r == session[w].row
<1>1. /\ \A v \in Workers : Dispatching(session[v]) => session[v].row \in DOMAIN rows
      /\ \A m \in DOMAIN messages : messages[m].row \in DOMAIN rows
  BY RowsOfWork
<1>2. /\ Posting(session[w]) /\ Dispatching(session[w]) /\ Unposted(session[w])
      /\ ~Posting(session'[w]) /\ Dispatching(session'[w])
  BY DEF Answering, Posting, Dispatching, Unposted
<1>3. /\ Final(r) /\ \A m \in DOMAIN messages : messages[m].row # r
      /\ \A v \in Workers : Dispatching(session[v]) /\ session[v].row = r => v = w
      /\ rows[r].approval => session[w].text = rows[r].approved
  BY <1>2 DEF DeliveryInv, DispatchInv, ApprovalInv
<1>4. \A v \in Workers : Posting(session'[v]) => v # w /\ session'[v] = session[v]
  BY <1>2 DEF Answering
<1>5. CASE UNCHANGED messages
  <2>1. Framed
    <3>1. \A v \in Workers : Dispatching(session'[v]) =>
            /\ Dispatching(session[v]) /\ session'[v].row = session[v].row
            /\ Unposted(session'[v]) => Unposted(session[v])
            /\ Posting(session'[v]) => Posting(session[v]) /\ session'[v].text = session[v].text
      BY <1>2, <1>4 DEF Answering
    <3> QED
      BY <1>5, <3>1 DEF Answering, Framed, Final
  <2>2. /\ DispatchInv' /\ ApprovalInv' /\ \A x \in DOMAIN rows : Dead(x) => Dead(x)'
    BY <2>1, FrameKeeps DEF DeliveryInv
  <2>3. RetryInv'
    BY <2>2, RowsStay DEF Answering
  <2>4. ReportsAreKept'
    BY <1>5 DEF DeliveryInv, ReportsAreKept, Answering
  <2> QED
    BY <2>2, <2>3, <2>4 DEF DeliveryInv
<1>6. CASE /\ session'[w].answer # "Rejected"
           /\ \A m \in DOMAIN messages : messages'[m] = messages[m]
           /\ \E n : /\ n \notin DOMAIN messages /\ DOMAIN messages' = DOMAIN messages \cup {n}
                     /\ messages'[n].row = r /\ messages'[n].text = session[w].text
  <2>1. PICK n : /\ n \notin DOMAIN messages /\ DOMAIN messages' = DOMAIN messages \cup {n}
                 /\ messages'[n].row = r /\ messages'[n].text = session[w].text
    BY <1>6
  <2>2. ~Unposted(session'[w])
    BY <1>6 DEF Answering, Unposted, Posting
  <2>3. \A v \in Workers : Unposted(session'[v]) =>
          /\ v # w /\ session'[v] = session[v] /\ Dispatching(session[v]) /\ session[v].row # r
    BY <1>3, <2>2, DispatchingIs DEF Answering
  <2>4. DispatchInv'
    <3>1. \A v \in Workers : Dispatching(session'[v]) => rows'[session'[v].row].status \notin Editable
      BY <1>3 DEF Answering, DeliveryInv, DispatchInv, Final
    <3>2. \A v, u \in Workers :
            Dispatching(session'[v]) /\ Dispatching(session'[u]) /\ session'[v].row = session'[u].row
              => v = u
      BY <1>2, <1>3 DEF Answering, DeliveryInv, DispatchInv
    <3>3. \A v \in Workers, m \in DOMAIN messages' :
            Unposted(session'[v]) => messages'[m].row # session'[v].row
      BY <1>6, <2>1, <2>3 DEF DeliveryInv, DispatchInv
    <3>4. \A m \in DOMAIN messages' : rows'[messages'[m].row].status \notin Editable
      BY <1>3, <1>6, <2>1 DEF Answering, DeliveryInv, DispatchInv, Final
    <3>5. \A m, k \in DOMAIN messages' : messages'[m].row = messages'[k].row => m = k
      BY <1>3, <1>6, <2>1 DEF DeliveryInv, DispatchInv
    <3> QED
      BY <3>1, <3>2, <3>3, <3>4, <3>5 DEF DispatchInv, Final, Dispatching, Unposted, Posting
  <2>5. ASSUME NEW x \in DOMAIN rows, Dead(x) PROVE Dead(x)'
    <3>1. x # r
      BY <1>2, <2>5 DEF Dead
    <3>2. rows'[x].status \notin Editable
      BY <2>5 DEF Answering, Dead, Final
    <3>3. \A v \in Workers : Posting(session'[v]) => session'[v].row # x
      BY <1>4, <2>5 DEF Dead
    <3>4. \A m \in DOMAIN messages' : messages'[m].row = x => "FAILED" \in messages'[m].past
      BY <1>6, <2>1, <2>5, <3>1 DEF Dead
    <3> QED
      BY <3>2, <3>3, <3>4 DEF Dead, Final, Posting
  <2>6. RetryInv'
    BY <2>5, RowsStay DEF Answering
  <2>7. ApprovalInv'
    <3>1. \A v \in Workers : Posting(session'[v]) =>
            (rows'[session'[v].row].approval => session'[v].text = rows'[session'[v].row].approved)
      BY <1>4 DEF Answering, DeliveryInv, ApprovalInv
    <3>2. \A m \in DOMAIN messages' :
            rows'[messages'[m].row].approval => messages'[m].text = rows'[messages'[m].row].approved
      BY <1>3, <1>6, <2>1 DEF Answering, DeliveryInv, ApprovalInv
    <3> QED
      BY <3>1, <3>2 DEF ApprovalInv, Posting
  <2>8. ReportsAreKept'
    BY <1>6 DEF DeliveryInv, ReportsAreKept, Answering, TypeInv, MessagesInv
  <2> QED
    BY <2>4, <2>6, <2>7, <2>8 DEF DeliveryInv
<1> QED
  BY <1>5, <1>6 DEF Answering

-----------------------------------------------------------------------------
(***************************************************************************)
(* Every step is of one of these kinds.                                    *)
(***************************************************************************)
Step ==
  \/ Rewriting \/ Adding \/ Reporting \/ UNCHANGED vars
  \/ \E w \in Workers : Checking(w) \/ Answering(w) \/ \E r : Claiming(w, r)
  \/ \E r : Moving(r)

LEMMA NextSteps ==
  ASSUME TypeInv, DispatchInv, [Next]_vars
  PROVE  TypeInv' /\ Step
<1>1. CASE Project \/ Correct
  BY <1>1, ProjectAdds, CorrectRewritesOrAdds DEF Step
<1>2. CASE Edit \/ DecideDeletion \/ OptIn \/ RequestDeletion \/ OptOut
  BY <1>2, BusinessRewrites, RequestDeletionRewrites, OptOutRewrites DEF Step
<1>3. ASSUME NEW r \in DOMAIN rows,
             \/ Reconcile(r) \/ BufferEnds(r) \/ View(r) \/ Approve(r)
             \/ Cancel(r) \/ Retry(r) \/ ExpireClaim(r)
      PROVE  TypeInv' /\ Step
  BY <1>3, ReconcileRewrites, BufferEndRewrites, ViewRewrites, ApproveRewrites, CancelRewrites,
     RetryAdds, ClaimExpires DEF Step
<1>4. ASSUME NEW r \in DOMAIN rows, NEW w \in Workers, Preview(w, r)
      PROVE  TypeInv' /\ Step
  BY <1>4, PreviewRewrites DEF Step
<1>5. ASSUME NEW w \in Workers,
             Claim(w) \/ CheckAncestors(w) \/ Post(w) \/ Record(w) \/ Crash(w)
      PROVE  TypeInv' /\ Step
  BY <1>5, ClaimClaimsOrRewrites, CheckChecksOrMoves, PostAnswers, RecordMoves, CrashRewrites
     DEF Step
<1>6. ASSUME NEW m \in DOMAIN messages, Provider(m)
      PROVE  TypeInv' /\ Step
  BY <1>6, ProviderReports DEF Step
<1>7. ASSUME NEW m \in DOMAIN messages, NEW s \in messages[m].past, Webhook(m, s)
      PROVE  TypeInv' /\ Step
  BY <1>7, WebhookMoves DEF Step
<1>8. CASE UNCHANGED vars
  BY <1>8 DEF vars, business, TypeInv, BusinessInv, RowsInv, MessagesInv, SessionInv, Step
<1> QED
  BY <1>1, <1>2, <1>3, <1>4, <1>5, <1>6, <1>7, <1>8 DEF Next

LEMMA StepKeeps ==
  ASSUME TypeInv, TypeInv', DeliveryInv, Step
  PROVE  DeliveryInv'
<1>1. CASE UNCHANGED vars
  BY <1>1 DEF vars, business, DeliveryInv, DispatchInv, RetryInv, ApprovalInv, ReportsAreKept,
              Dead, Final
<1> QED
  BY <1>1, RewritingKeeps, AddingKeeps, ReportingKeeps, CheckingKeeps, AnsweringKeeps,
     ClaimingKeeps, MovingKeeps DEF Step

MessageInv == TypeInv /\ DeliveryInv

LEMMA InitInv == Init => MessageInv
<1> SUFFICES ASSUME Init PROVE MessageInv
  OBVIOUS
<1>1. Table(rows) /\ DOMAIN rows = {}
  BY BoundsAssumption DEF Init, Table
<1>2. BusinessInv /\ RowsInv
  BY <1>1, BoundsAssumption DEF Init, BusinessInv, RowsInv
<1>3. MessagesInv /\ DOMAIN messages = {}
  BY DEF Init, MessagesInv
<1>4. SessionInv /\ \A w \in Workers : session[w] = Idle
  BY IdleIs DEF Init, SessionInv
<1>5. DispatchInv /\ ApprovalInv
  BY <1>3, <1>4, IdleIs DEF DispatchInv, ApprovalInv, Dispatching, Posting, Unposted
<1>6. RetryInv /\ ReportsAreKept
  BY <1>1 DEF Init, RetryInv, ReportsAreKept
<1> QED
  BY <1>2, <1>3, <1>4, <1>5, <1>6 DEF MessageInv, TypeInv, DeliveryInv

LEMMA MessageInvLasts == MessageInv /\ [Next]_vars => MessageInv'
BY NextSteps, StepKeeps DEF MessageInv, DeliveryInv

LEMMA MessageInvariant == Spec => []MessageInv
BY InitInv, MessageInvLasts, PTL DEF Spec

-----------------------------------------------------------------------------
\* Type correctness.
THEOREM TypeCorrect == Spec => []TypeOK
<1>1. MessageInv => TypeOK
  BY DEF MessageInv, TypeInv, TypeOK, BusinessInv, RowsInv, MessagesInv, SessionInv, Table,
         Sound, Formed, Told, Placed
<1> QED
  BY <1>1, MessageInvariant, PTL

\* A delivery and those that retry it reach the provider once, but for messages
\* that it reported as failed: the rows that are dead hold, with a row, the row
\* it retries, so they hold every ancestor of a row; and a row that was posted
\* once is posted by nobody else (claimWhatsAppInTransaction,
\* failedRetryAncestors).
THEOREM NoDuplicateAlways == Spec => []NoDuplicate
<1>1. ASSUME MessageInv PROVE NoDuplicate
  <2> SUFFICES ASSUME NEW m \in DOMAIN messages, NEW n \in DOMAIN messages, m < n,
                      messages[m].row \in {messages[n].row} \cup Ancestors(rows, messages[n].row)
               PROVE  "FAILED" \in messages[m].past
    BY DEF NoDuplicate
  <2>1. /\ DispatchInv /\ RetryInv /\ messages[n].row \in DOMAIN rows
        /\ DOMAIN messages \subseteq Nat
    BY <1>1, LenProperties DEF MessageInv, DeliveryInv, TypeInv, MessagesInv
  <2>2. messages[m].row # messages[n].row
    BY <2>1 DEF DispatchInv
  <2> DEFINE S == {a \in DOMAIN rows : Dead(a)}
  <2>3. \A b \in S \cup {messages[n].row} : rows[b].retryOf \in S \cup {0}
    BY <2>1 DEF RetryInv
  <2>4. messages[m].row \in S
    BY <2>2, <2>3 DEF Ancestors
  <2> QED
    BY <2>4 DEF Dead
<1> QED
  BY <1>1, MessageInvariant, PTL

\* The provider is given the text that was approved (the approval, the
\* refreshes and the claim each rewrite the row).
THEOREM ApprovalCoversTextAlways == Spec => []ApprovalCoversText
<1>1. MessageInv => ApprovalCoversText
  BY DEF MessageInv, TypeInv, RowsInv, Table, Sound, DeliveryInv, ApprovalInv, ApprovalCoversText
<1> QED
  BY <1>1, MessageInvariant, PTL

\* A reported status is never taken back, in whatever order the callbacks and
\* the answer to the dispatch arrive (storeYCloudDeliveryEvent).
THEOREM ReportsAreKeptAlways == Spec => []ReportsAreKept
<1>1. MessageInv => ReportsAreKept
  BY DEF MessageInv, DeliveryInv
<1> QED
  BY <1>1, MessageInvariant, PTL

\* What is claimed is what the business says at that moment, for a customer
\* who still agrees (dispatchWhatsAppDelivery refreshes in the transaction of
\* the claim).
ClaimIsCurrent ==
  \A r \in DOMAIN rows : rows[r].status # "SENDING" /\ rows'[r].status = "SENDING" =>
    /\ rows'[r].text = Live /\ source # "Deleting" /\ consent # "Out"
    /\ \A a \in Ancestors(rows, r) : rows[a].status = "FAILED"

THEOREM ClaimedIsCurrentAlways == Spec => ClaimedIsCurrent
<1>1. ASSUME MessageInv, [Next]_vars PROVE [ClaimIsCurrent]_vars
  <2> SUFFICES ASSUME NEW r \in DOMAIN rows, rows[r].status # "SENDING", rows'[r].status = "SENDING"
               PROVE  /\ rows'[r].text = Live /\ source # "Deleting" /\ consent # "Out"
                      /\ \A a \in Ancestors(rows, r) : rows[a].status = "FAILED"
    BY DEF ClaimIsCurrent
  <2>1. Step
    BY <1>1, NextSteps DEF MessageInv, DeliveryInv
  <2>2. ~Rewriting
    BY DEF Rewriting, Rewrites, Editable
  <2>3. rows' # rows /\ rows'[r] # rows[r]
    OBVIOUS
  <2>4. ~Adding /\ ~Reporting /\ ~UNCHANGED vars
    BY <2>3 DEF Adding, Reporting, vars
  <2>5. ~\E x : Moving(x)
    BY <2>3 DEF Moving, Only
  <2>6. ~\E w \in Workers : Checking(w) \/ Answering(w)
    BY <2>3 DEF Checking, Answering
  <2>7. PICK w \in Workers : Claiming(w, r)
    BY <2>1, <2>2, <2>3, <2>4, <2>5, <2>6 DEF Step, Claiming, Only
  <2> QED
    BY <2>7 DEF Claiming, AncestorsFailed, IsExplicitFailure
<1> QED
  BY <1>1, MessageInvariant, PTL DEF Spec, ClaimedIsCurrent, ClaimIsCurrent
=============================================================================
