---------------------------- MODULE ContractProofs ----------------------------
(***************************************************************************)
(* Theorems about ContractSync, for any identities, order numbers and runs *)
(* of the synchronisation, any size of a page of the feed, and any number  *)
(* of events, rows, previews, edits, crashes and ended leases.             *)
(***************************************************************************)
EXTENDS ContractSync, FiniteSetTheorems, WellFoundedInduction, TLAPS

Event == [pi : PIs, no : OrderNos, active : BOOLEAN, ok : BOOLEAN]
Row   == [no : OrderNos, live : BOOLEAN, touched : BOOLEAN, cust : {"none", "sync", "human"}]
Modes == {"-", "SYNC", "MANUAL"}
Matches == Resolutions \cup {"-", "MATCHED", "UNMATCHED", "CONFLICT"}
Link  == [ver : Nat, row : Nat, no : OrderNos \cup {"-"}, mode : Modes, active : BOOLEAN,
          edited : BOOLEAN, match : Matches]
Types == {"SOURCE_LINK", "ORDER_NO", "HUMAN_EDITED", "CUSTOMER", "INVALID"}

Stages == {"idle", "wait", "fetch", "apply", "check", "chunk"}

\* What a run holds in memory.
Task(x) ==
  /\ x \in [pc : Stages, cursor : 0..Len(log), upto : 0..Len(log), more : BOOLEAN, at : Nat,
            plan : {x.plan}]
  /\ x.plan.hw \in -1..Len(log)

FeedInv ==
  /\ log \in Seq(Event) /\ Len(log) <= MaxEvents
  /\ received \subseteq 1..Len(log) /\ committed \in 0..Len(log)
  /\ rec = [hw |-> rec.hw, at |-> rec.at] /\ rec.hw \in -1..Len(log) /\ rec.at \in Nat
  /\ run = [r \in Runs |-> run[r]] /\ \A r \in Runs : Task(run[r])

LeaseInv == lease \in [owner : Runs \cup {NoRun, Ghost}, expired : BOOLEAN]

\* The open transaction belongs to a run that is about to apply an event or an item.
AtWork(r) ==
  \/ run[r].pc = "apply" /\ run[r].cursor < run[r].upto
  \/ run[r].pc = "chunk" /\ Left(r) # {}

TxInv ==
  \/ tx = NoTx
  \/ /\ tx.run \in Runs /\ AtWork(tx.run)
     /\ tx = [run |-> tx.run, rows |-> tx.rows, link |-> tx.link]

\* What event i says of its PI has reached the link.
Reached(i) == link[log[i].pi].ver >= Version(i)
Done(c) == \A i \in 1..c : log[i].ok => Reached(i)
Applied(hw, at) == \A i \in 1..hw : log[i].pi <= at => Reached(i)

\* Every cursor stands behind events that are done, and a reconcile behind
\* items that are applied, also when it is resumed by another run.
DoneInv ==
  /\ Done(committed)
  /\ \A i \in received : log[i].ok => Reached(i)
  /\ \A r \in Runs : Done(run[r].cursor)
  /\ \A r \in Runs : run[r].pc = "chunk" => Applied(run[r].plan.hw, run[r].at)
  /\ Applied(rec.hw, rec.at)

StoreInv ==
  /\ rows \in Seq(Row)
  /\ link \in [PIs -> Link] /\ \A p \in PIs : link[p].row <= Len(rows) /\ link[p].ver <= MaxEvents
  /\ open \in [PIs -> SUBSET Types]

\* The snapshot of the open transaction differs from the rows as they are now
\* in what people may have done since, which is neither to move a link nor to
\* rename or archive a row.
SnapshotInv ==
  tx # NoTx =>
    /\ tx.rows \in Seq(Row) /\ Len(tx.rows) <= Len(rows)
    /\ \A k \in DOMAIN tx.rows : /\ tx.rows[k].no = rows[k].no
                                 /\ tx.rows[k].live <=> rows[k].live
    /\ tx.link \in [PIs -> Link]
    /\ \A p \in PIs : /\ tx.link[p].row = link[p].row /\ tx.link[p].ver = link[p].ver
                      /\ tx.link[p].row <= Len(tx.rows)
                      /\ tx.link[p].active <=> link[p].active

\* A row is shown by one PI at most.
OneHolder == \A p, q \in PIs : link[p].row = link[q].row /\ link[p].row # NoRow => p = q

\* Without overlap, the snapshot is what the rows still are ...
FreshInv == ~Overlap /\ tx # NoTx => tx.rows = rows /\ tx.link = link

\* ... and a row that the synchronisation made and a person touched is marked.
MarkedInv ==
  \A p \in PIs : /\ link[p].row # NoRow
                 /\ link[p].mode = "SYNC"
                 /\ rows[link[p].row].touched
                 => link[p].edited

SyncInv == FeedInv /\ LeaseInv /\ TxInv /\ DoneInv /\ StoreInv
ShownInv == SnapshotInv /\ OneHolder /\ LinksAreLive /\ NoSilentGap
-----------------------------------------------------------------------------
(* The log: least and latest elements, versions. *)

LEMMA Least ==
  ASSUME NEW S \in SUBSET Nat, S # {}
  PROVE  \E x \in S : \A y \in S : x <= y
<1> DEFINE R == OpToRel(<, Nat)
<1>1. \E x \in S : \A y \in S : <<y, x>> \notin R
  BY NatLessThanWellFounded, WFMin
<1>2. PICK x \in S : \A y \in S : <<y, x>> \notin R
  BY <1>1
<1>3. \A y \in S : ~(y < x)
  BY <1>2 DEF OpToRel
<1> QED BY <1>3

LEMMA Latest ==
  ASSUME NEW n \in Nat, NEW S \in SUBSET (1..n), S # {}
  PROVE  \E x \in S : \A y \in S : y <= x
<1> DEFINE T == {t \in Nat : n - t \in S}
<1>1. \A y \in S : n - y \in T
  OBVIOUS
<1>2. T \in SUBSET Nat /\ T # {}
  BY <1>1
<1> HIDE DEF T
<1>3. PICK t \in T : \A u \in T : t <= u
  BY <1>2, Least
<1>4. n - t \in S /\ \A y \in S : t <= n - y
  BY <1>1, <1>3 DEF T
<1>5. \A y \in S : y <= n - t
  BY <1>2, <1>3, <1>4
<1> QED BY <1>4, <1>5

Earlier(i) == {j \in 1..i : log[j].pi = log[i].pi}

LEMMA VersionType ==
  ASSUME log \in Seq(Event), NEW i \in 1..Len(log)
  PROVE  Version(i) \in Nat /\ Version(i) <= Len(log)
<1>1. IsFiniteSet(1..i) /\ Cardinality(1..i) = i
  BY FS_Interval
<1>2. Earlier(i) \in SUBSET (1..i) /\ Version(i) = Cardinality(Earlier(i))
  BY DEF Earlier, Version
<1>3. IsFiniteSet(Earlier(i)) /\ Cardinality(Earlier(i)) <= i
  BY <1>1, <1>2, FS_Subset
<1>4. Cardinality(Earlier(i)) \in Nat
  BY <1>3, FS_CardinalityType
<1> QED BY <1>2, <1>3, <1>4

LEMMA VersionsAscend ==
  ASSUME log \in Seq(Event), NEW i \in 1..Len(log), NEW j \in 1..i, log[j].pi = log[i].pi
  PROVE  Version(j) <= Version(i)
<1>1. IsFiniteSet(1..i)
  BY FS_Interval
<1>2. Earlier(i) \in SUBSET (1..i) /\ Earlier(j) \in SUBSET Earlier(i)
  BY DEF Earlier
<1>3. IsFiniteSet(Earlier(i))
  BY <1>1, <1>2, FS_Subset
<1>4. Cardinality(Earlier(j)) <= Cardinality(Earlier(i))
  BY <1>2, <1>3, FS_Subset
<1> QED BY <1>4 DEF Earlier, Version

\* The latest event of a PI up to a high watermark has the highest version.
LEMMA ItemIndexFacts ==
  ASSUME log \in Seq(Event), NEW hw \in 0..Len(log), NEW p \in Items(hw)
  PROVE  /\ ItemIndex(p, hw) \in 1..hw /\ log[ItemIndex(p, hw)].pi = p
         /\ \A i \in 1..hw : log[i].pi = p => Version(i) <= Version(ItemIndex(p, hw))
<1> DEFINE S == {i \in 1..hw : log[i].pi = p}
           n == ItemIndex(p, hw)
<1>1. S \in SUBSET (1..hw) /\ S # {} /\ hw \in Nat
  BY DEF Items
<1> HIDE DEF S
<1>2. PICK x \in S : \A y \in S : y <= x
  BY <1>1, Latest
<1> USE DEF S
<1>3. x \in 1..hw /\ log[x].pi = p /\ \A j \in (x + 1)..hw : log[j].pi # p
  BY <1>2
<1>4. n \in 1..hw /\ log[n].pi = p /\ \A j \in (n + 1)..hw : log[j].pi # p
  BY <1>3 DEF ItemIndex
<1>5. \A i \in 1..hw : log[i].pi = p => Version(i) <= Version(n)
  <2> SUFFICES ASSUME NEW i \in 1..hw, log[i].pi = p PROVE Version(i) <= Version(n)
    OBVIOUS
  <2>1. i \in 1..n
    BY <1>4
  <2> QED BY <1>4, <2>1, VersionsAscend
<1> QED BY <1>4, <1>5

LEMMA ItemsArePIs ==
  ASSUME log \in Seq(Event), NEW hw \in 0..Len(log)
  PROVE  Items(hw) \subseteq PIs
<1> SUFFICES ASSUME NEW i \in 1..hw PROVE log[i].pi \in PIs
  BY DEF Items
<1>1. i \in 1..Len(log)
  OBVIOUS
<1>2. log[i] \in Event
  BY <1>1
<1> QED BY <1>2 DEF Event

LEMMA NextItemFacts ==
  ASSUME NEW r \in Runs, log \in Seq(Event), run[r].plan.hw \in 0..Len(log), Left(r) # {}
  PROVE  /\ NextItem(r) \in Left(r) /\ NextItem(r) \in Items(run[r].plan.hw) /\ NextItem(r) \in PIs
         /\ \A q \in Left(r) : NextItem(r) <= q
<1>1. Items(run[r].plan.hw) \subseteq PIs
  BY ItemsArePIs
<1>2. Left(r) \in SUBSET Nat /\ Left(r) \subseteq Items(run[r].plan.hw)
  BY <1>1, PIsAssumption DEF Left
<1>3. PICK x \in Left(r) : \A q \in Left(r) : x <= q
  BY <1>2, Least
<1>4. NextItem(r) \in Left(r) /\ \A q \in Left(r) : NextItem(r) <= q
  BY <1>3 DEF NextItem
<1> QED BY <1>1, <1>2, <1>4
-----------------------------------------------------------------------------
(* What an applied state may decide, as seen from the snapshot. *)

Choice(d) ==
  /\ d.row \in Nat \cup {NewRow} /\ d.mode \in Modes /\ d.match \in Matches /\ d.archive \in Nat
  /\ d.detach \subseteq PIs /\ d.conflict \subseteq Types

Same(d) == d.archive = NoRow /\ d.rename = FALSE /\ d.detach = {}

\* A row is made; an existing row of that number is attached, perhaps instead of
\* the one shown before; the administrator is told of a conflict; nothing
\* changes; the row shown is renamed or its customer looked for.
Creates(d, p) ==
  /\ tx.link[p].row = NoRow
  /\ d.row = NewRow /\ d.mode = "SYNC" /\ Same(d) /\ d.conflict = {}

Attaches(d, p, e) ==
  /\ d.row \in DOMAIN tx.rows /\ tx.rows[d.row].live /\ tx.rows[d.row].no = e.no
  /\ d.mode = "MANUAL" /\ d.rename = FALSE /\ d.resolve = FALSE /\ d.conflict = {}
  /\ d.detach = Holders(tx, p, d.row) /\ ~Blocked(tx, p, d.row)
  /\ d.archive = tx.link[p].row /\ d.archive # d.row
  /\ d.archive # NoRow => MayTransfer(tx, p)

Collides(d, p) ==
  /\ d.row = tx.link[p].row /\ Same(d) /\ d.resolve = FALSE
  /\ d.row # NoRow => d.mode = tx.link[p].mode
  /\ d.conflict \cap {"SOURCE_LINK", "ORDER_NO", "HUMAN_EDITED"} # {}

Rests(d, p, e) ==
  /\ ~e.active /\ d.row = tx.link[p].row /\ d.row # NoRow
  /\ d.mode = tx.link[p].mode /\ Same(d) /\ d.resolve = FALSE /\ d.conflict = {}

Renames(d, p, e) ==
  /\ d.row = tx.link[p].row /\ d.row # NoRow /\ d.mode = tx.link[p].mode
  /\ d.archive = NoRow /\ d.detach = {} /\ d.conflict = {}
  /\ d.rename <=> tx.rows[d.row].no # e.no
  /\ d.resolve => tx.rows[d.row].cust = "none"

LEMMA RowOfFacts ==
  ASSUME NEW s, s.rows \in Seq(Row), NEW no, RowOf(s, no) # NoRow
  PROVE  /\ RowOf(s, no) \in DOMAIN s.rows
         /\ s.rows[RowOf(s, no)].live /\ s.rows[RowOf(s, no)].no = no
BY DEF RowOf

LEMMA RowMatchType == ASSUME NEW s, NEW k PROVE RowMatch(s, k) \in Matches
BY DEF RowMatch, Matches

LEMMA DecideKinds ==
  ASSUME NEW p \in PIs, NEW e \in Event, tx.rows \in Seq(Row), tx.link \in [PIs -> Link]
  PROVE  LET d == Decide(tx, p, e)
         IN  /\ Choice(d)
             /\ \/ Creates(d, p) \/ Attaches(d, p, e) \/ Collides(d, p)
                \/ Rests(d, p, e) \/ Renames(d, p, e)
<1> DEFINE k == RowOf(tx, e.no)
           l == tx.link[p]
<1>1. l \in Link
  OBVIOUS
<1>2. LET x == Keep(tx, p)
      IN  /\ x.row = l.row /\ x.mode = l.mode /\ x.match = l.match /\ x.archive = NoRow
          /\ x.rename = FALSE /\ x.detach = {} /\ x.conflict = {} /\ x.resolve = FALSE
  BY DEF Keep
<1>3. ASSUME NEW type \in {"SOURCE_LINK", "ORDER_NO", "HUMAN_EDITED"}
      PROVE  LET x == Collision(tx, p, type)
             IN  /\ x.row = l.row /\ x.mode = l.mode /\ x.match = "CONFLICT" /\ x.archive = NoRow
                 /\ x.rename = FALSE /\ x.detach = {} /\ x.conflict = {type} /\ x.resolve = FALSE
  BY DEF Collision, Keep
<1>4. ASSUME NEW type \in {"SOURCE_LINK", "ORDER_NO", "HUMAN_EDITED"}
      PROVE  Choice(Collision(tx, p, type)) /\ Collides(Collision(tx, p, type), p)
  <2> DEFINE x == Collision(tx, p, type)
  <2>1. /\ x.row = l.row /\ x.mode = l.mode /\ x.match = "CONFLICT" /\ x.archive = NoRow
        /\ x.rename = FALSE /\ x.detach = {} /\ x.conflict = {type} /\ x.resolve = FALSE
    BY <1>3
  <2>2. Choice(x)
    BY <1>1, <2>1 DEF Choice, Link, Matches, Types, NoRow
  <2>3. type \in x.conflict \cap {"SOURCE_LINK", "ORDER_NO", "HUMAN_EDITED"}
    BY <2>1
  <2>4. Collides(x, p)
    BY <2>1, <2>3 DEF Collides, Same
  <2> QED BY <2>2, <2>4
<1>5. k # NoRow => k \in DOMAIN tx.rows /\ tx.rows[k].live /\ tx.rows[k].no = e.no /\ k \in Nat
  BY RowOfFacts
<1>6. RowMatch(tx, k) \in Matches /\ RowMatch(tx, l.row) \in Matches
  BY RowMatchType
<1>7. Holders(tx, p, k) \in SUBSET PIs
  BY DEF Holders
<1>8. CASE l.row = NoRow
  <2>1. Decide(tx, p, e) = CreateOrAttach(tx, p, e)
    BY <1>8 DEF Decide
  <2>2. CASE k = NoRow
    <3>1. LET x == CreateOrAttach(tx, p, e)
          IN  /\ x.row = NewRow /\ x.mode = "SYNC" /\ x.match = l.match /\ x.archive = NoRow
              /\ x.rename = FALSE /\ x.detach = {} /\ x.conflict = {} /\ x.resolve = TRUE
      BY <2>2 DEF CreateOrAttach, Keep
    <3> QED BY <2>1, <3>1, <1>1, <1>8 DEF Choice, Link, Creates, Same, Modes, NoRow
  <2>3. CASE k # NoRow /\ Blocked(tx, p, k)
    <3> DEFINE mode == IF l.ver = 0 THEN "SYNC" ELSE l.mode
    <3>1. LET x == CreateOrAttach(tx, p, e)
          IN  /\ x.row = l.row /\ x.mode = mode /\ x.match = "CONFLICT" /\ x.archive = NoRow
              /\ x.rename = FALSE /\ x.detach = {} /\ x.conflict = {"SOURCE_LINK"} /\ x.resolve = FALSE
      BY <2>3 DEF CreateOrAttach, Collision, Keep
    <3>2. mode \in Modes
      BY <1>1 DEF Link, Modes
    <3> QED BY <2>1, <3>1, <3>2, <1>1, <1>8 DEF Choice, Link, Collides, Same, NoRow, Matches, Types
  <2>4. CASE k # NoRow /\ ~Blocked(tx, p, k)
    <3>1. LET x == CreateOrAttach(tx, p, e)
          IN  /\ x.row = k /\ x.mode = "MANUAL" /\ x.match = RowMatch(tx, k) /\ x.archive = NoRow
              /\ x.rename = FALSE /\ x.detach = Holders(tx, p, k) /\ x.conflict = {} /\ x.resolve = FALSE
      BY <2>4 DEF CreateOrAttach, Keep
    <3> DEFINE d == Decide(tx, p, e)
    <3>2. Choice(d)
      BY <2>1, <3>1, <1>5, <1>6, <1>7, <2>4 DEF Choice, Modes, NoRow
    <3>3. Attaches(d, p, e)
      BY <2>1, <2>4, <3>1, <1>5, <1>8 DEF Attaches
    <3> QED BY <3>2, <3>3
  <2> QED BY <2>2, <2>3, <2>4
<1>9. CASE l.row # NoRow /\ ~e.active
  <2>1. Decide(tx, p, e) = Keep(tx, p)
    BY <1>9 DEF Decide
  <2> QED BY <2>1, <1>1, <1>2, <1>9 DEF Choice, Link, Rests, Same, NoRow
<1>10. CASE l.row # NoRow /\ e.active /\ k \notin {NoRow, l.row}
  <2>1. Decide(tx, p, e) = RenameOnto(tx, p, k)
    BY <1>10 DEF Decide
  <2>2. CASE Blocked(tx, p, k)
    BY <2>1, <2>2, <1>4 DEF RenameOnto
  <2>3. CASE ~Blocked(tx, p, k) /\ MayTransfer(tx, p)
    <3>1. LET x == RenameOnto(tx, p, k)
          IN  /\ x.row = k /\ x.mode = "MANUAL" /\ x.match = RowMatch(tx, k) /\ x.archive = l.row
              /\ x.rename = FALSE /\ x.detach = Holders(tx, p, k) /\ x.conflict = {} /\ x.resolve = FALSE
      BY <2>3 DEF RenameOnto, Keep
    <3>2. l.row \in Nat
      BY <1>1 DEF Link
    <3> DEFINE d == Decide(tx, p, e)
    <3>3. Choice(d)
      BY <2>1, <3>1, <3>2, <1>5, <1>6, <1>7, <1>10 DEF Choice, Modes
    <3>4. Attaches(d, p, e)
      BY <2>1, <2>3, <3>1, <1>5, <1>10 DEF Attaches
    <3> QED BY <3>3, <3>4
  <2>4. CASE ~Blocked(tx, p, k) /\ ~MayTransfer(tx, p)
    BY <2>1, <2>4, <1>4 DEF RenameOnto
  <2> QED BY <2>2, <2>3, <2>4
<1>11. CASE l.row # NoRow /\ e.active /\ k \in {NoRow, l.row}
  <2>1. Decide(tx, p, e) = RenameInPlace(tx, p, e)
    BY <1>11 DEF Decide
  <2> DEFINE retry == l.mode = "SYNC" /\ tx.rows[l.row].cust = "none"
  <2>2. LET x == RenameInPlace(tx, p, e)
        IN  /\ x.row = l.row /\ x.mode = l.mode /\ x.match = RowMatch(tx, l.row) /\ x.archive = NoRow
            /\ (x.rename <=> tx.rows[l.row].no # e.no) /\ x.detach = {} /\ x.conflict = {} /\ x.resolve = retry
    BY DEF RenameInPlace, Keep
  <2> DEFINE d == Decide(tx, p, e)
  <2>3. Choice(d)
    BY <2>1, <2>2, <1>1, <1>6 DEF Choice, Link, NoRow
  <2>4. Renames(d, p, e)
    BY <2>1, <2>2, <1>11 DEF Renames
  <2> QED BY <2>3, <2>4
<1> QED BY <1>8, <1>9, <1>10, <1>11
-----------------------------------------------------------------------------
(* What a decision writes. *)

RowsWritten(d, e) ==
  /\ rows' \in Seq(Row)
  /\ Len(rows') = Len(rows) + (IF d.row = NewRow THEN 1 ELSE 0)
  /\ \A k \in DOMAIN rows :
       /\ rows'[k].live <=> rows[k].live /\ k # d.archive
       /\ rows'[k].no = IF d.rename /\ k = d.row THEN e.no ELSE rows[k].no
       /\ rows'[k].touched <=> rows[k].touched
       /\ ~(d.resolve /\ k = d.row) => rows'[k].cust = rows[k].cust
  /\ d.row = NewRow => /\ rows'[Len(rows) + 1].live /\ ~rows'[Len(rows) + 1].touched
                       /\ rows'[Len(rows) + 1].no = e.no

LEMMA RowsWrittenFacts ==
  ASSUME StoreInv, NEW p \in PIs, NEW e \in Event, NEW d, Choice(d), NEW res,
         rows' = WriteRows(d, p, e, res)
  PROVE  RowsWritten(d, e)
<1> DEFINE row(k) == [rows[k] EXCEPT
                        !.live = @ /\ k # d.archive,
                        !.no = IF d.rename /\ k = d.row THEN e.no ELSE @,
                        !.cust = IF d.resolve /\ k = d.row /\ res = "MATCHED" THEN "sync" ELSE @]
           kept == [k \in DOMAIN rows |-> row(k)]
           new == [no |-> e.no, live |-> TRUE, touched |-> FALSE,
                   cust |-> IF res = "MATCHED" THEN "sync" ELSE "none"]
<1>1. rows' = IF d.row = NewRow THEN Append(kept, new) ELSE kept
  BY DEF WriteRows
<1>2. rows \in Seq(Row) /\ DOMAIN rows = 1..Len(rows) /\ Len(rows) \in Nat
  BY DEF StoreInv
<1>3. e.no \in OrderNos
  BY DEF Event
<1>4. ASSUME NEW k \in DOMAIN rows
      PROVE  /\ row(k) \in Row
             /\ row(k).live <=> rows[k].live /\ k # d.archive
             /\ row(k).no = IF d.rename /\ k = d.row THEN e.no ELSE rows[k].no
             /\ row(k).touched <=> rows[k].touched
             /\ ~(d.resolve /\ k = d.row) => row(k).cust = rows[k].cust
  <2>1. rows[k] \in Row
    BY <1>2
  <2>2. /\ row(k).live <=> rows[k].live /\ k # d.archive
        /\ row(k).touched <=> rows[k].touched
    BY <2>1 DEF Row
  <2>3. /\ row(k).no = IF d.rename /\ k = d.row THEN e.no ELSE rows[k].no
        /\ ~(d.resolve /\ k = d.row) => row(k).cust = rows[k].cust
    BY <2>1 DEF Row
  <2>4. row(k) \in Row
    BY <2>1, <1>3 DEF Row
  <2> QED BY <2>2, <2>3, <2>4
<1>5. new \in Row
  BY <1>3 DEF Row
<1> HIDE DEF row, new
<1>6. kept \in Seq(Row) /\ Len(kept) = Len(rows) /\ \A k \in DOMAIN rows : kept[k] = row(k)
  BY <1>2, <1>4
<1>7. CASE d.row # NewRow
  BY <1>1, <1>4, <1>6, <1>7 DEF RowsWritten
<1>8. CASE d.row = NewRow
  <2> HIDE DEF kept
  <2>1. /\ rows' \in Seq(Row) /\ Len(rows') = Len(rows) + 1
        /\ \A k \in DOMAIN rows : rows'[k] = row(k)
        /\ rows'[Len(rows) + 1] = new
    BY <1>1, <1>2, <1>5, <1>6, <1>8
  <2>2. new.live /\ ~new.touched /\ new.no = e.no
    BY DEF new
  <2> QED BY <1>4, <1>8, <2>1, <2>2 DEF RowsWritten
<1> QED BY <1>7, <1>8

LinksWritten(d, p, e, v) ==
  /\ link' \in [PIs -> Link]
  /\ link'[p].ver = v /\ link'[p].no = e.no /\ (link'[p].active <=> e.active)
  /\ link'[p].mode = d.mode /\ (link'[p].edited <=> link[p].edited)
  /\ link'[p].row = IF d.row = NewRow THEN Len(rows) + 1 ELSE d.row
  /\ \A q \in PIs \ {p} :
       /\ link'[q].ver = link[q].ver /\ link'[q].no = link[q].no
       /\ link'[q].active <=> link[q].active
       /\ link'[q].mode = link[q].mode /\ (link'[q].edited <=> link[q].edited)
       /\ link'[q].row = IF q \in d.detach THEN NoRow ELSE link[q].row

LEMMA LinksWrittenFacts ==
  ASSUME StoreInv, NEW p \in PIs, NEW e \in Event, NEW d, Choice(d), NEW v \in Nat,
         NEW res \in Resolutions \cup {"-"}, link' = WriteLink(d, p, e, v, res)
  PROVE  LinksWritten(d, p, e, v)
<1> DEFINE mine == [ver |-> v, no |-> e.no, active |-> e.active, edited |-> link[p].edited,
                    mode |-> d.mode, match |-> IF d.resolve THEN res ELSE d.match,
                    row |-> IF d.row = NewRow THEN Len(rows) + 1 ELSE d.row]
           other(q) == [link[q] EXCEPT !.row = IF q \in d.detach THEN NoRow ELSE @]
<1>1. link' = [q \in PIs |-> IF q = p THEN mine ELSE other(q)]
  BY DEF WriteLink
<1>2. Len(rows) \in Nat /\ link[p] \in Link
  BY DEF StoreInv
<1>3. mine \in Link
  <2>1. mine.row \in Nat
    BY <1>2 DEF Choice
  <2>2. mine.match \in Matches
    BY DEF Choice, Matches
  <2>3. mine.mode \in Modes /\ mine.no \in OrderNos /\ mine.active \in BOOLEAN
        /\ mine.edited \in BOOLEAN
    BY <1>2 DEF Choice, Event, Link
  <2> QED BY <2>1, <2>2, <2>3 DEF Link
<1>4. ASSUME NEW q \in PIs
      PROVE  /\ other(q) \in Link
             /\ other(q).ver = link[q].ver /\ other(q).no = link[q].no
             /\ other(q).active <=> link[q].active
             /\ other(q).mode = link[q].mode /\ (other(q).edited <=> link[q].edited)
             /\ other(q).row = IF q \in d.detach THEN NoRow ELSE link[q].row
  <2>1. link[q] \in Link
    BY DEF StoreInv
  <2> QED BY <2>1 DEF Link, NoRow
<1>5. /\ mine.ver = v /\ mine.no = e.no /\ (mine.active <=> e.active) /\ mine.mode = d.mode
      /\ mine.edited <=> link[p].edited
      /\ mine.row = IF d.row = NewRow THEN Len(rows) + 1 ELSE d.row
  OBVIOUS
<1> HIDE DEF mine, other
<1>6. link' \in [PIs -> Link]
  BY <1>1, <1>3, <1>4
<1>7. link'[p] = mine /\ \A q \in PIs \ {p} : link'[q] = other(q)
  BY <1>1
<1> QED BY <1>4, <1>5, <1>6, <1>7 DEF LinksWritten
-----------------------------------------------------------------------------
(* A state of the source applied: what holds of the rows and links holds after it. *)

VersionsRise == \A q \in PIs : link'[q].ver >= link[q].ver

WorkKept ==
  \A k \in DOMAIN rows :
    /\ rows[k].live /\ rows[k].touched => rows'[k].live
    /\ rows[k].cust = "human" => rows'[k].cust = "human"

LEMMA WrittenKeepsRows ==
  ASSUME StoreInv, ShownInv, tx # NoTx, NEW p \in PIs, NEW e \in Event, NEW d, Choice(d),
         NEW v \in Nat, v <= MaxEvents,
         Creates(d, p) \/ Attaches(d, p, e) \/ Collides(d, p) \/ Rests(d, p, e) \/ Renames(d, p, e),
         RowsWritten(d, e), LinksWritten(d, p, e, v)
  PROVE  /\ \A q \in PIs : link'[q].row <= Len(rows') /\ link'[q].ver <= MaxEvents
         /\ OneHolder' /\ LinksAreLive'
<1>1. Len(rows) \in Nat /\ Len(rows') \in Nat /\ DOMAIN rows = 1..Len(rows)
  BY DEF StoreInv, RowsWritten
<1>2. ASSUME NEW q \in PIs
      PROVE  /\ link[q].row \in 0..Len(rows) /\ link[q].ver <= MaxEvents
             /\ tx.link[q].row = link[q].row
             /\ link[q].row # NoRow => link[q].row \in DOMAIN rows /\ rows[link[q].row].live
  <2>1. link[q] \in Link
    BY DEF StoreInv
  <2>2. link[q].row \in 0..Len(rows) /\ link[q].ver <= MaxEvents
    BY <1>1, <2>1 DEF StoreInv, Link
  <2>3. tx.link[q].row = link[q].row
    BY DEF ShownInv, SnapshotInv
  <2>4. link[q].row # NoRow => rows[link[q].row].live
    BY DEF ShownInv, LinksAreLive
  <2> QED BY <1>1, <2>2, <2>3, <2>4 DEF NoRow
<1>3. ASSUME Attaches(d, p, e)
      PROVE  /\ d.row \in DOMAIN rows /\ rows[d.row].live /\ d.row # NoRow /\ d.row # NewRow
             /\ \A q \in PIs \ {p} : link[q].row = d.row => q \in d.detach
             /\ d.archive = link[p].row
  <2>1. tx.rows \in Seq(Row) /\ Len(tx.rows) <= Len(rows)
    BY DEF ShownInv, SnapshotInv
  <2>2. d.row \in DOMAIN tx.rows /\ tx.rows[d.row].live
    BY <1>3 DEF Attaches
  <2>3. d.row \in DOMAIN rows /\ d.row # NoRow /\ d.row # NewRow
    BY <1>1, <2>1, <2>2 DEF NoRow, NewRow
  <2>4. rows[d.row].live
    BY <2>2 DEF ShownInv, SnapshotInv
  <2>5. \A q \in PIs \ {p} : link[q].row = d.row => q \in d.detach
    BY <1>2, <1>3, <2>3 DEF Attaches, Holders
  <2> QED BY <1>2, <1>3, <2>3, <2>4, <2>5 DEF Attaches
<1>4. CASE Attaches(d, p, e)
  <2>1. link'[p].row = d.row /\ rows'[d.row].live /\ Len(rows') = Len(rows)
    <3>1. d.row # d.archive
      BY <1>4 DEF Attaches
    <3> QED BY <1>3, <1>4, <3>1, <1>1 DEF RowsWritten, LinksWritten
  <2>2. ASSUME NEW q \in PIs \ {p}
        PROVE  /\ link'[q].row = NoRow \/ link'[q].row = link[q].row
               /\ link'[q].row # d.row
               /\ link'[q].row # NoRow => link'[q].row # d.archive
    <3>1. link'[q].row = IF q \in d.detach THEN NoRow ELSE link[q].row
      BY DEF LinksWritten
    <3>2. link'[q].row # NoRow => link'[q].row # d.archive
      BY <3>1, <1>3, <1>4 DEF ShownInv, OneHolder
    <3> QED BY <3>1, <3>2, <1>3, <1>4
  <2>3. \A q \in PIs : link'[q].row <= Len(rows') /\ link'[q].ver <= MaxEvents
    BY <2>1, <2>2, <1>1, <1>2, <1>3, <1>4 DEF LinksWritten, NoRow
  <2>4. OneHolder'
    <3> SUFFICES ASSUME NEW q1 \in PIs, NEW q2 \in PIs, link'[q1].row = link'[q2].row,
                        link'[q1].row # NoRow
                 PROVE  q1 = q2
      BY DEF OneHolder
    <3>1. CASE q1 # p /\ q2 # p
      BY <3>1, <2>2 DEF ShownInv, OneHolder
    <3> QED BY <3>1, <2>1, <2>2
  <2>5. LinksAreLive'
    <3> SUFFICES ASSUME NEW q \in PIs, link'[q].row # NoRow PROVE rows'[link'[q].row].live
      BY DEF LinksAreLive
    <3>1. CASE q = p
      BY <3>1, <2>1
    <3>2. CASE q # p
      <4>1. link'[q].row = link[q].row /\ link'[q].row # d.archive
        BY <2>2, <3>2
      <4> QED BY <4>1, <1>2 DEF RowsWritten
    <3> QED BY <3>1, <3>2
  <2> QED BY <2>3, <2>4, <2>5
<1>5. CASE Creates(d, p)
  <2>1. /\ d.row = NewRow /\ d.archive = NoRow /\ d.detach = {}
        /\ link'[p].row = Len(rows) + 1 /\ Len(rows') = Len(rows) + 1 /\ rows'[Len(rows) + 1].live
    BY <1>5 DEF Creates, Same, RowsWritten, LinksWritten
  <2>2. \A q \in PIs \ {p} : link'[q].row = link[q].row
    BY <2>1 DEF LinksWritten
  <2>3. \A q \in PIs : link'[q].row <= Len(rows') /\ link'[q].ver <= MaxEvents
    BY <2>1, <2>2, <1>1, <1>2 DEF LinksWritten
  <2>4. OneHolder'
    <3> SUFFICES ASSUME NEW q1 \in PIs, NEW q2 \in PIs, link'[q1].row = link'[q2].row,
                        link'[q1].row # NoRow
                 PROVE  q1 = q2
      BY DEF OneHolder
    <3>1. CASE q1 # p /\ q2 # p
      BY <3>1, <2>2 DEF ShownInv, OneHolder
    <3> QED BY <3>1, <2>1, <2>2, <1>1, <1>2
  <2>5. LinksAreLive'
    <3> SUFFICES ASSUME NEW q \in PIs, link'[q].row # NoRow PROVE rows'[link'[q].row].live
      BY DEF LinksAreLive
    <3>1. CASE q = p
      BY <3>1, <2>1
    <3>2. CASE q # p
      BY <2>1, <2>2, <3>2, <1>2 DEF RowsWritten
    <3> QED BY <3>1, <3>2
  <2> QED BY <2>3, <2>4, <2>5
<1>6. CASE Collides(d, p) \/ Rests(d, p, e) \/ Renames(d, p, e)
  <2>1. d.row = link[p].row /\ d.archive = NoRow /\ d.detach = {}
    BY <1>2, <1>6 DEF Collides, Rests, Renames, Same
  <2>2. d.row # NewRow
    BY <1>1, <1>2, <2>1 DEF NewRow
  <2>3. Len(rows') = Len(rows) /\ \A q \in PIs : link'[q].row = link[q].row
    BY <1>1, <2>1, <2>2 DEF RowsWritten, LinksWritten
  <2>4. \A q \in PIs : link'[q].row <= Len(rows') /\ link'[q].ver <= MaxEvents
    BY <2>3, <1>1, <1>2 DEF LinksWritten
  <2>5. OneHolder'
    BY <2>3 DEF ShownInv, OneHolder
  <2>6. LinksAreLive'
    <3> SUFFICES ASSUME NEW q \in PIs, link'[q].row # NoRow PROVE rows'[link'[q].row].live
      BY DEF LinksAreLive
    <3> QED BY <2>1, <2>3, <1>2 DEF RowsWritten
  <2> QED BY <2>4, <2>5, <2>6
<1> QED BY <1>4, <1>5, <1>6

Shown(q) == link[q].row # NoRow /\ rows[link[q].row].live /\ rows[link[q].row].no = link[q].no
Told(q) == open[q] \cap {"SOURCE_LINK", "ORDER_NO", "HUMAN_EDITED"} # {}

LEMMA WrittenShowsOthers ==
  ASSUME StoreInv, ShownInv, tx # NoTx, NEW p \in PIs, NEW e \in Event, NEW d, Choice(d),
         NEW v \in Nat,
         Creates(d, p) \/ Attaches(d, p, e) \/ Collides(d, p) \/ Rests(d, p, e) \/ Renames(d, p, e),
         RowsWritten(d, e), LinksWritten(d, p, e, v),
         NEW q \in PIs \ {p}, link[q].active, Shown(q)
  PROVE  Shown(q)'
<1>1. /\ tx.link[p].row = link[p].row /\ tx.link[q].row = link[q].row /\ tx.link[q].active
  BY DEF ShownInv, SnapshotInv
<1>2. q \notin d.detach
  BY <1>1 DEF Creates, Attaches, Collides, Rests, Renames, Same, Blocked, Holders
<1>3. link[q].row # link[p].row
  BY DEF ShownInv, OneHolder, Shown
<1>4. link[q].row \in DOMAIN rows
  <2>1. link[q] \in Link /\ rows \in Seq(Row) /\ link[q].row <= Len(rows) /\ link[q].row # NoRow
    BY DEF StoreInv, Shown
  <2> QED BY <2>1 DEF Link, NoRow
<1>5. d.archive # link[q].row
  BY <1>1, <1>3 DEF Creates, Attaches, Collides, Rests, Renames, Same, Shown
<1>6. ~(d.rename /\ link[q].row = d.row)
  BY <1>1, <1>3 DEF Creates, Attaches, Collides, Rests, Renames, Same
<1>7. link'[q].row = link[q].row /\ link'[q].no = link[q].no
  BY <1>2 DEF LinksWritten
<1>8. rows'[link[q].row].live
  BY <1>4, <1>5 DEF RowsWritten, Shown
<1>9. rows'[link[q].row].no = rows[link[q].row].no
  BY <1>4, <1>6 DEF RowsWritten
<1> QED BY <1>7, <1>8, <1>9 DEF Shown

LEMMA WrittenShows ==
  ASSUME StoreInv, ShownInv, tx # NoTx, NEW p \in PIs, NEW e \in Event, NEW d, Choice(d),
         NEW v \in Nat, e.active,
         Creates(d, p) \/ Attaches(d, p, e) \/ Collides(d, p) \/ Rests(d, p, e) \/ Renames(d, p, e),
         RowsWritten(d, e), LinksWritten(d, p, e, v), ~Collides(d, p)
  PROVE  Shown(p)'
<1>1. Len(rows) \in Nat /\ DOMAIN rows = 1..Len(rows) /\ link'[p].no = e.no
  BY DEF StoreInv, LinksWritten
<1>2. /\ tx.rows \in Seq(Row) /\ Len(tx.rows) <= Len(rows)
      /\ \A k \in DOMAIN tx.rows : /\ tx.rows[k].no = rows[k].no
                                   /\ tx.rows[k].live <=> rows[k].live
      /\ tx.link[p] \in Link /\ tx.link[p].row <= Len(tx.rows) /\ tx.link[p].row = link[p].row
  BY DEF ShownInv, SnapshotInv
<1>3. CASE Creates(d, p)
  <2>1. d.row = NewRow /\ link'[p].row = Len(rows) + 1
    BY <1>3 DEF Creates, LinksWritten
  <2>2. rows'[Len(rows) + 1].live /\ rows'[Len(rows) + 1].no = e.no
    BY <2>1 DEF RowsWritten
  <2>3. Len(rows) + 1 # NoRow
    BY <1>1 DEF NoRow
  <2> QED BY <1>1, <2>1, <2>2, <2>3 DEF Shown
<1>4. CASE Attaches(d, p, e)
  <2>1. d.row \in DOMAIN tx.rows /\ tx.rows[d.row].live /\ tx.rows[d.row].no = e.no
        /\ d.row # d.archive /\ d.rename = FALSE
    BY <1>4 DEF Attaches
  <2>2. d.row \in DOMAIN rows /\ d.row # NoRow /\ d.row # NewRow
    BY <1>1, <1>2, <2>1 DEF NoRow, NewRow
  <2>3. rows[d.row].live /\ rows[d.row].no = e.no
    BY <1>2, <2>1
  <2>4. link'[p].row = d.row
    BY <2>2 DEF LinksWritten
  <2>5. rows'[d.row].live
    BY <2>1, <2>2, <2>3 DEF RowsWritten
  <2>6. rows'[d.row].no = e.no
    BY <2>1, <2>2, <2>3 DEF RowsWritten
  <2> QED BY <1>1, <2>2, <2>4, <2>5, <2>6 DEF Shown
<1>5. CASE Renames(d, p, e)
  <2>1. d.row = tx.link[p].row /\ d.row # NoRow /\ d.archive = NoRow
        /\ (d.rename <=> tx.rows[d.row].no # e.no)
    BY <1>5 DEF Renames
  <2>2. d.row \in DOMAIN tx.rows /\ d.row \in DOMAIN rows /\ d.row # NewRow
    BY <1>1, <1>2, <2>1 DEF NoRow, NewRow, Link
  <2>3. rows[d.row].live
    BY <1>2, <2>1 DEF ShownInv, LinksAreLive
  <2>4. link'[p].row = d.row
    BY <2>2 DEF LinksWritten
  <2>5. rows'[d.row].live
    BY <2>1, <2>2, <2>3 DEF RowsWritten
  <2>6. rows'[d.row].no = e.no
    BY <1>2, <2>1, <2>2 DEF RowsWritten
  <2> QED BY <1>1, <2>1, <2>4, <2>5, <2>6 DEF Shown
<1>6. CASE Rests(d, p, e)
  BY <1>6 DEF Rests
<1> QED BY <1>3, <1>4, <1>5, <1>6

LEMMA WrittenKeepsWork ==
  ASSUME StoreInv, ShownInv, FreshInv, MarkedInv, ~Overlap, tx # NoTx, NEW p \in PIs,
         NEW e \in Event, NEW d, Choice(d), NEW v \in Nat,
         Creates(d, p) \/ Attaches(d, p, e) \/ Collides(d, p) \/ Rests(d, p, e) \/ Renames(d, p, e),
         RowsWritten(d, e), LinksWritten(d, p, e, v)
  PROVE  MarkedInv' /\ WorkKept
<1>1. Len(rows) \in Nat /\ DOMAIN rows = 1..Len(rows) /\ tx.rows = rows /\ tx.link = link
  BY DEF StoreInv, FreshInv
<1>2. ASSUME NEW q \in PIs
      PROVE  link[q].row # NoRow => link[q].row \in DOMAIN rows
  <2>1. link[q] \in Link /\ link[q].row <= Len(rows)
    BY DEF StoreInv
  <2> QED BY <1>1, <2>1 DEF Link, NoRow
<1>3. MarkedInv'
  <2> SUFFICES ASSUME NEW q \in PIs, link'[q].row # NoRow, link'[q].mode = "SYNC",
                      rows'[link'[q].row].touched
               PROVE  link'[q].edited
    BY DEF MarkedInv
  <2>1. CASE q # p
    <3>1. /\ link'[q].row = link[q].row /\ link'[q].mode = link[q].mode
          /\ link'[q].edited <=> link[q].edited
      BY <2>1 DEF LinksWritten
    <3>2. rows[link[q].row].touched
      BY <3>1, <1>2 DEF RowsWritten
    <3> QED BY <3>1, <3>2 DEF MarkedInv
  <2>2. CASE q = p /\ Creates(d, p)
    <3>1. d.row = NewRow /\ link'[p].row = Len(rows) + 1
      BY <2>2 DEF Creates, LinksWritten
    <3> QED BY <2>2, <3>1 DEF RowsWritten
  <2>3. CASE q = p /\ Attaches(d, p, e)
    BY <2>3 DEF Attaches, LinksWritten
  <2>4. CASE q = p /\ (Collides(d, p) \/ Rests(d, p, e) \/ Renames(d, p, e))
    <3>1. d.row = link[p].row /\ (d.row # NoRow => d.mode = link[p].mode)
      BY <2>4, <1>1 DEF Collides, Rests, Renames
    <3>2. d.row # NewRow
      BY <3>1, <1>1, <1>2 DEF NoRow, NewRow
    <3>3. link'[p].row = link[p].row /\ link'[p].mode = d.mode /\ (link'[p].edited <=> link[p].edited)
      BY <3>1, <3>2 DEF LinksWritten
    <3>4. rows[link[p].row].touched
      BY <3>3, <2>4, <1>2 DEF RowsWritten
    <3> QED BY <2>4, <3>1, <3>3, <3>4 DEF MarkedInv
  <2> QED BY <2>1, <2>2, <2>3, <2>4
<1>4. WorkKept
  <2> SUFFICES ASSUME NEW k \in DOMAIN rows
               PROVE  /\ rows[k].live /\ rows[k].touched => rows'[k].live
                      /\ rows[k].cust = "human" => rows'[k].cust = "human"
    BY DEF WorkKept
  <2>1. k # NoRow /\ k # NewRow
    BY <1>1 DEF NoRow, NewRow
  <2>2. rows[k].touched => k # d.archive
    <3> SUFFICES ASSUME rows[k].touched, k = d.archive PROVE FALSE
      OBVIOUS
    <3>1. d.archive = link[p].row /\ MayTransfer(tx, p)
      BY <2>1, <1>1 DEF Creates, Attaches, Collides, Rests, Renames, Same
    <3>2. link[p].mode = "SYNC" /\ ~link[p].edited
      BY <3>1, <1>1 DEF MayTransfer
    <3> QED BY <2>1, <3>1, <3>2 DEF MarkedInv
  <2>3. d.resolve /\ k = d.row => rows[k].cust # "human"
    BY <2>1, <1>1 DEF Creates, Attaches, Collides, Rests, Renames
  <2>4. rows[k].live /\ rows[k].touched => rows'[k].live
    BY <2>2 DEF RowsWritten
  <2>5. rows[k].cust = "human" => rows'[k].cust = "human"
    BY <2>3 DEF RowsWritten
  <2> QED BY <2>4, <2>5
<1> QED BY <1>3, <1>4

StoreKept ==
  /\ StoreInv' /\ OneHolder' /\ LinksAreLive' /\ NoSilentGap' /\ VersionsRise
  /\ ~Overlap /\ FreshInv /\ MarkedInv => MarkedInv' /\ WorkKept

LEMMA StoreUnchanged ==
  ASSUME StoreInv, ShownInv, UNCHANGED store
  PROVE  StoreKept
<1>1. rows' = rows /\ link' = link /\ open' = open
  BY DEF store
<1>2. StoreInv' /\ OneHolder' /\ LinksAreLive' /\ NoSilentGap'
  BY <1>1 DEF StoreInv, ShownInv, OneHolder, LinksAreLive, NoSilentGap
<1>3. VersionsRise
  <2> SUFFICES ASSUME NEW q \in PIs PROVE link'[q].ver >= link[q].ver
    BY DEF VersionsRise
  <2>1. link[q].ver \in Nat
    BY DEF StoreInv, Link
  <2> QED BY <1>1, <2>1
<1>4. WorkKept
  BY <1>1 DEF WorkKept
<1>5. MarkedInv => MarkedInv'
  BY <1>1 DEF MarkedInv
<1> QED BY <1>2, <1>3, <1>4, <1>5 DEF StoreKept

LEMMA ApplyStep ==
  ASSUME FeedInv, StoreInv, ShownInv, tx # NoTx, NEW p \in PIs, NEW i \in 1..Len(log),
         log[i].pi = p, ApplyState(p, i)
  PROVE  StoreKept /\ link'[p].ver >= Version(i)
<1> DEFINE e == log[i]
           v == Version(i)
           d == Decide(tx, p, e)
<1>1. log \in Seq(Event) /\ e \in Event
  BY DEF FeedInv
<1>2. v \in Nat /\ v <= MaxEvents
  BY <1>1, VersionType, BoundsAssumption DEF FeedInv
<1>3. link[p] \in Link /\ link[p].ver \in Nat /\ link \in [PIs -> Link]
  BY DEF StoreInv, Link
<1>4. CASE Stale(p, v)
  <2>1. UNCHANGED store
    BY <1>4 DEF ApplyState
  <2>2. link'[p].ver >= v
    BY <1>2, <1>3, <1>4, <2>1 DEF Stale, store
  <2> QED BY <2>1, <2>2, StoreUnchanged
<1>5. CASE ~Stale(p, v)
  <2>1. PICK res \in (IF d.resolve THEN Resolutions ELSE {"-"}) :
               /\ rows' = WriteRows(d, p, e, res)
               /\ link' = WriteLink(d, p, e, v, res)
               /\ open' = [open EXCEPT ![p] = Conflicts(d, res)]
    BY <1>5 DEF ApplyState
  <2>2. res \in Resolutions \cup {"-"}
    OBVIOUS
  <2>3. tx.rows \in Seq(Row) /\ tx.link \in [PIs -> Link]
    BY DEF ShownInv, SnapshotInv
  <2>4. /\ Choice(d)
        /\ \/ Creates(d, p) \/ Attaches(d, p, e) \/ Collides(d, p)
           \/ Rests(d, p, e) \/ Renames(d, p, e)
    BY <1>1, <2>3, DecideKinds
  <2> HIDE DEF d, v, e
  <2>5. RowsWritten(d, e)
    BY <1>1, <2>1, <2>4, RowsWrittenFacts
  <2>6. LinksWritten(d, p, e, v)
    BY <1>1, <1>2, <2>1, <2>2, <2>4, LinksWrittenFacts
  <2>7. /\ \A q \in PIs : link'[q].row <= Len(rows') /\ link'[q].ver <= MaxEvents
        /\ OneHolder' /\ LinksAreLive'
    BY <1>1, <1>2, <2>4, <2>5, <2>6, WrittenKeepsRows
  <2>8. open' \in [PIs -> SUBSET Types]
    <3>1. Conflicts(d, res) \subseteq Types
      BY <2>4 DEF Conflicts, Choice, Types
    <3> QED BY <2>1, <3>1 DEF StoreInv
  <2>9. StoreInv'
    BY <2>5, <2>6, <2>7, <2>8 DEF StoreInv, RowsWritten, LinksWritten
  <2>10. NoSilentGap'
    <3> SUFFICES ASSUME NEW q \in PIs, link'[q].active PROVE Shown(q)' \/ Told(q)'
      BY DEF NoSilentGap, Shown, Told
    <3>1. CASE q # p
      <4>1. link[q].active /\ open'[q] = open[q]
        BY <2>1, <2>6, <3>1 DEF LinksWritten, StoreInv
      <4>2. Shown(q) \/ Told(q)
        BY <4>1 DEF ShownInv, NoSilentGap, Shown, Told
      <4>3. CASE Told(q)
        BY <4>1, <4>3 DEF Told
      <4>4. CASE Shown(q)
        BY <1>1, <1>2, <2>4, <2>5, <2>6, <3>1, <4>1, <4>4, WrittenShowsOthers
      <4> QED BY <4>2, <4>3, <4>4
    <3>2. CASE q = p /\ Collides(d, p)
      <4>1. open'[p] = Conflicts(d, res)
        BY <2>1 DEF StoreInv
      <4> QED BY <3>2, <4>1 DEF Told, Conflicts, Collides
    <3>3. CASE q = p /\ ~Collides(d, p)
      <4>1. e.active
        BY <2>6, <3>3 DEF LinksWritten
      <4> QED BY <1>1, <1>2, <2>4, <2>5, <2>6, <3>3, <4>1, WrittenShows
    <3> QED BY <3>1, <3>2, <3>3
  <2>11. VersionsRise /\ link'[p].ver >= v
    <3>1. link'[p].ver = v /\ v >= link[p].ver
      BY <1>2, <1>3, <1>5, <2>6 DEF LinksWritten, Stale
    <3>2. \A q \in PIs : link[q].ver \in Nat
      BY <1>3 DEF Link
    <3> QED BY <1>2, <2>6, <3>1, <3>2 DEF VersionsRise, LinksWritten
  <2>12. ~Overlap /\ FreshInv /\ MarkedInv => MarkedInv' /\ WorkKept
    BY <1>1, <1>2, <2>4, <2>5, <2>6, WrittenKeepsWork
  <2> QED BY <2>7, <2>9, <2>10, <2>11, <2>12 DEF StoreKept, v
<1> QED BY <1>4, <1>5
-----------------------------------------------------------------------------
(* People edit the rows of a set K, which marks the links that show them, or add one. *)

Touch(K) ==
  /\ rows' \in Seq(Row) /\ Len(rows') >= Len(rows)
  /\ \A k \in DOMAIN rows :
       /\ rows'[k].no = rows[k].no /\ (rows'[k].live <=> rows[k].live)
       /\ rows[k].cust = "human" => rows'[k].cust = "human"
       /\ rows'[k].touched => rows[k].touched \/ k \in K
  /\ link' \in [PIs -> Link]
  /\ \A q \in PIs :
       /\ link'[q].row = link[q].row /\ link'[q].ver = link[q].ver /\ link'[q].no = link[q].no
       /\ link'[q].mode = link[q].mode /\ (link'[q].active <=> link[q].active)
       /\ link[q].edited \/ link[q].row \in K => link'[q].edited
  /\ open' \in [PIs -> SUBSET Types] /\ \A q \in PIs : Told(q) => Told(q)'

LEMMA TouchKeeps ==
  ASSUME StoreInv, ShownInv, NEW K, Touch(K)
  PROVE  StoreKept
<1>1. Len(rows) \in Nat /\ Len(rows') \in Nat /\ DOMAIN rows = 1..Len(rows) /\ Len(rows) <= Len(rows')
  BY DEF StoreInv, Touch
<1>2. ASSUME NEW q \in PIs
      PROVE  /\ link[q].ver \in Nat /\ link[q].ver <= MaxEvents /\ link[q].row \in 0..Len(rows)
             /\ link[q].row # NoRow => link[q].row \in DOMAIN rows
  <2>1. link[q] \in Link /\ link[q].row <= Len(rows) /\ link[q].ver <= MaxEvents
    BY DEF StoreInv
  <2> QED BY <1>1, <2>1 DEF Link, NoRow
<1>3. StoreInv'
  BY <1>1, <1>2 DEF StoreInv, Touch
<1>4. OneHolder'
  BY DEF Touch, OneHolder, ShownInv
<1>5. LinksAreLive'
  BY <1>2 DEF Touch, LinksAreLive, ShownInv
<1>6. NoSilentGap'
  <2> SUFFICES ASSUME NEW q \in PIs, link'[q].active PROVE Shown(q)' \/ Told(q)'
    BY DEF NoSilentGap, Shown, Told
  <2>1. link'[q].row = link[q].row /\ link'[q].no = link[q].no /\ (Told(q) => Told(q)')
        /\ link[q].active
    BY DEF Touch
  <2>2. Shown(q) \/ Told(q)
    BY <2>1 DEF ShownInv, NoSilentGap, Shown, Told
  <2>3. CASE Shown(q)
    <3>1. link[q].row \in DOMAIN rows /\ link[q].row # NoRow
      BY <1>2, <2>3 DEF Shown
    <3>2. rows'[link[q].row].live
      BY <2>3, <3>1 DEF Touch, Shown
    <3>3. rows'[link[q].row].no = link[q].no
      BY <2>3, <3>1 DEF Touch, Shown
    <3> QED BY <2>1, <3>1, <3>2, <3>3 DEF Shown
  <2> QED BY <2>1, <2>2, <2>3
<1>7. VersionsRise
  BY <1>2 DEF VersionsRise, Touch
<1>8. WorkKept
  <2> SUFFICES ASSUME NEW k \in DOMAIN rows
               PROVE  /\ rows[k].live => rows'[k].live
                      /\ rows[k].cust = "human" => rows'[k].cust = "human"
    BY DEF WorkKept
  <2> QED BY DEF Touch
<1>9. MarkedInv => MarkedInv'
  <2> SUFFICES ASSUME MarkedInv, NEW q \in PIs, link'[q].row # NoRow, link'[q].mode = "SYNC",
                      rows'[link'[q].row].touched
               PROVE  link'[q].edited
    BY DEF MarkedInv
  <2>1. link'[q].row = link[q].row /\ link'[q].mode = link[q].mode /\ link[q].row \in DOMAIN rows
    BY <1>2 DEF Touch
  <2>2. rows[link[q].row].touched \/ link[q].row \in K
    BY <2>1 DEF Touch
  <2>3. link[q].edited \/ link[q].row \in K
    BY <2>1, <2>2 DEF MarkedInv
  <2> QED BY <2>3 DEF Touch
<1> QED BY <1>3, <1>4, <1>5, <1>6, <1>7, <1>8, <1>9 DEF StoreKept

LEMMA TouchKeepsSnapshot ==
  ASSUME StoreInv, ShownInv, UNCHANGED tx, Overlap \/ tx = NoTx, NEW K, Touch(K)
  PROVE  SnapshotInv' /\ FreshInv'
<1>1. Len(rows) \in Nat /\ Len(rows') \in Nat /\ DOMAIN rows = 1..Len(rows) /\ Len(rows) <= Len(rows')
  BY DEF StoreInv, Touch
<1>2. SnapshotInv'
  <2> SUFFICES ASSUME tx # NoTx
               PROVE  /\ tx.rows \in Seq(Row) /\ Len(tx.rows) <= Len(rows')
                      /\ \A k \in DOMAIN tx.rows : /\ tx.rows[k].no = rows'[k].no
                                                   /\ tx.rows[k].live <=> rows'[k].live
                      /\ tx.link \in [PIs -> Link]
                      /\ \A p \in PIs : /\ tx.link[p].row = link'[p].row
                                        /\ tx.link[p].ver = link'[p].ver
                                        /\ tx.link[p].row <= Len(tx.rows)
                                        /\ tx.link[p].active <=> link'[p].active
    BY DEF SnapshotInv
  <2>1. /\ tx.rows \in Seq(Row) /\ Len(tx.rows) <= Len(rows) /\ tx.link \in [PIs -> Link]
    BY DEF ShownInv, SnapshotInv
  <2>2. Len(tx.rows) <= Len(rows') /\ DOMAIN tx.rows \subseteq DOMAIN rows
    BY <1>1, <2>1
  <2>3. \A k \in DOMAIN tx.rows : tx.rows[k].no = rows'[k].no
    BY <2>2 DEF ShownInv, SnapshotInv, Touch
  <2>4. \A k \in DOMAIN tx.rows : tx.rows[k].live <=> rows'[k].live
    BY <2>2 DEF ShownInv, SnapshotInv, Touch
  <2>5. \A p \in PIs : /\ tx.link[p].row = link'[p].row
                       /\ tx.link[p].ver = link'[p].ver
                       /\ tx.link[p].row <= Len(tx.rows)
    BY DEF ShownInv, SnapshotInv, Touch
  <2>6. \A p \in PIs : tx.link[p].active <=> link'[p].active
    BY DEF ShownInv, SnapshotInv, Touch
  <2> QED BY <2>1, <2>2, <2>3, <2>4, <2>5, <2>6
<1>3. FreshInv'
  BY DEF FreshInv
<1> QED BY <1>2, <1>3

People ==
  \/ \E no \in OrderNos : CreateOrderTracker(no)
  \/ \E k \in DOMAIN rows : UpdateOrderTracker(k) \/ ResolveSynchronizedOrderCustomer(k)

LEMMA PeopleTouch ==
  ASSUME StoreInv, ShownInv, People
  PROVE  UNCHANGED tx /\ (Overlap \/ tx = NoTx) /\ \E K : Touch(K)
<1>1. rows \in Seq(Row) /\ Len(rows) \in Nat /\ DOMAIN rows = 1..Len(rows)
      /\ link \in [PIs -> Link] /\ open \in [PIs -> SUBSET Types]
  BY DEF StoreInv
<1>2. ASSUME NEW no \in OrderNos, CreateOrderTracker(no)
      PROVE  UNCHANGED tx /\ (Overlap \/ tx = NoTx) /\ \E K : Touch(K)
  <2> DEFINE new == [no |-> no, live |-> TRUE, touched |-> TRUE, cust |-> "human"]
  <2>1. rows' = Append(rows, new) /\ link' = link /\ open' = open
    BY <1>2 DEF CreateOrderTracker
  <2>2. new \in Row
    BY DEF Row
  <2> HIDE DEF new
  <2>3. rows' \in Seq(Row) /\ Len(rows') = Len(rows) + 1 /\ \A k \in DOMAIN rows : rows'[k] = rows[k]
    BY <1>1, <2>1, <2>2
  <2>4. \A q \in PIs : Told(q) => Told(q)'
    BY <2>1 DEF Told
  <2>5. Touch({})
    BY <1>1, <2>1, <2>3, <2>4 DEF Touch
  <2> QED BY <1>2, <2>5 DEF CreateOrderTracker, Person
<1>3. ASSUME NEW k \in DOMAIN rows
      PROVE  LET touched == [rows EXCEPT ![k].touched = TRUE]
             IN  /\ touched \in Seq(Row) /\ Len(touched) = Len(rows)
                 /\ \A j \in DOMAIN rows :
                      /\ touched[j].no = rows[j].no /\ (touched[j].live <=> rows[j].live)
                      /\ touched[j].cust = rows[j].cust
                      /\ touched[j].touched => rows[j].touched \/ j = k
  <2> DEFINE new == [rows[k] EXCEPT !.touched = TRUE]
             touched == [rows EXCEPT ![k] = new]
  <2>1. rows[k] \in Row
    BY <1>1
  <2>2. new \in Row /\ new.no = rows[k].no /\ (new.live <=> rows[k].live) /\ new.cust = rows[k].cust
    BY <2>1 DEF Row
  <2> HIDE DEF new
  <2>3. touched \in Seq(Row) /\ Len(touched) = Len(rows) /\ touched[k] = new
        /\ \A j \in DOMAIN rows \ {k} : touched[j] = rows[j]
    BY <1>1, <2>2
  <2> HIDE DEF touched
  <2>4. /\ touched \in Seq(Row) /\ Len(touched) = Len(rows)
        /\ \A j \in DOMAIN rows :
             /\ touched[j].no = rows[j].no /\ (touched[j].live <=> rows[j].live)
             /\ touched[j].cust = rows[j].cust
             /\ touched[j].touched => rows[j].touched \/ j = k
    BY <2>2, <2>3
  <2> QED BY <2>4 DEF touched, new
<1>4. ASSUME NEW k \in DOMAIN rows, UpdateOrderTracker(k)
      PROVE  UNCHANGED tx /\ (Overlap \/ tx = NoTx) /\ \E K : Touch(K)
  <2>1. rows' = [rows EXCEPT ![k].touched = TRUE] /\ link' = MarkLinks(k) /\ open' = open
    BY <1>4 DEF UpdateOrderTracker
  <2> DEFINE mark(q) == [link[q] EXCEPT !.edited = @ \/ link[q].row = k]
  <2>2. ASSUME NEW q \in PIs
        PROVE  /\ mark(q) \in Link
               /\ mark(q).row = link[q].row /\ mark(q).ver = link[q].ver /\ mark(q).no = link[q].no
               /\ mark(q).mode = link[q].mode /\ (mark(q).active <=> link[q].active)
               /\ link[q].edited \/ link[q].row \in {k} => mark(q).edited
    <3>1. link[q] \in Link
      BY <1>1
    <3> QED BY <3>1 DEF Link
  <2> HIDE DEF mark
  <2>3. link' = [q \in PIs |-> mark(q)]
    BY <2>1 DEF MarkLinks, mark
  <2>4. link' \in [PIs -> Link] /\ \A q \in PIs : link'[q] = mark(q)
    BY <2>2, <2>3
  <2>5. \A q \in PIs : Told(q) => Told(q)'
    BY <2>1 DEF Told
  <2>6. Touch({k})
    BY <1>1, <1>3, <2>1, <2>2, <2>4, <2>5 DEF Touch
  <2> QED BY <1>4, <2>6 DEF UpdateOrderTracker, Person
<1>5. ASSUME NEW k \in DOMAIN rows, ResolveSynchronizedOrderCustomer(k)
      PROVE  UNCHANGED tx /\ (Overlap \/ tx = NoTx) /\ \E K : Touch(K)
  <2>1. PICK p \in PIs :
          /\ link[p].row = k
          /\ rows' = [rows EXCEPT ![k].cust = "human", ![k].touched = TRUE]
          /\ link' = [link EXCEPT ![p].match = "MATCHED", ![p].edited = TRUE]
          /\ open' = [open EXCEPT ![p] = @ \ {"CUSTOMER"}]
    BY <1>5 DEF ResolveSynchronizedOrderCustomer
  <2>2. rows[k] \in Row /\ link[p] \in Link /\ k # NoRow
    BY <1>1 DEF NoRow
  <2> DEFINE new == [[rows[k] EXCEPT !.cust = "human"] EXCEPT !.touched = TRUE]
             mine == [[link[p] EXCEPT !.match = "MATCHED"] EXCEPT !.edited = TRUE]
  <2>3. rows' = [rows EXCEPT ![k] = new] /\ link' = [link EXCEPT ![p] = mine]
    BY <1>1, <2>1
  <2>4. /\ new \in Row /\ new.no = rows[k].no /\ (new.live <=> rows[k].live) /\ new.cust = "human"
    BY <2>2 DEF Row
  <2>5. /\ mine \in Link
        /\ mine.row = link[p].row /\ mine.ver = link[p].ver /\ mine.no = link[p].no
        /\ mine.mode = link[p].mode /\ (mine.active <=> link[p].active) /\ mine.edited
    BY <2>2 DEF Link, Matches
  <2> HIDE DEF new, mine
  <2>6. rows' \in Seq(Row) /\ Len(rows') = Len(rows) /\ rows'[k] = new
        /\ \A j \in DOMAIN rows \ {k} : rows'[j] = rows[j]
    BY <1>1, <2>3, <2>4
  <2>7. link' \in [PIs -> Link] /\ link'[p] = mine /\ \A q \in PIs \ {p} : link'[q] = link[q]
    BY <1>1, <2>3, <2>5
  <2>8. \A q \in PIs \ {p} : link[q].row \notin {k}
    BY <2>1, <2>2 DEF ShownInv, OneHolder
  <2>9. open' \in [PIs -> SUBSET Types] /\ \A q \in PIs : Told(q) => Told(q)'
    <3>1. open'[p] = open[p] \ {"CUSTOMER"} /\ \A q \in PIs \ {p} : open'[q] = open[q]
      BY <1>1, <2>1
    <3>2. Told(p) => Told(p)'
      BY <3>1 DEF Told
    <3>3. open' \in [PIs -> SUBSET Types]
      BY <1>1, <2>1
    <3> QED BY <3>1, <3>2, <3>3 DEF Told
  <2>10. Touch({k})
    <3>1. \A j \in DOMAIN rows :
            /\ rows'[j].no = rows[j].no /\ (rows'[j].live <=> rows[j].live)
            /\ rows[j].cust = "human" => rows'[j].cust = "human"
            /\ rows'[j].touched => rows[j].touched \/ j \in {k}
      BY <2>4, <2>6
    <3>2. \A q \in PIs :
            /\ link'[q].row = link[q].row /\ link'[q].ver = link[q].ver /\ link'[q].no = link[q].no
            /\ link'[q].mode = link[q].mode /\ (link'[q].active <=> link[q].active)
            /\ link[q].edited \/ link[q].row \in {k} => link'[q].edited
      BY <2>5, <2>7, <2>8
    <3> QED BY <1>1, <2>6, <2>7, <2>9, <3>1, <3>2 DEF Touch
  <2> QED BY <1>5, <2>10 DEF ResolveSynchronizedOrderCustomer, Person
<1> QED BY <1>2, <1>4, <1>5 DEF People
-----------------------------------------------------------------------------
(* The steps of a run, sorted. *)

\* A run opens a transaction; it goes on without writing anything; or it is one
\* of the four steps that move a cursor.
Opens(r) ==
  /\ tx = NoTx /\ tx' = [run |-> r, rows |-> rows, link |-> link] /\ AtWork(r)
  /\ UNCHANGED <<log, store, received, state, run>>

Moved(r, x) == Task(x) /\ run' = [run EXCEPT ![r] = x] /\ log' = log

Goes(r, x) ==
  /\ Moved(r, x) /\ UNCHANGED <<store, received, committed, rec>>
  /\ x.pc # "chunk" /\ x.cursor \in {0, committed, run[r].cursor}
  /\ tx' = NoTx \/ (tx' = tx /\ (tx = NoTx \/ tx.run # r))

Commits(r) == EventCommit(r) \/ ChunkCommit(r) \/ ReconcileCheck(r) \/ ReconcileFinish(r)

RunActions(r) ==
  RunStep(r) \/ StartIncremental(r) \/ ReconcilePreviewed(r) \/ RunFails(r) \/ Crash(r)

LEMMA IdleTask == ASSUME FeedInv PROVE Task(Idle) /\ Idle.pc = "idle" /\ Idle.cursor = 0
<1>1. Len(log) \in Nat
  BY DEF FeedInv
<1> QED BY <1>1 DEF Task, Idle, Stages, NoPI, NoPlan

\* Who works on a transaction that is open does nothing else.
LEMMA NotAtWork ==
  ASSUME FeedInv, TxInv, NEW r \in Runs,
         run[r].pc \in {"idle", "wait", "fetch", "check"}
           \/ (run[r].pc = "apply" /\ run[r].cursor = run[r].upto)
  PROVE  tx = NoTx \/ tx.run # r
<1>1. run[r].cursor \in Nat /\ run[r].upto \in Nat
  BY DEF FeedInv, Task
<1> QED BY <1>1 DEF TxInv, AtWork

LEMMA RunKinds ==
  ASSUME FeedInv, TxInv, NEW r \in Runs, RunActions(r)
  PROVE  Opens(r) \/ (\E x : Goes(r, x)) \/ Commits(r)
<1>1. Task(run[r]) /\ Len(log) \in Nat /\ committed \in 0..Len(log)
  BY DEF FeedInv
<1>2. Task(Idle) /\ Idle.pc = "idle" /\ Idle.cursor = 0
  BY IdleTask
<1>3. CASE Acquire(r)
  <2> DEFINE x == [run[r] EXCEPT !.pc = IF run[r].plan = NoPlan THEN "fetch" ELSE "check"]
  <2>1. Task(x) /\ x.pc # "chunk" /\ x.cursor = run[r].cursor
    BY <1>1 DEF Task, Stages
  <2>2. run' = [run EXCEPT ![r] = x]
    BY <1>3 DEF Acquire
  <2> HIDE DEF x
  <2>3. Goes(r, x)
    BY <1>3, <2>1, <2>2 DEF Acquire, Goes, Moved, state, source
  <2> QED BY <2>3
<1>4. CASE Refused(r)
  <2>1. Goes(r, Idle)
    BY <1>2, <1>4 DEF Refused, Goes, Moved, state, source
  <2> QED BY <2>1
<1>5. CASE FetchEvents(r)
  <2> DEFINE upto == IF run[r].cursor + Batch < Len(log) THEN run[r].cursor + Batch ELSE Len(log)
             more == upto < Len(log)
             x == [[[run[r] EXCEPT !.pc = "apply"] EXCEPT !.upto = upto] EXCEPT !.more = more]
  <2>1. upto \in 0..Len(log) /\ more \in BOOLEAN
    BY <1>1, BoundsAssumption DEF Task
  <2> HIDE DEF upto, more
  <2>2. Task(x) /\ x.pc # "chunk" /\ x.cursor = run[r].cursor
    BY <1>1, <2>1 DEF Task, Stages
  <2>3. run' = [run EXCEPT ![r] = x]
    BY <1>5 DEF FetchEvents, upto, more, FeedInv
  <2> HIDE DEF x
  <2>4. tx = NoTx \/ tx.run # r
    BY <1>5, NotAtWork DEF FetchEvents
  <2>5. Goes(r, x)
    BY <1>5, <2>2, <2>3, <2>4 DEF FetchEvents, Goes, Moved, state, source
  <2> QED BY <2>5
<1>6. CASE EventBegin(r)
  BY <1>6 DEF EventBegin, BeginTx, Opens, AtWork, source
<1>7. CASE PageDone(r)
  <2>1. tx = NoTx \/ tx.run # r
    BY <1>7, NotAtWork DEF PageDone
  <2>2. CASE run[r].more
    <3> DEFINE x == [run[r] EXCEPT !.pc = "fetch"]
    <3>1. Task(x) /\ x.pc # "chunk" /\ x.cursor = run[r].cursor
      BY <1>1 DEF Task, Stages
    <3>2. run' = [run EXCEPT ![r] = x]
      BY <1>7, <2>2 DEF PageDone
    <3> HIDE DEF x
    <3>3. Goes(r, x)
      BY <1>7, <2>1, <3>1, <3>2 DEF PageDone, Goes, Moved, state, source
    <3> QED BY <3>3
  <2>3. CASE ~run[r].more
    <3>1. Goes(r, Idle)
      BY <1>2, <1>7, <2>1, <2>3 DEF PageDone, Goes, Moved, state, source
    <3> QED BY <3>1
  <2> QED BY <2>2, <2>3
<1>8. CASE ChunkBegin(r)
  BY <1>8 DEF ChunkBegin, BeginTx, Opens, AtWork, source
<1>9. CASE StartIncremental(r)
  <2> DEFINE x == [[Idle EXCEPT !.pc = "wait"] EXCEPT !.cursor = committed]
  <2>1. Task(x) /\ x.pc # "chunk" /\ x.cursor = committed
    BY <1>1, <1>2 DEF Task, Stages
  <2>2. run' = [run EXCEPT ![r] = x]
    BY <1>9 DEF StartIncremental
  <2>3. tx = NoTx \/ tx.run # r
    BY <1>9, NotAtWork DEF StartIncremental
  <2> HIDE DEF x
  <2>4. Goes(r, x)
    BY <1>9, <2>1, <2>2, <2>3 DEF StartIncremental, Goes, Moved, state, source
  <2> QED BY <2>4
<1>10. CASE ReconcilePreviewed(r)
  <2> DEFINE plan == [hw |-> Len(log), target |-> Evidence(Now, Len(log)),
                      manual |-> ManualOnly(Now, Len(log))]
             x == [[Idle EXCEPT !.pc = "wait"] EXCEPT !.plan = plan]
  <2>1. plan.hw \in -1..Len(log)
    BY <1>1
  <2>2. run' = [run EXCEPT ![r] = x]
    BY <1>10 DEF ReconcilePreviewed
  <2> HIDE DEF plan
  <2>3. Task(x) /\ x.pc # "chunk" /\ x.cursor = 0
    BY <1>1, <1>2, <2>1 DEF Task, Stages
  <2>4. tx = NoTx \/ tx.run # r
    BY <1>10, NotAtWork DEF ReconcilePreviewed
  <2> HIDE DEF x
  <2>5. Goes(r, x)
    BY <1>10, <2>2, <2>3, <2>4 DEF ReconcilePreviewed, Goes, Moved, state
  <2> QED BY <2>5
<1>11. CASE RunFails(r) \/ Crash(r)
  <2>1. Stop(r)
    BY <1>11 DEF RunFails, Crash
  <2>2. Goes(r, Idle)
    BY <1>2, <2>1 DEF Stop, Goes, Moved, state
  <2> QED BY <2>2
<1> QED BY <1>3, <1>4, <1>5, <1>6, <1>7, <1>8, <1>9, <1>10, <1>11 DEF RunActions, RunStep, Commits
-----------------------------------------------------------------------------
(* What is done stays done. *)

LogGrows ==
  /\ log' \in Seq(Event) /\ Len(log') <= MaxEvents /\ Len(log) <= Len(log')
  /\ \A i \in 1..Len(log) : log'[i] = log[i]

DoneAfter(c) == \A i \in 1..c : log'[i].ok => Reached(i)'
AppliedAfter(hw, at) == \A i \in 1..hw : log'[i].pi <= at => Reached(i)'

LEMMA ReachedStays ==
  ASSUME FeedInv, StoreInv, LogGrows, VersionsRise, link' \in [PIs -> Link],
         NEW i \in 1..Len(log)
  PROVE  Version(i)' = Version(i) /\ (Reached(i) => Reached(i)')
<1>1. \A j \in 1..i : log'[j] = log[j]
  BY DEF LogGrows, FeedInv
<1>2. {j \in 1..i : log'[j].pi = log'[i].pi} = {j \in 1..i : log[j].pi = log[i].pi}
  BY <1>1 DEF FeedInv
<1>3. Version(i)' = Version(i)
  BY <1>2 DEF Version
<1>4. Version(i) \in Nat
  BY VersionType DEF FeedInv
<1>5. log'[i] = log[i] /\ log[i].pi \in PIs
  <2>1. log[i] \in Event
    BY DEF FeedInv
  <2> QED BY <2>1 DEF LogGrows, Event
<1>6. link'[log[i].pi].ver >= link[log[i].pi].ver
  BY <1>5 DEF VersionsRise
<1>7. link'[log[i].pi].ver \in Nat /\ link[log[i].pi].ver \in Nat
  BY <1>5 DEF StoreInv, Link
<1> QED BY <1>3, <1>4, <1>5, <1>6, <1>7 DEF Reached

LEMMA DoneStays ==
  ASSUME FeedInv, StoreInv, LogGrows, VersionsRise, link' \in [PIs -> Link]
  PROVE  /\ \A c \in 0..Len(log) : Done(c) => DoneAfter(c)
         /\ \A hw \in -1..Len(log), at \in Nat : Applied(hw, at) => AppliedAfter(hw, at)
<1>1. \A i \in 1..Len(log) : log'[i] = log[i] /\ (Reached(i) => Reached(i)')
  BY ReachedStays DEF LogGrows
<1>2. Len(log) \in Nat
  BY DEF FeedInv
<1> QED BY <1>1, <1>2 DEF Done, DoneAfter, Applied, AppliedAfter

\* One run has moved, and nothing was added to the log.
LEMMA MovedRuns ==
  ASSUME FeedInv, NEW r \in Runs, NEW x, Moved(r, x)
  PROVE  /\ LogGrows
         /\ run' = [q \in Runs |-> run'[q]] /\ \A q \in Runs : Task(run[q])'
         /\ run'[r] = x /\ \A q \in Runs \ {r} : run'[q] = run[q]
<1>1. run' = [q \in Runs |-> IF q = r THEN x ELSE run[q]]
  BY DEF FeedInv, Moved
<1>2. run'[r] = x /\ \A q \in Runs \ {r} : run'[q] = run[q]
  BY <1>1
<1>3. LogGrows
  BY DEF FeedInv, Moved, LogGrows
<1>4. run' = [q \in Runs |-> run'[q]]
  BY <1>1
<1>5. log' = log
  BY DEF Moved
<1>6. ASSUME NEW q \in Runs PROVE Task(run[q])'
  BY <1>2, <1>5 DEF Moved, FeedInv, Task
<1> QED BY <1>2, <1>3, <1>4, <1>6

\* A transaction that stays open is still at work.
LEMMA TxStays ==
  ASSUME FeedInv, TxInv, LogGrows, tx' = tx, tx = NoTx \/ run'[tx.run] = run[tx.run]
  PROVE  TxInv'
<1> SUFFICES ASSUME tx # NoTx PROVE AtWork(tx.run)'
  BY DEF TxInv
<1> DEFINE r == tx.run
           hw == run[r].plan.hw
<1>1. r \in Runs /\ AtWork(r) /\ run'[r] = run[r]
  BY DEF TxInv
<1>2. hw \in -1..Len(log) /\ Len(log) \in Nat
  BY <1>1 DEF FeedInv, Task
<1>3. Items(hw)' = Items(hw)
  <2>1. \A i \in 1..hw : log'[i].pi = log[i].pi
    BY <1>2 DEF LogGrows
  <2>2. run'[r].plan.hw = hw
    BY <1>1
  <2> HIDE DEF hw
  <2>3. {log'[i].pi : i \in 1..hw} = {log[i].pi : i \in 1..hw}
    BY <2>1
  <2> QED BY <2>2, <2>3, <1>1 DEF Items, hw
<1>4. Left(r)' = Left(r)
  BY <1>1, <1>3 DEF Left, hw
<1> QED BY <1>1, <1>4 DEF AtWork

\* DoneInv after a step in which run r moved.
LEMMA DoneKeeps ==
  ASSUME SyncInv, StoreKept, LogGrows, DoneAfter(committed'),
         \A i \in received' \ received : log'[i].ok => Reached(i)',
         NEW r \in Runs, \A q \in Runs \ {r} : run'[q] = run[q],
         DoneAfter(run'[r].cursor),
         run'[r].pc = "chunk" => AppliedAfter(run'[r].plan.hw, run'[r].at),
         AppliedAfter(rec'.hw, rec'.at)
  PROVE  DoneInv'
<1>1. FeedInv /\ StoreInv /\ DoneInv /\ VersionsRise /\ link' \in [PIs -> Link]
  BY DEF SyncInv, StoreKept, StoreInv
<1>2. Done(committed)'
  BY DEF Done, DoneAfter
<1>3. \A i \in received' : log'[i].ok => Reached(i)'
  <2> SUFFICES ASSUME NEW i \in received, log'[i].ok PROVE Reached(i)'
    OBVIOUS
  <2>1. i \in 1..Len(log) /\ log'[i] = log[i]
    BY <1>1 DEF FeedInv, LogGrows
  <2>2. Reached(i)
    BY <1>1, <2>1 DEF DoneInv
  <2> QED BY <1>1, <2>1, <2>2, ReachedStays
<1>4. ASSUME NEW q \in Runs
      PROVE  /\ Done(run[q].cursor)'
             /\ run'[q].pc = "chunk" => Applied(run[q].plan.hw, run[q].at)'
  <2>1. CASE q = r
    BY <2>1 DEF Done, DoneAfter, Applied, AppliedAfter
  <2>2. CASE q # r
    <3>1. run'[q] = run[q] /\ Task(run[q])
      BY <1>1, <2>2 DEF FeedInv
    <3>2. run[q].cursor \in 0..Len(log) /\ run[q].plan.hw \in -1..Len(log) /\ run[q].at \in Nat
      BY <3>1 DEF Task
    <3>3. Done(run[q].cursor) /\ (run[q].pc = "chunk" => Applied(run[q].plan.hw, run[q].at))
      BY <1>1 DEF DoneInv
    <3>4. DoneAfter(run[q].cursor) /\ (run[q].pc = "chunk" => AppliedAfter(run[q].plan.hw, run[q].at))
      BY <1>1, <3>2, <3>3, DoneStays
    <3> QED BY <3>1, <3>4 DEF Done, DoneAfter, Applied, AppliedAfter
  <2> QED BY <2>1, <2>2
<1>5. Applied(rec.hw, rec.at)'
  BY DEF Applied, AppliedAfter
<1> QED BY <1>2, <1>3, <1>4, <1>5 DEF DoneInv

Kept == FeedInv' /\ TxInv' /\ DoneInv' /\ StoreKept /\ SnapshotInv' /\ FreshInv'

LEMMA QuietKeeps ==
  ASSUME SyncInv, ShownInv, LogGrows, UNCHANGED <<received, committed, rec, run, tx>>, StoreKept
  PROVE  FeedInv' /\ TxInv' /\ DoneInv'
<1>1. FeedInv /\ StoreInv /\ DoneInv /\ TxInv /\ VersionsRise /\ link' \in [PIs -> Link]
  BY DEF SyncInv, StoreKept, StoreInv
<1>2. Len(log) \in Nat /\ Len(log') \in Nat /\ Len(log) <= Len(log')
  BY <1>1 DEF FeedInv, LogGrows
<1>3. ASSUME NEW q \in Runs PROVE Task(run[q])'
  BY <1>1, <1>2 DEF FeedInv, Task
<1>4. FeedInv'
  BY <1>1, <1>2, <1>3 DEF FeedInv, LogGrows
<1>5. TxInv'
  BY <1>1, TxStays
<1>6. DoneInv'
  <2>1. Done(committed)'
    BY <1>1, DoneStays DEF DoneInv, Done, DoneAfter, FeedInv
  <2>2. \A i \in received' : log'[i].ok => Reached(i)'
    <3> SUFFICES ASSUME NEW i \in received, log'[i].ok PROVE Reached(i)'
      OBVIOUS
    <3>1. i \in 1..Len(log) /\ log'[i] = log[i]
      BY <1>1 DEF FeedInv, LogGrows
    <3>2. Reached(i)
      BY <1>1, <3>1 DEF DoneInv
    <3> QED BY <1>1, <3>1, <3>2, ReachedStays
  <2>3. ASSUME NEW q \in Runs
        PROVE  /\ Done(run[q].cursor)'
               /\ run'[q].pc = "chunk" => Applied(run[q].plan.hw, run[q].at)'
    <3>1. run'[q] = run[q] /\ Task(run[q])
      BY <1>1 DEF FeedInv
    <3>2. run[q].cursor \in 0..Len(log) /\ run[q].plan.hw \in -1..Len(log) /\ run[q].at \in Nat
      BY <3>1 DEF Task
    <3>3. Done(run[q].cursor) /\ (run[q].pc = "chunk" => Applied(run[q].plan.hw, run[q].at))
      BY <1>1 DEF DoneInv
    <3>4. DoneAfter(run[q].cursor) /\ (run[q].pc = "chunk" => AppliedAfter(run[q].plan.hw, run[q].at))
      BY <1>1, <3>2, <3>3, DoneStays
    <3> QED BY <3>1, <3>4 DEF Done, DoneAfter, Applied, AppliedAfter
  <2>4. Applied(rec.hw, rec.at)'
    <3>1. rec.hw \in -1..Len(log) /\ rec.at \in Nat /\ Applied(rec.hw, rec.at) /\ rec' = rec
      BY <1>1 DEF FeedInv, DoneInv
    <3>2. AppliedAfter(rec.hw, rec.at)
      BY <1>1, <3>1, DoneStays
    <3> QED BY <3>1, <3>2 DEF Applied, AppliedAfter
  <2> QED BY <2>1, <2>2, <2>3, <2>4 DEF DoneInv
<1> QED BY <1>4, <1>5, <1>6

LEMMA LogStays == ASSUME FeedInv, log' = log PROVE LogGrows
BY DEF FeedInv, LogGrows

LEMMA SnapshotStays ==
  ASSUME ShownInv, FreshInv, tx' = NoTx \/ (tx' = tx /\ UNCHANGED store)
  PROVE  SnapshotInv' /\ FreshInv'
BY DEF ShownInv, SnapshotInv, FreshInv, store

LEMMA OpensKeeps ==
  ASSUME SyncInv, ShownInv, FreshInv, NEW r \in Runs, Opens(r)
  PROVE  Kept
<1>1. UNCHANGED store /\ StoreInv /\ FeedInv /\ DoneInv /\ log' = log /\ run' = run
      /\ UNCHANGED <<received, committed, rec>>
  BY DEF Opens, SyncInv, state
<1>2. StoreKept
  BY <1>1, StoreUnchanged
<1>3. FeedInv'
  BY <1>1 DEF FeedInv, Task
<1>4. DoneInv'
  BY <1>1 DEF DoneInv, Done, Applied, Reached, Version, store
<1>5. tx' = [run |-> r, rows |-> rows, link |-> link] /\ AtWork(r)
  BY DEF Opens
<1>6. AtWork(r)'
  BY <1>1, <1>5 DEF AtWork, Left, Items
<1>7. TxInv'
  BY <1>5, <1>6 DEF TxInv
<1>8. rows' = rows /\ link' = link
  BY <1>1 DEF store
<1>9. SnapshotInv'
  <2>1. rows \in Seq(Row) /\ Len(rows) \in Nat /\ link \in [PIs -> Link]
        /\ \A p \in PIs : link[p].row <= Len(rows)
    BY <1>1 DEF StoreInv
  <2>2. tx'.rows = rows /\ tx'.link = link
    BY <1>5
  <2> QED BY <1>8, <2>1, <2>2 DEF SnapshotInv
<1>10. FreshInv'
  BY <1>5, <1>8 DEF FreshInv
<1> QED BY <1>2, <1>3, <1>4, <1>7, <1>9, <1>10 DEF Kept

LEMMA GoesKeeps ==
  ASSUME SyncInv, ShownInv, FreshInv, NEW r \in Runs, NEW x, Goes(r, x)
  PROVE  Kept
<1>1. UNCHANGED store /\ StoreInv /\ FeedInv /\ DoneInv /\ TxInv /\ UNCHANGED <<received, committed, rec>>
      /\ Moved(r, x) /\ log' = log
  BY DEF Goes, SyncInv, Moved
<1>2. StoreKept
  BY <1>1, StoreUnchanged
<1>3. /\ LogGrows
      /\ run' = [q \in Runs |-> run'[q]] /\ \A q \in Runs : Task(run[q])'
      /\ run'[r] = x /\ \A q \in Runs \ {r} : run'[q] = run[q]
  BY <1>1, MovedRuns
<1>4. FeedInv'
  BY <1>1, <1>3 DEF FeedInv
<1>5. VersionsRise /\ link' \in [PIs -> Link]
  BY <1>2 DEF StoreKept, StoreInv
<1>6. DoneInv'
  <2>1. /\ committed \in 0..Len(log) /\ Done(committed)
        /\ run[r].cursor \in 0..Len(log) /\ Done(run[r].cursor)
        /\ 0 \in 0..Len(log) /\ Done(0)
        /\ rec.hw \in -1..Len(log) /\ rec.at \in Nat /\ Applied(rec.hw, rec.at)
    BY <1>1 DEF DoneInv, FeedInv, Task, Done
  <2>2. \A c \in {0, committed, run[r].cursor} : DoneAfter(c)
    BY <1>1, <1>3, <1>5, <2>1, DoneStays
  <2>3. AppliedAfter(rec'.hw, rec'.at)
    BY <1>1, <1>3, <1>5, <2>1, DoneStays
  <2>4. DoneAfter(committed') /\ DoneAfter(run'[r].cursor)
    BY <1>1, <1>3, <2>2 DEF Goes
  <2>5. run'[r].pc # "chunk"
    BY <1>3 DEF Goes
  <2> QED BY <1>1, <1>2, <1>3, <2>3, <2>4, <2>5, DoneKeeps
<1>7. TxInv'
  <2>1. CASE tx' = NoTx
    BY <2>1 DEF TxInv
  <2>2. CASE tx' = tx /\ (tx = NoTx \/ tx.run # r)
    <3>1. tx = NoTx \/ run'[tx.run] = run[tx.run]
      BY <1>1, <1>3, <2>2 DEF TxInv
    <3> QED BY <1>1, <1>3, <2>2, <3>1, TxStays
  <2> QED BY <2>1, <2>2 DEF Goes
<1>8. SnapshotInv' /\ FreshInv'
  BY <1>1, SnapshotStays DEF Goes
<1> QED BY <1>2, <1>4, <1>6, <1>7, <1>8 DEF Kept
-----------------------------------------------------------------------------
(* The steps that move a cursor. *)

\* Whatever the run does with an event, a valid one has reached its link afterwards.
LEMMA EventReaches ==
  ASSUME SyncInv, ShownInv, NEW r \in Runs, EventCommit(r), NEW c, c = run[r].cursor + 1
  PROVE  /\ c \in 1..Len(log) /\ tx # NoTx /\ StoreKept
         /\ log[c].ok => Reached(c)'
<1> DEFINE e == log[c]
           p == e.pi
<1>1. FeedInv /\ StoreInv /\ DoneInv /\ TxInv /\ log' = log /\ Len(log) \in Nat
  BY DEF SyncInv, FeedInv, EventCommit, source
<1>2. tx # NoTx /\ tx.run = r
  <2>1. tx.run = r /\ NoTx.run = NoRun /\ r # NoRun
    BY RunsAssumption DEF EventCommit, NoTx, NoRun
  <2> QED BY <2>1
<1>3. c \in 1..Len(log)
  <2>1. run[r].cursor < run[r].upto
    BY <1>1, <1>2 DEF TxInv, AtWork, EventCommit
  <2>2. run[r].cursor \in 0..Len(log) /\ run[r].upto \in 0..Len(log)
    BY <1>1 DEF FeedInv, Task
  <2> QED BY <1>1, <2>1, <2>2
<1>4. e \in Event /\ p \in PIs
  <2>1. e \in Event
    BY <1>1, <1>3 DEF FeedInv
  <2> QED BY <2>1 DEF Event
<1>5. LogGrows
  BY <1>1, LogStays
<1>6. ASSUME StoreKept, Reached(c) PROVE Reached(c)'
  BY <1>1, <1>3, <1>5, <1>6, ReachedStays DEF StoreKept, StoreInv
<1>7. CASE c \in received
  <2>1. UNCHANGED store
    BY <1>7 DEF EventCommit
  <2>2. StoreKept
    BY <1>1, <2>1, StoreUnchanged
  <2>3. e.ok => Reached(c)
    BY <1>1, <1>7 DEF DoneInv
  <2> QED BY <1>2, <1>3, <1>6, <2>2, <2>3
<1>8. CASE c \notin received /\ ~e.ok
  <2>1. open' = [open EXCEPT ![p] = @ \cup {"INVALID"}] /\ rows' = rows /\ link' = link
    BY <1>8 DEF EventCommit
  <2>2. open' \in [PIs -> SUBSET Types] /\ \A q \in PIs : open[q] \subseteq open'[q]
    BY <1>1, <1>4, <2>1 DEF StoreInv, Types
  <2>3. \A q \in PIs : Told(q) => Told(q)'
    BY <2>2 DEF Told
  <2>4. Len(rows) \in Nat
    BY <1>1 DEF StoreInv
  <2>5. Touch({})
    BY <1>1, <2>1, <2>2, <2>3, <2>4 DEF Touch, StoreInv
  <2>6. StoreKept
    BY <1>1, <2>5, TouchKeeps
  <2> QED BY <1>2, <1>3, <1>8, <2>6
<1>9. CASE c \notin received /\ e.ok
  <2>1. ApplyState(p, c)
    BY <1>9 DEF EventCommit
  <2>2. StoreKept /\ link'[p].ver >= Version(c)
    BY <1>1, <1>2, <1>3, <1>4, <2>1, ApplyStep
  <2>3. Version(c)' = Version(c)
    BY <1>1, <1>3, <1>5, <2>2, ReachedStays DEF StoreKept, StoreInv
  <2>4. Reached(c)'
    BY <1>1, <2>2, <2>3 DEF Reached
  <2> QED BY <1>2, <1>3, <2>2, <2>4
<1> QED BY <1>7, <1>8, <1>9

LEMMA EventCommitKeeps ==
  ASSUME SyncInv, ShownInv, FreshInv, NEW r \in Runs, EventCommit(r)
  PROVE  Kept
<1> PICK c : c = run[r].cursor + 1
  OBVIOUS
<1> DEFINE x == [run[r] EXCEPT !.cursor = c]
<1>1. c \in 1..Len(log) /\ StoreKept /\ (log[c].ok => Reached(c)')
  BY EventReaches
<1>2. FeedInv /\ StoreInv /\ DoneInv /\ TxInv /\ Len(log) \in Nat
  BY DEF SyncInv, FeedInv
<1>3. /\ log' = log /\ rec' = rec /\ tx' = NoTx /\ received' = received \cup {c} /\ committed' = c
      /\ run' = [run EXCEPT ![r] = x] /\ run[r].pc = "apply"
  BY DEF EventCommit, EventCursor, source
<1>4. Task(run[r])
  BY <1>2 DEF FeedInv
<1>5. Task(x) /\ x.cursor = c /\ x.pc = "apply"
  BY <1>1, <1>3, <1>4 DEF Task
<1> HIDE DEF x
<1>6. Moved(r, x)
  BY <1>3, <1>5 DEF Moved
<1>7. /\ LogGrows
      /\ run' = [q \in Runs |-> run'[q]] /\ \A q \in Runs : Task(run[q])'
      /\ run'[r] = x /\ \A q \in Runs \ {r} : run'[q] = run[q]
  BY <1>2, <1>6, MovedRuns
<1>8. FeedInv'
  BY <1>1, <1>2, <1>3, <1>7 DEF FeedInv
<1>9. VersionsRise /\ link' \in [PIs -> Link]
  BY <1>1 DEF StoreKept, StoreInv
<1>10. DoneAfter(c)
  <2>1. run[r].cursor \in 0..Len(log) /\ Done(run[r].cursor)
    BY <1>2, <1>4 DEF DoneInv, Task
  <2>2. DoneAfter(run[r].cursor)
    BY <1>2, <1>7, <1>9, <2>1, DoneStays
  <2>3. \A i \in 1..c : i \in 1..run[r].cursor \/ i = c
    BY <2>1
  <2> QED BY <1>1, <1>3, <2>2, <2>3 DEF DoneAfter
<1>11. AppliedAfter(rec'.hw, rec'.at)
  BY <1>2, <1>3, <1>7, <1>9, DoneStays DEF FeedInv, DoneInv
<1>12. DoneInv'
  <2>1. \A i \in received' \ received : log'[i].ok => Reached(i)'
    BY <1>1, <1>3
  <2>2. DoneAfter(committed') /\ DoneAfter(run'[r].cursor) /\ run'[r].pc # "chunk"
    BY <1>3, <1>5, <1>7, <1>10
  <2> QED BY <1>1, <1>7, <1>11, <2>1, <2>2, DoneKeeps
<1>13. TxInv' /\ SnapshotInv' /\ FreshInv'
  BY <1>3, SnapshotStays DEF TxInv
<1> QED BY <1>1, <1>8, <1>12, <1>13 DEF Kept

\* Every event of a PI up to the high watermark has reached its link when the
\* latest of them has.
LEMMA ItemReaches ==
  ASSUME FeedInv, StoreInv, StoreKept, LogGrows, log' = log, NEW hw \in 0..Len(log),
         NEW p \in Items(hw), link'[p].ver >= Version(ItemIndex(p, hw))
  PROVE  \A i \in 1..hw : log[i].pi = p => Reached(i)'
<1> SUFFICES ASSUME NEW i \in 1..hw, log[i].pi = p PROVE Reached(i)'
  OBVIOUS
<1> DEFINE n == ItemIndex(p, hw)
<1>1. log \in Seq(Event) /\ Len(log) \in Nat
  BY DEF FeedInv
<1>2. n \in 1..hw /\ Version(i) <= Version(n)
  BY <1>1, ItemIndexFacts
<1> HIDE DEF n
<1>3. i \in 1..Len(log) /\ n \in 1..Len(log)
  BY <1>1, <1>2
<1>4. Version(i) \in Nat /\ Version(n) \in Nat
  BY <1>1, <1>3, VersionType
<1>5. p \in PIs
  BY <1>1, ItemsArePIs
<1>6. link'[p].ver \in Nat
  BY <1>5 DEF StoreKept, StoreInv, Link
<1>7. link'[p].ver >= Version(i)
  BY <1>2, <1>4, <1>6 DEF n
<1>8. Version(i)' = Version(i)
  BY <1>3, ReachedStays DEF StoreKept, StoreInv
<1> QED BY <1>7, <1>8 DEF Reached

LEMMA ChunkCommitKeeps ==
  ASSUME SyncInv, ShownInv, FreshInv, NEW r \in Runs, ChunkCommit(r)
  PROVE  Kept
<1> DEFINE hw == run[r].plan.hw
           p == NextItem(r)
           n == ItemIndex(p, hw)
           x == [run[r] EXCEPT !.at = p]
<1>1. FeedInv /\ StoreInv /\ DoneInv /\ TxInv /\ log \in Seq(Event) /\ Len(log) \in Nat
  BY DEF SyncInv, FeedInv
<1>2. /\ log' = log /\ rec' = [hw |-> hw, at |-> p] /\ tx' = NoTx /\ received' = received
      /\ committed' = committed /\ run' = [run EXCEPT ![r] = x] /\ run[r].pc = "chunk"
      /\ tx.run = r /\ ApplyState(p, n)
  BY DEF ChunkCommit, source
<1>3. tx # NoTx
  <2>1. NoTx.run = NoRun /\ r # NoRun
    BY RunsAssumption DEF NoTx, NoRun
  <2> QED BY <1>2, <2>1
<1>4. Task(run[r])
  BY <1>1 DEF FeedInv
<1>5. Left(r) # {}
  BY <1>1, <1>2, <1>3 DEF TxInv, AtWork
<1>6. hw \in 0..Len(log)
  <2>1. hw \in -1..Len(log)
    BY <1>4 DEF Task
  <2>2. Items(hw) # {}
    BY <1>5 DEF Left
  <2>3. hw # -1
    BY <2>2 DEF Items
  <2> QED BY <2>1, <2>3, <1>1
<1>7. p \in Left(r) /\ p \in Items(hw) /\ p \in PIs /\ \A q \in Left(r) : p <= q
  BY <1>1, <1>5, <1>6, NextItemFacts
<1>8. p \in Nat
  BY <1>7, PIsAssumption
<1>9. Task(x) /\ x.at = p /\ x.cursor = run[r].cursor /\ x.plan = run[r].plan
  BY <1>4, <1>8 DEF Task
<1> HIDE DEF x, p
<1>10. Moved(r, x)
  BY <1>2, <1>9 DEF Moved
<1>11. /\ LogGrows
       /\ run' = [q \in Runs |-> run'[q]] /\ \A q \in Runs : Task(run[q])'
       /\ run'[r] = x /\ \A q \in Runs \ {r} : run'[q] = run[q]
  BY <1>1, <1>10, MovedRuns
<1>12. FeedInv'
  BY <1>1, <1>2, <1>6, <1>8, <1>11 DEF FeedInv
<1>13. n \in 1..hw /\ log[n].pi = p
  BY <1>1, <1>6, <1>7, ItemIndexFacts
<1>14. StoreKept /\ link'[p].ver >= Version(n)
  <2>1. n \in 1..Len(log)
    BY <1>1, <1>6, <1>13
  <2> QED BY <1>1, <1>2, <1>3, <1>7, <1>13, <2>1, ApplyStep
<1>15. VersionsRise /\ link' \in [PIs -> Link]
  BY <1>14 DEF StoreKept, StoreInv
<1>16. AppliedAfter(hw, p)
  <2>1. \A i \in 1..hw : log[i].pi = p => Reached(i)'
    BY <1>1, <1>2, <1>6, <1>7, <1>11, <1>14, ItemReaches
  <2>2. Applied(hw, run[r].at) /\ run[r].at \in Nat
    BY <1>1, <1>2, <1>4 DEF DoneInv, Task
  <2>3. AppliedAfter(hw, run[r].at)
    BY <1>1, <1>6, <1>11, <1>15, <2>2, DoneStays
  <2>4. ASSUME NEW i \in 1..hw, log[i].pi <= p PROVE log[i].pi = p \/ log[i].pi <= run[r].at
    <3>1. log[i].pi \in Items(hw) /\ Items(hw) \subseteq PIs
      BY <1>1, <1>6, ItemsArePIs DEF Items
    <3>2. log[i].pi \in Nat
      BY <3>1, PIsAssumption
    <3>3. log[i].pi > run[r].at => log[i].pi \in Left(r)
      BY <3>1 DEF Left
    <3> QED BY <1>7, <1>8, <2>2, <2>4, <3>2, <3>3
  <2> QED BY <1>2, <2>1, <2>3, <2>4 DEF AppliedAfter
<1>17. DoneInv'
  <2>1. DoneAfter(committed') /\ DoneAfter(run'[r].cursor)
    <3>1. /\ committed \in 0..Len(log) /\ Done(committed)
          /\ run[r].cursor \in 0..Len(log) /\ Done(run[r].cursor)
      BY <1>1, <1>4 DEF FeedInv, DoneInv, Task
    <3> QED BY <1>1, <1>2, <1>9, <1>11, <1>15, <3>1, DoneStays
  <2>2. AppliedAfter(run'[r].plan.hw, run'[r].at) /\ AppliedAfter(rec'.hw, rec'.at)
    BY <1>2, <1>9, <1>11, <1>16
  <2>3. \A i \in received' \ received : log'[i].ok => Reached(i)'
    BY <1>2
  <2> QED BY <1>11, <1>14, <2>1, <2>2, <2>3, DoneKeeps
<1>18. TxInv' /\ SnapshotInv' /\ FreshInv'
  BY <1>2, SnapshotStays DEF TxInv
<1> QED BY <1>12, <1>14, <1>17, <1>18 DEF Kept

LEMMA ReconcileCheckKeeps ==
  ASSUME SyncInv, ShownInv, FreshInv, NEW r \in Runs, ReconcileCheck(r)
  PROVE  Kept
<1> DEFINE hw == run[r].plan.hw
           from == IF CanResume(r) THEN rec.at ELSE NoPI
           x == [[[run[r] EXCEPT !.pc = "chunk"] EXCEPT !.at = from] EXCEPT !.cursor = committed]
<1>1. FeedInv /\ StoreInv /\ DoneInv /\ TxInv /\ log \in Seq(Event) /\ Len(log) \in Nat
  BY DEF SyncInv, FeedInv
<1>2. UNCHANGED store /\ log' = log /\ rec' = [hw |-> hw, at |-> from] /\ tx' = tx
      /\ received' = received /\ committed' = committed /\ run[r].pc = "check"
      /\ hw = Len(log)
  BY DEF ReconcileCheck, AsPreviewed, source
<1>3. run' = [run EXCEPT ![r] = x]
  BY <1>1 DEF ReconcileCheck, FeedInv
<1>4. Task(run[r]) /\ from \in Nat /\ committed \in 0..Len(log)
  BY <1>1 DEF FeedInv, NoPI
<1> HIDE DEF from
<1>5. Task(x) /\ x.at = from /\ x.cursor = committed /\ x.plan = run[r].plan
  BY <1>4 DEF Task, Stages
<1> HIDE DEF x
<1>6. Moved(r, x)
  BY <1>2, <1>3, <1>5 DEF Moved
<1>7. /\ LogGrows
      /\ run' = [q \in Runs |-> run'[q]] /\ \A q \in Runs : Task(run[q])'
      /\ run'[r] = x /\ \A q \in Runs \ {r} : run'[q] = run[q]
  BY <1>1, <1>6, MovedRuns
<1>8. FeedInv'
  BY <1>1, <1>2, <1>4, <1>7 DEF FeedInv
<1>9. StoreKept
  BY <1>1, <1>2, StoreUnchanged
<1>10. VersionsRise /\ link' \in [PIs -> Link]
  BY <1>9 DEF StoreKept, StoreInv
<1>11. AppliedAfter(hw, from)
  <2>1. Applied(hw, from)
    <3>1. CASE CanResume(r)
      BY <1>1, <3>1 DEF CanResume, DoneInv, from
    <3>2. CASE ~CanResume(r)
      <4> SUFFICES ASSUME NEW i \in 1..hw PROVE ~(log[i].pi <= 0)
        BY <3>2 DEF Applied, from, NoPI
      <4>1. log[i] \in Event
        BY <1>1, <1>2
      <4>2. log[i].pi \in Nat \ {0}
        BY <4>1, PIsAssumption DEF Event
      <4> QED BY <4>2
    <3> QED BY <3>1, <3>2
  <2> QED BY <1>1, <1>2, <1>4, <1>7, <1>10, <2>1, DoneStays
<1>12. DoneInv'
  <2>1. DoneAfter(committed') /\ DoneAfter(run'[r].cursor)
    <3>1. Done(committed)
      BY <1>1 DEF DoneInv
    <3> QED BY <1>1, <1>2, <1>4, <1>5, <1>7, <1>10, <3>1, DoneStays
  <2>2. AppliedAfter(run'[r].plan.hw, run'[r].at) /\ AppliedAfter(rec'.hw, rec'.at)
    BY <1>2, <1>5, <1>7, <1>11
  <2>3. \A i \in received' \ received : log'[i].ok => Reached(i)'
    BY <1>2
  <2> QED BY <1>7, <1>9, <2>1, <2>2, <2>3, DoneKeeps
<1>13. TxInv'
  <2>1. tx = NoTx \/ tx.run # r
    BY <1>1, <1>2, NotAtWork
  <2>2. tx = NoTx \/ run'[tx.run] = run[tx.run]
    BY <1>1, <1>7, <2>1 DEF TxInv
  <2> QED BY <1>1, <1>2, <1>7, <2>2, TxStays
<1>14. SnapshotInv' /\ FreshInv'
  BY <1>2, SnapshotStays
<1> QED BY <1>8, <1>9, <1>12, <1>13, <1>14 DEF Kept

LEMMA ReconcileFinishKeeps ==
  ASSUME SyncInv, ShownInv, FreshInv, NEW r \in Runs, ReconcileFinish(r)
  PROVE  Kept
<1> DEFINE hw == run[r].plan.hw
<1>1. FeedInv /\ StoreInv /\ DoneInv /\ TxInv /\ log \in Seq(Event) /\ Len(log) \in Nat
  BY DEF SyncInv, FeedInv
<1>2. UNCHANGED store /\ log' = log /\ rec' = NoRec /\ tx' = tx /\ tx = NoTx
      /\ received' = received /\ committed' = ReconciledCursor(r) /\ run[r].pc = "chunk"
      /\ Left(r) = {} /\ run' = [run EXCEPT ![r] = Idle]
  BY DEF ReconcileFinish, source
<1>3. Task(run[r]) /\ Task(Idle) /\ Idle.cursor = 0 /\ Idle.pc = "idle"
  BY <1>1, IdleTask DEF FeedInv
<1>4. run[r].cursor \in 0..Len(log) /\ hw \in -1..Len(log) /\ run[r].at \in Nat
  BY <1>3 DEF Task
<1>5. Moved(r, Idle)
  BY <1>2, <1>3 DEF Moved
<1>6. /\ LogGrows
      /\ run' = [q \in Runs |-> run'[q]] /\ \A q \in Runs : Task(run[q])'
      /\ run'[r] = Idle /\ \A q \in Runs \ {r} : run'[q] = run[q]
  BY <1>1, <1>5, MovedRuns
<1>7. committed' \in 0..Len(log)
  BY <1>1, <1>2, <1>4 DEF ReconciledCursor
<1>8. rec' = [hw |-> rec'.hw, at |-> rec'.at] /\ rec'.hw = -1 /\ rec'.at = 0
  BY <1>2 DEF NoRec, NoPI
<1>9. FeedInv'
  BY <1>1, <1>2, <1>6, <1>7, <1>8 DEF FeedInv
<1>10. StoreKept
  BY <1>1, <1>2, StoreUnchanged
<1>11. VersionsRise /\ link' \in [PIs -> Link]
  BY <1>10 DEF StoreKept, StoreInv
<1>12. DoneAfter(committed')
  <2>1. DoneAfter(run[r].cursor)
    BY <1>1, <1>4, <1>6, <1>11, DoneStays DEF DoneInv
  <2>2. AppliedAfter(hw, run[r].at)
    BY <1>1, <1>2, <1>4, <1>6, <1>11, DoneStays DEF DoneInv
  <2>3. ASSUME NEW i \in 1..hw PROVE Reached(i)'
    <3>1. hw \in 0..Len(log) /\ log[i].pi \in Items(hw)
      BY <1>4 DEF Items
    <3>2. log[i].pi \in Nat
      BY <1>1, <3>1, ItemsArePIs, PIsAssumption
    <3>3. ~(log[i].pi > run[r].at)
      BY <1>2, <3>1 DEF Left
    <3>4. log'[i].pi <= run[r].at
      BY <1>2, <1>4, <3>2, <3>3
    <3> QED BY <2>2, <3>4 DEF AppliedAfter
  <2> QED BY <1>2, <2>1, <2>3 DEF DoneAfter, ReconciledCursor
<1>13. DoneInv'
  <2>1. DoneAfter(run'[r].cursor) /\ run'[r].pc # "chunk"
    BY <1>3, <1>6 DEF DoneAfter
  <2>2. AppliedAfter(rec'.hw, rec'.at)
    BY <1>8 DEF AppliedAfter
  <2>3. \A i \in received' \ received : log'[i].ok => Reached(i)'
    BY <1>2
  <2> QED BY <1>6, <1>10, <1>12, <2>1, <2>2, <2>3, DoneKeeps
<1>14. TxInv' /\ SnapshotInv' /\ FreshInv'
  BY <1>2, SnapshotStays DEF TxInv
<1> QED BY <1>9, <1>10, <1>13, <1>14 DEF Kept
-----------------------------------------------------------------------------
(* Every step. *)

LEMMA LeaseStep == ASSUME LeaseInv, [Next]_vars PROVE LeaseInv'
<1>1. lease.owner \in Runs \cup {NoRun, Ghost} /\ lease.expired \in BOOLEAN
  BY DEF LeaseInv
<1>2. CASE lease' = lease
  BY <1>2 DEF LeaseInv
<1>3. CASE \E r \in Runs : lease' = [owner |-> r, expired |-> FALSE]
  BY <1>3 DEF LeaseInv
<1>4. CASE lease' = [owner |-> NoRun, expired |-> FALSE]
  BY <1>4 DEF LeaseInv
<1>5. CASE lease' = [lease EXCEPT !.expired = TRUE] \/ lease' = [lease EXCEPT !.expired = FALSE]
           \/ lease' = [lease EXCEPT !.owner = Ghost]
  BY <1>5 DEF LeaseInv
<1>6. ASSUME NEW r \in Runs, RunActions(r)
      PROVE  \/ lease' = lease
             \/ lease' = [owner |-> r, expired |-> FALSE]
             \/ lease' = [owner |-> NoRun, expired |-> FALSE]
             \/ lease' = [lease EXCEPT !.expired = FALSE]
             \/ lease' = [lease EXCEPT !.owner = Ghost]
  BY <1>6 DEF RunActions, RunStep, Acquire, Refused, FetchEvents, EventBegin, EventCommit, PageDone,
              ReconcileCheck, ChunkBegin, ChunkCommit, ReconcileFinish, StartIncremental,
              ReconcilePreviewed, RunFails, Crash, Release
<1>7. People => lease' = lease
  BY DEF People, CreateOrderTracker, UpdateOrderTracker, ResolveSynchronizedOrderCustomer, Person
<1>8. SourceEvent => lease' = lease
  BY DEF SourceEvent
<1>9. LeaseExpires => lease' = [lease EXCEPT !.expired = TRUE]
  BY DEF LeaseExpires
<1>10. UNCHANGED vars => lease' = lease
  BY DEF vars
<1>11. Next => SourceEvent \/ LeaseExpires \/ (\E r \in Runs : RunActions(r)) \/ People
  BY DEF Next, RunActions, People
<1> QED BY <1>2, <1>3, <1>4, <1>5, <1>6, <1>7, <1>8, <1>9, <1>10, <1>11

LEMMA SyncStep ==
  ASSUME SyncInv, ShownInv, FreshInv, [Next]_vars
  PROVE  Kept /\ LeaseInv'
<1>1. FeedInv /\ StoreInv /\ TxInv /\ LeaseInv
  BY DEF SyncInv
<1>2. LeaseInv'
  BY <1>1, LeaseStep
<1>3. CASE SourceEvent
  <2>1. PICK p \in PIs, no \in OrderNos, active \in BOOLEAN, ok \in Validity :
          log' = Append(log, [pi |-> p, no |-> no, active |-> active, ok |-> ok])
    BY <1>3 DEF SourceEvent
  <2> DEFINE e == [pi |-> p, no |-> no, active |-> active, ok |-> ok]
  <2>2. e \in Event
    BY SwitchesAssumption DEF Event
  <2> HIDE DEF e
  <2>3. log' = Append(log, e) /\ Len(log) < MaxEvents /\ log \in Seq(Event)
    BY <1>1, <1>3, <2>1 DEF SourceEvent, FeedInv, e
  <2>4. LogGrows
    BY <2>2, <2>3, BoundsAssumption DEF LogGrows
  <2>5. UNCHANGED <<received, committed, rec, run, tx>> /\ UNCHANGED store
    BY <1>3 DEF SourceEvent, state
  <2>6. StoreKept
    BY <1>1, <2>5, StoreUnchanged
  <2> QED BY <1>2, <2>4, <2>5, <2>6, QuietKeeps, SnapshotStays DEF Kept
<1>4. CASE LeaseExpires \/ UNCHANGED vars
  <2>1. UNCHANGED <<received, committed, rec, run, tx>> /\ UNCHANGED store /\ log' = log
    BY <1>4 DEF LeaseExpires, vars, state, store
  <2>2. StoreKept /\ LogGrows
    BY <1>1, <2>1, StoreUnchanged, LogStays
  <2> QED BY <1>2, <2>1, <2>2, QuietKeeps, SnapshotStays DEF Kept
<1>5. CASE People
  <2>1. UNCHANGED <<received, committed, rec, run, tx>> /\ log' = log
    BY <1>5 DEF People, CreateOrderTracker, UpdateOrderTracker, ResolveSynchronizedOrderCustomer,
                Person, state
  <2>2. PICK K : Touch(K)
    BY <1>1, <1>5, PeopleTouch
  <2>3. Overlap \/ tx = NoTx
    BY <1>1, <1>5, PeopleTouch
  <2>4. StoreKept /\ LogGrows /\ SnapshotInv' /\ FreshInv'
    BY <1>1, <2>1, <2>2, <2>3, TouchKeeps, TouchKeepsSnapshot, LogStays
  <2> QED BY <1>2, <2>1, <2>4, QuietKeeps DEF Kept
<1>6. ASSUME NEW r \in Runs, RunActions(r) PROVE Kept
  <2>1. Opens(r) \/ (\E x : Goes(r, x)) \/ Commits(r)
    BY <1>1, <1>6, RunKinds
  <2>2. CASE Opens(r)
    BY <2>2, OpensKeeps
  <2>3. CASE \E x : Goes(r, x)
    BY <2>3, GoesKeeps
  <2>4. CASE Commits(r)
    BY <2>4, EventCommitKeeps, ChunkCommitKeeps, ReconcileCheckKeeps, ReconcileFinishKeeps DEF Commits
  <2> QED BY <2>1, <2>2, <2>3, <2>4
<1>7. Next => SourceEvent \/ LeaseExpires \/ (\E r \in Runs : RunActions(r)) \/ People
  BY DEF Next, RunActions, People
<1> QED BY <1>2, <1>3, <1>4, <1>5, <1>6, <1>7

ContractInv == SyncInv /\ ShownInv /\ FreshInv /\ (~Overlap => MarkedInv)

LEMMA ContractInit == Init => ContractInv
<1> SUFFICES ASSUME Init PROVE ContractInv
  OBVIOUS
<1>1. log = <<>> /\ rows = <<>> /\ \A p \in PIs : link[p] = NoLink
  BY DEF Init
<1>2. \A p \in PIs : link[p].row = NoRow /\ ~link[p].active /\ link[p].ver = 0
  BY <1>1 DEF NoLink
<1>3. NoLink \in Link
  BY DEF NoLink, Link, Modes, Matches, NoRow
<1>4. Len(log) = 0 /\ Len(rows) = 0 /\ log \in Seq(Event) /\ rows \in Seq(Row)
  BY <1>1
<1>5. Task(Idle)
  BY <1>4 DEF Task, Idle, Stages, NoPI, NoPlan
<1>6. FeedInv
  BY <1>4, <1>5, BoundsAssumption DEF Init, FeedInv, NoRec, NoPI
<1>7. LeaseInv /\ TxInv
  BY DEF Init, LeaseInv, TxInv
<1>8. StoreInv
  BY <1>2, <1>3, <1>4, BoundsAssumption DEF Init, StoreInv, NoRow
<1>9. DoneInv
  BY DEF Init, DoneInv, Done, Applied, Idle, NoRec
<1>10. SnapshotInv /\ FreshInv
  BY DEF Init, SnapshotInv, FreshInv
<1>11. OneHolder /\ LinksAreLive /\ NoSilentGap /\ MarkedInv
  BY <1>2 DEF OneHolder, LinksAreLive, NoSilentGap, MarkedInv
<1> QED BY <1>6, <1>7, <1>8, <1>9, <1>10, <1>11 DEF ContractInv, SyncInv, ShownInv

LEMMA ContractStep == ContractInv /\ [Next]_vars => ContractInv'
<1> SUFFICES ASSUME ContractInv, [Next]_vars PROVE ContractInv'
  OBVIOUS
<1>1. Kept /\ LeaseInv'
  BY SyncStep DEF ContractInv
<1>2. ~Overlap => MarkedInv'
  BY <1>1 DEF Kept, StoreKept, ContractInv
<1> QED BY <1>1, <1>2 DEF ContractInv, SyncInv, ShownInv, Kept, StoreKept

LEMMA ContractInvariant == Spec => []ContractInv
BY ContractInit, ContractStep, PTL DEF Spec

\* Every column holds a value of its type, and every cursor, receipt and row
\* that something refers to exists.
THEOREM TypeCorrect == Spec => []TypeOK
<1>1. ContractInv => TypeOK
  <2> SUFFICES ASSUME ContractInv PROVE TypeOK
    OBVIOUS
  <2>1. FeedInv /\ LeaseInv /\ TxInv /\ StoreInv
    BY DEF ContractInv, SyncInv
  <2>2. \A k \in DOMAIN rows : rows[k] \in Row
    BY <2>1 DEF StoreInv
  <2>3. ASSUME NEW p \in PIs
        PROVE  link[p].ver \in 0..MaxEvents /\ link[p].row \in 0..Len(rows) /\ open[p] \subseteq Types
    <3>1. link[p] \in Link /\ link[p].ver <= MaxEvents /\ link[p].row <= Len(rows)
          /\ rows \in Seq(Row)
      BY <2>1 DEF StoreInv
    <3>2. open[p] \subseteq Types
      BY <2>1 DEF StoreInv
    <3> QED BY <3>1, <3>2, BoundsAssumption DEF Link
  <2>4. lease.owner \in Runs \cup {NoRun, Ghost}
    BY <2>1 DEF LeaseInv
  <2>5. tx.run \in Runs \cup {NoRun}
    BY <2>1 DEF TxInv, NoTx
  <2>6. received \subseteq 1..Len(log) /\ committed \in 0..Len(log)
    BY <2>1 DEF FeedInv
  <2> QED BY <2>2, <2>3, <2>4, <2>5, <2>6 DEF TypeOK, Row, Types
<1> QED BY <1>1, ContractInvariant, PTL

\* No event of the source is lost: every valid one at or before the committed
\* cursor has reached its link, at its version or a later one, whatever runs
\* overlap, crash, lose their lease, start from an old cursor or resume somebody
\* else's reconcile (processEvent, applyMuContractReconcile).
THEOREM NothingIsSkippedAlways == Spec => []NothingIsSkipped
<1>1. ContractInv => NothingIsSkipped
  BY DEF ContractInv, SyncInv, DoneInv, Done, Reached, NothingIsSkipped
<1> QED BY <1>1, ContractInvariant, PTL

\* A PI that is active is shown by a live row with its number, or an open
\* conflict says that it is not, although people and other transactions commit
\* between the snapshot of a transaction and its writes (applyMuContractOrderState).
THEOREM NoSilentGapAlways == Spec => []NoSilentGap
<1>1. ContractInv => NoSilentGap
  BY DEF ContractInv, ShownInv
<1> QED BY <1>1, ContractInvariant, PTL

\* No two PIs show on one row, and none on a row that was archived.
THEOREM LinksAlwaysLive == Spec => [](LinksAreLive /\ OneHolder)
<1>1. ContractInv => LinksAreLive /\ OneHolder
  BY DEF ContractInv, ShownInv
<1> QED BY <1>1, ContractInvariant, PTL

\* No link goes back to an older state of its PI, whatever is replayed (the
\* comparison of versions in applyMuContractOrderState).
THEOREM VersionsOnlyGrowAlways == Spec => VersionsOnlyGrow
<1>1. ContractInv /\ [Next]_vars => [\A p \in PIs : link'[p].ver >= link[p].ver]_vars
  BY SyncStep DEF ContractInv, Kept, StoreKept, VersionsRise
<1> QED BY <1>1, ContractInvariant, PTL DEF Spec, VersionsOnlyGrow

\* When nobody commits between a snapshot and the writes decided from it: a row
\* that somebody edited is never archived by the synchronisation, and a customer
\* that somebody chose is never replaced.  With such commits it is refuted
\* (contract_race.cfg).
THEOREM HumanWorkIsKeptAlways == ~Overlap => (Spec => HumanWorkIsKept)
<1> SUFFICES ASSUME ~Overlap PROVE Spec => HumanWorkIsKept
  OBVIOUS
<1>1. ContractInv /\ [Next]_vars =>
        [\A k \in DOMAIN rows :
           /\ rows[k].live /\ rows[k].touched => rows'[k].live
           /\ rows[k].cust = "human" => rows'[k].cust = "human"]_vars
  BY SyncStep DEF ContractInv, Kept, StoreKept, WorkKept
<1> QED BY <1>1, ContractInvariant, PTL DEF Spec, HumanWorkIsKept
================================================================================
