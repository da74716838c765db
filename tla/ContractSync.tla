---- MODULE ContractSync ----
(***************************************************************************)
(* Synchronisation of the Orders page with MU Contract: the feed is pulled *)
(* event by event under a database lease, a reconcile applies a whole      *)
(* snapshot that an administrator has previewed, and people edit the same  *)
(* rows.  (src/src/lib/integrations/mu-contract-*.ts)                      *)
(*                                                                         *)
(* A row of Orders is its position in `rows'.  The cursor of an event is   *)
(* its position in the source's log, its version the number of events the  *)
(* log holds of that PI up to it.  A transaction that applies an event     *)
(* takes the row lock of the sync state first and its snapshot after it,   *)
(* so two of them never overlap: `tx' is the one that is open.             *)
(***************************************************************************)
EXTENDS Integers, Sequences, FiniteSets

CONSTANTS
    PIs,         \* identities of the source, ordered as its snapshot pages are
    OrderNos,    \* normalised order numbers
    Runs,        \* runs of the synchronisation that may be under way at once
    Batch,       \* events per page of the feed
    Resolutions, \* what the customer resolver may answer
    Validity,    \* BOOLEAN when the feed may hold an invalid event
    Overlap,     \* people may commit while a transaction of a run is open
    MaxEvents,   \* bound on the source's log
    MaxRows,     \* bound on the rows of Orders
    MaxPreviews, \* bound on the reconciles that are previewed
    MaxHuman,    \* bound on the other operations of people
    MaxFaults    \* bound on crashes, failed calls and leases that run out

ASSUME PIsAssumption == PIs \subseteq Nat \ {0}
ASSUME RunsAssumption == {0, -1} \cap Runs = {}
ASSUME BoundsAssumption == /\ Batch \in Nat \ {0}
                           /\ {MaxEvents, MaxRows, MaxPreviews, MaxHuman, MaxFaults} \subseteq Nat
ASSUME SwitchesAssumption == Overlap \in BOOLEAN /\ Validity \subseteq BOOLEAN

VARIABLES
    log,        \* the events of the source
    rows,       \* OrderTracker
    link,       \* ExternalOrderSourceLink, by PI
    open,       \* open IntegrationSyncConflict types, by PI
    received,   \* cursors with an IntegrationEventReceipt
    committed,  \* committedCursor
    reconciled, \* initialReconcileCompletedAt is set
    rec,        \* reconcileHighWatermark and reconcileCursor
    lease,      \* leaseOwner, and whether leaseExpiresAt has passed
    run,        \* what each run holds in memory
    tx,         \* the open transaction of a run and its snapshot
    previews, human, faults   \* how much of the bounds is used

source == <<log, previews, human, faults>>
store == <<rows, link, open>>
state == <<committed, reconciled, rec>>
vars == <<log, rows, link, open, received, committed, reconciled, rec, lease, run, tx,
          previews, human, faults>>

NoRow == 0
NoRun == 0
Ghost == -1    \* the owner of a lease whose process is gone
NewRow == -1
NoPI == 0

NoLink == [ver |-> 0, row |-> NoRow, no |-> "-", mode |-> "-", active |-> FALSE, edited |-> FALSE,
           match |-> "-"]
NoTx == [run |-> NoRun, rows |-> <<>>, link |-> <<>>]
NoPlan == [hw |-> -1, target |-> <<>>, manual |-> {}]
NoRec == [hw |-> -1, at |-> NoPI]
Idle == [pc |-> "idle", cursor |-> 0, upto |-> 0, more |-> FALSE, at |-> NoPI, plan |-> NoPlan]

Init ==
    /\ log = <<>> /\ rows = <<>> /\ received = {} /\ previews = 0 /\ human = 0 /\ faults = 0
    /\ link = [p \in PIs |-> NoLink]
    /\ open = [p \in PIs |-> {}]
    /\ committed = 0 /\ reconciled = FALSE /\ rec = NoRec
    /\ lease = [owner |-> NoRun, expired |-> FALSE]
    /\ run = [r \in Runs |-> Idle]
    /\ tx = NoTx

-----------------------------------------------------------------------------
(* The source: its feed and its snapshot. *)

Version(i) == Cardinality({j \in 1..i : log[j].pi = log[i].pi})

\* The snapshot at a high watermark: the last state of every PI, tombstones included.
Items(hw) == {log[i].pi : i \in 1..hw}
ItemIndex(p, hw) == CHOOSE i \in 1..hw : log[i].pi = p /\ \A j \in (i + 1)..hw : log[j].pi # p

SourceEvent ==
    \E p \in PIs, no \in OrderNos, active \in BOOLEAN, ok \in Validity :
      /\ Len(log) < MaxEvents
      /\ ok \/ \A i \in DOMAIN log : log[i].ok    \* bound: one invalid event
      /\ ~active => /\ p \in Items(Len(log))
                    /\ log[ItemIndex(p, Len(log))].no = no
                    /\ log[ItemIndex(p, Len(log))].active
      /\ log' = Append(log, [pi |-> p, no |-> no, active |-> active, ok |-> ok])
      /\ UNCHANGED <<store, received, state, lease, run, tx, previews, human, faults>>

-----------------------------------------------------------------------------
(* What one state of the source does to Orders, decided from a snapshot s. *)

RowOf(s, no) == LET S == {k \in DOMAIN s.rows : s.rows[k].live /\ s.rows[k].no = no}
                IN  IF S = {} THEN NoRow ELSE CHOOSE k \in S : TRUE

Holders(s, p, k) == {q \in PIs \ {p} : k # NoRow /\ s.link[q].row = k}
Blocked(s, p, k) == \E q \in Holders(s, p, k) : s.link[q].active

RowMatch(s, k) == IF s.rows[k].cust = "none" THEN "UNMATCHED" ELSE "MATCHED"

\* What stays as it is, unless the decision says otherwise.
Keep(s, p) == [row |-> s.link[p].row, mode |-> s.link[p].mode, match |-> s.link[p].match,
               archive |-> NoRow, rename |-> FALSE, detach |-> {}, conflict |-> {},
               resolve |-> FALSE]

Collision(s, p, type) == [Keep(s, p) EXCEPT !.match = "CONFLICT", !.conflict = {type}]

\* Fault: a row is attached although another PI that is active shows on it.
AttachIgnoringHolder(s, p, e) ==
    LET k == RowOf(s, e.no)
    IN  IF k = NoRow
        THEN [Keep(s, p) EXCEPT !.row = NewRow, !.mode = "SYNC", !.resolve = TRUE]
        ELSE [Keep(s, p) EXCEPT !.row = k, !.mode = "MANUAL", !.match = RowMatch(s, k),
                                !.detach = Holders(s, p, k)]

CreateOrAttach(s, p, e) ==
    LET k == RowOf(s, e.no)
    IN  CASE k = NoRow -> [Keep(s, p) EXCEPT !.row = NewRow, !.mode = "SYNC", !.resolve = TRUE]
          [] k # NoRow /\ Blocked(s, p, k) ->
               [Collision(s, p, "SOURCE_LINK") EXCEPT
                  !.mode = IF s.link[p].ver = 0 THEN "SYNC" ELSE s.link[p].mode]
          [] OTHER -> [Keep(s, p) EXCEPT !.row = k, !.mode = "MANUAL", !.match = RowMatch(s, k),
                                         !.detach = Holders(s, p, k)]

MayTransfer(s, p) == s.link[p].mode = "SYNC" /\ ~s.link[p].edited

RenameOnto(s, p, k) ==
    CASE Blocked(s, p, k) -> Collision(s, p, "SOURCE_LINK")
      [] ~Blocked(s, p, k) /\ MayTransfer(s, p) ->
           [Keep(s, p) EXCEPT !.archive = s.link[p].row, !.row = k, !.mode = "MANUAL",
                              !.match = RowMatch(s, k), !.detach = Holders(s, p, k)]
      [] OTHER -> Collision(s, p, IF s.link[p].mode = "SYNC" THEN "HUMAN_EDITED" ELSE "ORDER_NO")

RenameInPlace(s, p, e) ==
    LET k == s.link[p].row
        retry == s.link[p].mode = "SYNC" /\ s.rows[k].cust = "none"
    IN  [Keep(s, p) EXCEPT !.rename = s.rows[k].no # e.no, !.resolve = retry,
                           !.match = RowMatch(s, k)]

Decide(s, p, e) ==
    LET k == RowOf(s, e.no)
    IN  CASE s.link[p].row = NoRow -> CreateOrAttach(s, p, e)
          [] s.link[p].row # NoRow /\ ~e.active -> Keep(s, p)
          [] s.link[p].row # NoRow /\ e.active /\ k \notin {NoRow, s.link[p].row} ->
               RenameOnto(s, p, k)
          [] OTHER -> RenameInPlace(s, p, e)

\* The unique index on the order number, read when the statement runs.
Clashes(d, e) == (d.row = NewRow \/ d.rename) /\ RowOf([rows |-> rows], e.no) # NoRow

\* The decision written over the rows as they are now, the resolver having answered res.
WriteRows(d, p, e, res) ==
    LET customer == IF res = "MATCHED" THEN "sync" ELSE "none"
        current == link[p].row
        kept == [k \in DOMAIN rows |->
                   [rows[k] EXCEPT
                      !.live = @ /\ k # d.archive,
                      !.no = IF d.rename /\ k = d.row THEN e.no ELSE @,
                      !.cust = IF d.resolve /\ k = d.row /\ res = "MATCHED" THEN "sync" ELSE @]]
    IN  IF d.row = NewRow
        THEN Append(kept, [no |-> e.no, live |-> TRUE, touched |-> FALSE, cust |-> customer])
        ELSE kept

WriteLink(d, p, e, v, res) ==
    [q \in PIs |->
       IF q = p
       THEN [ver |-> v, no |-> e.no, active |-> e.active, edited |-> link[p].edited,
             mode |-> d.mode, match |-> IF d.resolve THEN res ELSE d.match,
             row |-> IF d.row = NewRow THEN Len(rows) + 1 ELSE d.row]
       ELSE [link[q] EXCEPT !.row = IF q \in d.detach THEN NoRow ELSE @]]

Conflicts(d, res) == d.conflict \cup IF d.resolve /\ res = "CONFLICT" THEN {"CUSTOMER"} ELSE {}

Stale(p, v) == v < link[p].ver

\* One state of the source applied: an older version than the link's changes nothing.
ApplyState(p, i) ==
    LET e == log[i]
        v == Version(i)
        d == Decide(tx, p, e)
    IN  IF Stale(p, v)
        THEN UNCHANGED store
        ELSE /\ ~Clashes(d, e)
             /\ d.row = NewRow => Len(rows) < MaxRows
             /\ \E res \in IF d.resolve THEN Resolutions ELSE {"-"} :
                  /\ rows' = WriteRows(d, p, e, res)
                  /\ link' = WriteLink(d, p, e, v, res)
                  /\ open' = [open EXCEPT ![p] = Conflicts(d, res)]

-----------------------------------------------------------------------------
(* The lease. *)

Holds(r) == lease.owner = r /\ ~lease.expired

\* Fault: a lease whose owner is gone is never taken over.
OnlyWhenReleased == lease.owner = NoRun

LeaseFree == lease.owner = NoRun \/ lease.expired

Release(r) == lease' = IF lease.owner = r THEN [owner |-> NoRun, expired |-> FALSE] ELSE lease

LeaseExpires ==
    /\ lease.owner # NoRun /\ ~lease.expired
    /\ lease' = [lease EXCEPT !.expired = TRUE]
    /\ IF lease.owner = Ghost THEN UNCHANGED faults ELSE faults < MaxFaults /\ faults' = faults + 1
    /\ UNCHANGED <<log, store, received, state, run, tx, previews, human>>

Acquire(r) ==
    /\ run[r].pc = "wait" /\ tx = NoTx /\ LeaseFree
    /\ lease' = [owner |-> r, expired |-> FALSE]
    /\ run' = [run EXCEPT ![r].pc = IF run[r].plan = NoPlan THEN "fetch" ELSE "check"]
    /\ UNCHANGED <<source, store, received, state, tx>>

\* Somebody else is at work: the run answers "running" and ends.
Refused(r) ==
    /\ run[r].pc = "wait" /\ tx = NoTx /\ ~LeaseFree
    /\ run' = [run EXCEPT ![r] = Idle]
    /\ UNCHANGED <<source, store, received, state, lease, tx>>

-----------------------------------------------------------------------------
(* A run of the feed.  It starts from the cursor it read before the lease. *)

StartIncremental(r) ==
    /\ run[r].pc = "idle" /\ reconciled
    /\ run' = [run EXCEPT ![r] = [Idle EXCEPT !.pc = "wait", !.cursor = committed]]
    /\ UNCHANGED <<source, store, received, state, lease, tx>>

FetchEvents(r) ==
    /\ run[r].pc = "fetch"
    /\ LET upto == IF run[r].cursor + Batch < Len(log) THEN run[r].cursor + Batch ELSE Len(log)
       IN  run' = [run EXCEPT ![r].pc = "apply", ![r].upto = upto, ![r].more = upto < Len(log)]
    /\ UNCHANGED <<source, store, received, state, lease, tx>>

\* The transaction of an event opens: the lease row is locked, then the snapshot taken.
BeginTx(r) ==
    /\ tx = NoTx /\ Holds(r)
    /\ tx' = [run |-> r, rows |-> rows, link |-> link]

EventBegin(r) ==
    /\ run[r].pc = "apply" /\ run[r].cursor < run[r].upto
    /\ BeginTx(r)
    /\ UNCHANGED <<source, store, received, state, lease, run>>

\* Fault: the cursor moves to the end of the page with its first event.
PageCursor(r) == run[r].upto

EventCursor(r) == run[r].cursor + 1

\* The event is applied, its receipt written and the cursor moved, all or nothing.
EventCommit(r) ==
    LET c == run[r].cursor + 1
        e == log[c]
    IN  /\ run[r].pc = "apply" /\ tx.run = r
        /\ CASE c \in received -> UNCHANGED store
             [] c \notin received /\ ~e.ok ->
                  /\ open' = [open EXCEPT ![e.pi] = @ \cup {"INVALID"}]
                  /\ UNCHANGED <<rows, link>>
             [] OTHER -> ApplyState(e.pi, c)
        /\ received' = received \cup {c}
        /\ committed' = EventCursor(r)
        /\ lease' = [lease EXCEPT !.expired = FALSE]
        /\ run' = [run EXCEPT ![r].cursor = c]
        /\ tx' = NoTx
        /\ UNCHANGED <<source, reconciled, rec>>

PageDone(r) ==
    /\ run[r].pc = "apply" /\ run[r].cursor = run[r].upto
    /\ IF run[r].more
       THEN run' = [run EXCEPT ![r].pc = "fetch"] /\ UNCHANGED lease
       ELSE Holds(r) /\ run' = [run EXCEPT ![r] = Idle] /\ Release(r)
    /\ UNCHANGED <<source, store, received, state, tx>>

-----------------------------------------------------------------------------
(* The reconcile: a preview, and the run that applies what was previewed. *)

LinkedRow(s, k) == {s.rows[j] : j \in {k} \ {NoRow}}

\* The evidence a preview keeps of the rows and links its items would touch.
Evidence(s, hw) ==
    [p \in Items(hw) |->
       LET k == RowOf(s, log[ItemIndex(p, hw)].no)
       IN  <<s.link[p], LinkedRow(s, s.link[p].row), k, LinkedRow(s, k), Holders(s, NoPI, k)>>]

ManualOnly(s, hw) ==
    {k \in DOMAIN s.rows : /\ s.rows[k].live
                           /\ \A q \in PIs : s.link[q].row # k
                           /\ \A p \in Items(hw) : log[ItemIndex(p, hw)].no # s.rows[k].no}

Now == [rows |-> rows, link |-> link]

SnapshotReads(hw) == \A p \in Items(hw) : log[ItemIndex(p, hw)].ok

\* An administrator has a preview made and confirms it.  The run keeps what was previewed.
ReconcilePreviewed(r) ==
    /\ run[r].pc = "idle" /\ previews < MaxPreviews
    /\ SnapshotReads(Len(log))
    /\ previews' = previews + 1
    /\ run' = [run EXCEPT ![r] = [Idle EXCEPT !.pc = "wait",
                  !.plan = [hw |-> Len(log), target |-> Evidence(Now, Len(log)),
                            manual |-> ManualOnly(Now, Len(log))]]]
    /\ UNCHANGED <<log, human, faults, store, received, state, lease, tx>>

CanResume(r) == rec.hw = run[r].plan.hw /\ rec.at # NoPI

\* The source and the rows are what was previewed; after a crash, those not yet applied are.
AsPreviewed(r) ==
    LET plan == run[r].plan
    IN  /\ Len(log) = plan.hw /\ SnapshotReads(plan.hw)
        /\ ManualOnly(Now, plan.hw) = plan.manual
        /\ \A p \in Items(plan.hw) :
             p > (IF CanResume(r) THEN rec.at ELSE NoPI) => Evidence(Now, plan.hw)[p] = plan.target[p]

ReconcileCheck(r) ==
    /\ run[r].pc = "check" /\ Holds(r) /\ AsPreviewed(r)
    /\ LET from == IF CanResume(r) THEN rec.at ELSE NoPI
       IN  /\ rec' = [hw |-> run[r].plan.hw, at |-> from]
           /\ run' = [run EXCEPT ![r].pc = "chunk", ![r].at = from, ![r].cursor = committed]
    /\ UNCHANGED <<source, store, received, committed, reconciled, lease, tx>>

Left(r) == {p \in Items(run[r].plan.hw) : p > run[r].at}
NextItem(r) == CHOOSE p \in Left(r) : \A q \in Left(r) : p <= q

ChunkBegin(r) ==
    /\ run[r].pc = "chunk" /\ Left(r) # {}
    /\ BeginTx(r)
    /\ UNCHANGED <<source, store, received, state, lease, run>>

ChunkCommit(r) ==
    /\ run[r].pc = "chunk" /\ tx.run = r
    /\ ApplyState(NextItem(r), ItemIndex(NextItem(r), run[r].plan.hw))
    /\ rec' = [hw |-> run[r].plan.hw, at |-> NextItem(r)]
    /\ run' = [run EXCEPT ![r].at = NextItem(r)]
    /\ lease' = [lease EXCEPT !.expired = FALSE]
    /\ tx' = NoTx
    /\ UNCHANGED <<source, received, committed, reconciled>>

ReconciledCursor(r) ==
    IF run[r].cursor > run[r].plan.hw THEN run[r].cursor ELSE run[r].plan.hw

ReconcileFinish(r) ==
    /\ run[r].pc = "chunk" /\ Left(r) = {} /\ tx = NoTx /\ Holds(r)
    /\ committed' = ReconciledCursor(r)
    /\ reconciled' = TRUE
    /\ rec' = NoRec
    /\ Release(r)
    /\ run' = [run EXCEPT ![r] = Idle]
    /\ UNCHANGED <<source, store, received, tx>>

-----------------------------------------------------------------------------
(* Failure of a run: an error is recorded and the lease released; a crash  *)
(* leaves the lease to run out.  An open transaction is rolled back.       *)

\* The order number a transaction is about to take was taken since its snapshot.
LostTheNumber(r) ==
    /\ tx.run = r
    /\ LET p == IF run[r].pc = "chunk" THEN NextItem(r) ELSE log[run[r].cursor + 1].pi
           i == IF run[r].pc = "chunk" THEN ItemIndex(p, run[r].plan.hw) ELSE run[r].cursor + 1
       IN  ~Stale(p, Version(i)) /\ Clashes(Decide(tx, p, log[i]), log[i])

LostLease(r) == tx.run # r /\ ~Holds(r) /\ run[r].pc \in {"check", "apply", "chunk"}

Drifted(r) == run[r].pc = "check" /\ ~AsPreviewed(r)

Stop(r) ==
    /\ run' = [run EXCEPT ![r] = Idle]
    /\ tx' = IF tx.run = r THEN NoTx ELSE tx
    /\ UNCHANGED <<log, store, received, state, previews, human>>

RunFails(r) ==
    /\ run[r].pc \notin {"idle", "wait"}
    /\ tx.run \in {NoRun, r}
    /\ \/ (LostTheNumber(r) \/ LostLease(r) \/ Drifted(r)) /\ UNCHANGED faults
       \/ ~(LostTheNumber(r) \/ LostLease(r) \/ Drifted(r)) /\ faults < MaxFaults /\ faults' = faults + 1
    /\ Release(r)
    /\ Stop(r)

Crash(r) ==
    /\ run[r].pc \notin {"idle", "wait"} /\ faults < MaxFaults
    /\ faults' = faults + 1
    /\ lease' = IF lease.owner = r THEN [lease EXCEPT !.owner = Ghost] ELSE lease
    /\ Stop(r)

-----------------------------------------------------------------------------
(* People at the Orders page. *)

Person ==
    /\ human < MaxHuman /\ human' = human + 1
    /\ Overlap \/ tx = NoTx
    /\ UNCHANGED <<log, received, state, lease, run, tx, previews, faults>>

CreateOrderTracker(no) ==
    /\ Person /\ Len(rows) < MaxRows
    /\ RowOf(Now, no) = NoRow
    /\ rows' = Append(rows, [no |-> no, live |-> TRUE, touched |-> TRUE, cust |-> "human"])
    /\ UNCHANGED <<link, open>>

\* Fault: the source link is not marked when its row is edited.
LeaveLinks(k) == link

MarkLinks(k) == [q \in PIs |-> [link[q] EXCEPT !.edited = @ \/ link[q].row = k]]

UpdateOrderTracker(k) ==
    /\ Person
    /\ rows' = [rows EXCEPT ![k].touched = TRUE]
    /\ link' = MarkLinks(k)
    /\ UNCHANGED open

ResolveSynchronizedOrderCustomer(k) ==
    /\ Person
    /\ \E p \in PIs :
         /\ link[p].row = k /\ link[p].match # "MATCHED"
         /\ rows' = [rows EXCEPT ![k].cust = "human", ![k].touched = TRUE]
         /\ link' = [link EXCEPT ![p].match = "MATCHED", ![p].edited = TRUE]
         /\ open' = [open EXCEPT ![p] = @ \ {"CUSTOMER"}]

-----------------------------------------------------------------------------
RunStep(r) ==
    \/ Acquire(r) \/ Refused(r)
    \/ FetchEvents(r) \/ EventBegin(r) \/ EventCommit(r) \/ PageDone(r)
    \/ ReconcileCheck(r) \/ ChunkBegin(r) \/ ChunkCommit(r) \/ ReconcileFinish(r)

Next ==
    \/ SourceEvent \/ LeaseExpires
    \/ \E r \in Runs : \/ RunStep(r) \/ StartIncremental(r) \/ ReconcilePreviewed(r)
                       \/ RunFails(r) \/ Crash(r)
    \/ \E no \in OrderNos : CreateOrderTracker(no)
    \/ \E k \in DOMAIN rows : UpdateOrderTracker(k) \/ ResolveSynchronizedOrderCustomer(k)

Spec == Init /\ [][Next]_vars

\* The schedule calls the synchronisation again and again, a process goes on until it ends, and
\* time passes: a lease nobody renews runs out.
FairSpec ==
    /\ Spec
    /\ WF_vars(LeaseExpires /\ lease.owner = Ghost)
    /\ \A r \in Runs : /\ WF_vars(RunStep(r) \/ (RunFails(r) /\ UNCHANGED faults))
                       /\ WF_vars(StartIncremental(r))

-----------------------------------------------------------------------------
(* Properties. *)

TypeOK ==
    /\ \A k \in DOMAIN rows : rows[k] \in [no : OrderNos, live : BOOLEAN, touched : BOOLEAN,
                                            cust : {"none", "sync", "human"}]
    /\ \A p \in PIs : /\ link[p].ver \in 0..MaxEvents /\ link[p].row \in 0..Len(rows)
                      /\ open[p] \subseteq {"SOURCE_LINK", "ORDER_NO", "HUMAN_EDITED", "CUSTOMER",
                                            "INVALID"}
    /\ received \subseteq 1..Len(log) /\ committed \in 0..Len(log)
    /\ lease.owner \in Runs \cup {NoRun, Ghost}
    /\ tx.run \in Runs \cup {NoRun}

\* No event is lost: every valid event at or before the committed cursor has reached its link, at
\* its version or a later one, however runs, crashes and reconciles followed each other.
NothingIsSkipped ==
    \A i \in 1..committed : log[i].ok => link[log[i].pi].ver >= Version(i)

\* A PI that is active is shown by a live row that carries its order number, or an open conflict
\* tells the administrator that it is not.
NoSilentGap ==
    \A p \in PIs :
      link[p].active =>
        \/ link[p].row # NoRow /\ rows[link[p].row].live /\ rows[link[p].row].no = link[p].no
        \/ open[p] \cap {"SOURCE_LINK", "ORDER_NO", "HUMAN_EDITED"} # {}

\* No PI, active or not, is left pointing at a row that was archived.
LinksAreLive == \A p \in PIs : link[p].row # NoRow => rows[link[p].row].live

\* A link never goes back to an older state of the source, whatever a run that read an old cursor
\* or a reconcile replays.
VersionsOnlyGrow == [][\A p \in PIs : link'[p].ver >= link[p].ver]_vars

\* What people did to a row stays: a row somebody edited is not archived by a rename, and a
\* customer somebody chose is not replaced.
HumanWorkIsKept ==
    [][\A k \in DOMAIN rows :
         /\ rows[k].live /\ rows[k].touched => rows'[k].live
         /\ rows[k].cust = "human" => rows'[k].cust = "human"]_vars

\* Once the first reconcile has completed, the schedule catches up with the source and stays
\* there: no event stops the feed for good.
CatchesUp == reconciled ~> [](committed = Len(log))

====
