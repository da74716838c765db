---- MODULE UploadedAssets ----
(***************************************************************************)
(* Files on disk, the registry that says whose they are, and the rows that *)
(* show them: uploads are staged and attached, the signing of a receipt    *)
(* writes its image, the preview of a payment detail renames the uploaded  *)
(* one, and the maintenance removes what nobody attached.                  *)
(* (uploaded-asset-service.ts, uploaded-asset-maintenance.ts,              *)
(* detail-image-assets.ts, receipt-generator-service.ts)                   *)
(*                                                                         *)
(* A registry row is named after the upload or signed receipt it was       *)
(* created for, or is one of the rows of previews.  The content of a file  *)
(* is named after who wrote it.  All details have the amount, day and      *)
(* agent in common, so that their previews compete for one name.           *)
(***************************************************************************)
EXTENDS Integers, FiniteSets

CONSTANTS
    Uploads,    \* files people upload
    Receipts, Details,
    Signers,    \* requests that finalise a signing session
    Viewers,    \* requests that open the preview of a detail
    NoImage,    \* no file
    Orderly,    \* one request or maintenance at a time, and uploads are attached in time
    MaxNames,   \* bound on the names a preview may get
    MaxCalls,   \* bound on the previews that are opened and the updates of details
    MaxFaults   \* bound on crashes and failed calls

ASSUME BoundsAssumption == /\ Orderly \in BOOLEAN
                           /\ {MaxNames, MaxCalls, MaxFaults} \subseteq Nat /\ MaxNames > 0
ASSUME NoImageAssumption == NoImage \notin Uploads
VARIABLES
    disk,     \* the content of every file
    asset,    \* UploadedAsset rows
    expired,  \* uploads whose expiresAt has passed
    staging,  \* uploads that are written and not yet registered
    named,    \* uploads that a request has named as an image
    receipt, session, detail,
    stale,    \* sessions older than the limit
    signing, viewing, cleaning,  \* what each request holds in memory
    cut,      \* files that a preview renamed and no detail was pointed at (history)
    calls, faults                \* how much of the bounds is used

rows == <<receipt, session, detail>>
tasks == <<signing, viewing, cleaning>>
vars == <<disk, asset, expired, staging, named, rows, stale, tasks, cut, calls, faults>>

Names == {<<"preview", i>> : i \in 1..MaxNames}
Signed(r) == <<"signed", r>>
PreviewRows == {<<"row", i>> : i \in 1..MaxCalls}

ASSUME PathsAssumption == /\ (Uploads \cup {NoImage}) \cap Names = {}
                          /\ \A r \in Receipts : Signed(r) \notin Uploads \cup {NoImage}
ASSUME RowsAssumption == /\ Uploads \cap (Receipts \cup PreviewRows) = {}
                         /\ Receipts \cap PreviewRows = {}
                         /\ NoImage \notin Details \cup Signers

NoAsset == [status |-> "None", path |-> NoImage]
Nobody == [op |-> "idle"]

Init ==
    /\ disk = <<>> /\ expired = {} /\ staging = {} /\ named = {} /\ stale = {} /\ cut = {}
    /\ calls = 0 /\ faults = 0
    /\ asset = [i \in Uploads \cup Receipts \cup PreviewRows |-> NoAsset]
    /\ receipt = [r \in Receipts |-> [status |-> "None", image |-> NoImage, given |-> NoImage]]
    /\ session = [r \in Receipts |-> "None"]
    /\ detail = [d \in Details |-> [live |-> FALSE, image |-> NoImage, given |-> NoImage]]
    /\ signing = [f \in Signers |-> Nobody]
    /\ viewing = [v \in Viewers |-> Nobody]
    /\ cleaning = Nobody

\* Fault: the file stays where it is.
Kept(p) == disk

Removed(p) == [q \in DOMAIN disk \ {p} |-> disk[q]]
Written(p, content) == [q \in DOMAIN disk \cup {p} |-> IF q = p THEN content ELSE disk[q]]

Free ==
    Orderly => /\ cleaning = Nobody
               /\ \A f \in Signers : signing[f] = Nobody
               /\ \A v \in Viewers : viewing[v] = Nobody

Fault == faults < MaxFaults /\ faults' = faults + 1

-----------------------------------------------------------------------------
(* Uploads: the file is written, then registered, then attached.           *)

StageWrite(u) ==
    /\ u \notin DOMAIN disk \cup staging /\ asset[u] = NoAsset
    /\ disk' = Written(u, u)
    /\ staging' = staging \cup {u}
    /\ UNCHANGED <<asset, expired, named, rows, stale, tasks, cut, calls, faults>>

StageRegister(u) ==
    /\ u \in staging
    /\ staging' = staging \ {u}
    /\ asset' = [asset EXCEPT ![u] = [status |-> "STAGED", path |-> u]]
    /\ UNCHANGED <<disk, expired, named, rows, stale, tasks, cut, calls, faults>>

\* The registration fails and the file is removed, or the process dies and it stays.
StageFails(u) ==
    /\ u \in staging /\ Fault
    /\ staging' = staging \ {u}
    /\ disk' \in {Removed(u), disk}
    /\ UNCHANGED <<asset, expired, named, rows, stale, tasks, cut, calls>>

Expire(u) ==
    /\ asset[u].status = "STAGED" /\ u \notin expired
    /\ expired' = expired \cup {u}
    /\ UNCHANGED <<disk, asset, staging, named, rows, stale, tasks, cut, calls, faults>>

\* A request may name an upload that is registered; the client names each of them once.
Named(image) ==
    /\ image # NoImage => image \notin named /\ asset[image] # NoAsset
    /\ named' = named \cup ({image} \ {NoImage})

\* Exactly one staged row is attached; otherwise the transaction is rolled back.
Attached(image) ==
    /\ image # NoImage => asset[image].status = "STAGED" /\ ~(Orderly /\ image \in expired)
    /\ asset' = IF image = NoImage THEN asset ELSE [asset EXCEPT ![image].status = "ATTACHED"]
    /\ expired' = expired \ {image}

CreateReceipt(r, image) ==
    /\ Free /\ receipt[r].status = "None"
    /\ Named(image) /\ Attached(image)
    /\ receipt' = [receipt EXCEPT ![r] = [status |-> "Open", image |-> image, given |-> image]]
    /\ UNCHANGED <<disk, staging, session, detail, stale, tasks, cut, calls, faults>>

\* Receipts without an image get the one of the detail they are linked by; a receipt that does
\* not exist is created with it.
Linked(linked, image) ==
    /\ \A r \in linked : receipt[r].status \in {"None", "Open"}
    /\ receipt' = [r \in Receipts |->
                     IF r \in linked /\ receipt[r].image = NoImage
                     THEN [receipt[r] EXCEPT !.status = "Open", !.image = image]
                     ELSE receipt[r]]

\* "confirm": the detail gets the image, and the image is attached to it.
CreateDetail(d, image, linked) ==
    /\ Free /\ ~detail[d].live
    /\ Named(image) /\ Attached(image) /\ Linked(linked, image)
    /\ detail' = [detail EXCEPT ![d] = [live |-> TRUE, image |-> image, given |-> image]]
    /\ UNCHANGED <<disk, staging, session, stale, tasks, cut, calls, faults>>

\* "direct-create": only the receipts get the image, which nothing attaches.
CreateDirect(d, image, linked) ==
    /\ Free /\ ~detail[d].live
    /\ Named(image) /\ Linked(linked, image)
    /\ detail' = [detail EXCEPT ![d].live = TRUE]
    /\ UNCHANGED <<disk, asset, expired, staging, session, stale, tasks, cut, calls, faults>>

\* An update takes a new image or keeps the old one, and attaches neither.
UpdateDetail(d, image, linked) ==
    LET shown == IF image = NoImage THEN detail[d].image ELSE image
    IN  /\ Free /\ detail[d].live
        /\ calls < MaxCalls /\ calls' = calls + 1
        /\ Named(image) /\ Linked(linked, shown)
        /\ detail' = [detail EXCEPT ![d].image = shown,
                                    ![d].given = IF image = NoImage THEN @ ELSE NoImage]
        /\ UNCHANGED <<disk, asset, expired, staging, session, stale, tasks, cut, faults>>

-----------------------------------------------------------------------------
(* The preview of a detail: its row is read, a free name looked for, the   *)
(* file renamed to it or drawn, the detail pointed at it, the registry     *)
(* brought up to date: five steps, none of them in a transaction.  An      *)
(* export (redraw) draws a new picture, over a preview that there is.      *)

View(v, step) == viewing' = [viewing EXCEPT ![v] = step]

PreviewLoad(v, d, redraw) ==
    /\ Free /\ viewing[v] = Nobody /\ detail[d].live /\ calls < MaxCalls
    /\ calls' = calls + 1
    /\ View(v, [op |-> "pick", detail |-> d, old |-> detail[d].image, redraw |-> redraw])
    /\ UNCHANGED <<disk, asset, expired, staging, named, rows, stale, signing, cleaning, cut,
                   faults>>

Standard(image) == image = <<"preview", 1>>

\* Fault: a name that is taken is picked.
AnyName == <<"preview", 1>>

FreeName == <<"preview", CHOOSE i \in 1..MaxNames :
                            /\ <<"preview", i>> \notin DOMAIN disk
                            /\ \A j \in 1..(i - 1) : <<"preview", j>> \in DOMAIN disk>>

\* The file old gets the name target; NoImage stands for a picture that is drawn.
Task(op, d, old, target) == [op |-> op, detail |-> d, old |-> old, target |-> target]

PickTarget(v) ==
    LET task == viewing[v]
        source == IF task.redraw THEN NoImage ELSE task.old
    IN  /\ task.op = "pick" /\ ~(Standard(task.old) /\ ~task.redraw)
        /\ IF task.redraw /\ task.old \in Names
           THEN View(v, Task("move", task.detail, source, task.old))
           ELSE /\ ~(Names \subseteq DOMAIN disk)
                /\ View(v, Task("move", task.detail, source, FreeName))

\* A file that has the right name stays where it is; if it is gone, the preview ends.
KeepName(v) ==
    LET task == viewing[v]
    IN  /\ task.op = "pick" /\ Standard(task.old) /\ ~task.redraw
        /\ View(v, IF task.old \in DOMAIN disk
                   THEN Task("register", task.detail, task.old, task.old)
                   ELSE Nobody)

PreviewPick(v) ==
    /\ PickTarget(v) \/ KeepName(v)
    /\ UNCHANGED <<disk, asset, expired, staging, named, rows, stale, signing, cleaning, cut, calls,
                   faults>>

\* A picture drawn over the file of its detail is from then on what the detail should show.
Draw(v) ==
    LET task == viewing[v]
    IN  /\ task.old = NoImage
        /\ disk' = Written(task.target, task.detail)
        /\ detail' = [detail EXCEPT ![task.detail].given =
                        IF detail[task.detail].image = task.target THEN task.detail ELSE @]
        /\ View(v, [task EXCEPT !.op = "point"])

Rename(v) ==
    LET task == viewing[v]
    IN  /\ task.old \in DOMAIN disk \ {NoImage}
        /\ disk' = [p \in (DOMAIN disk \ {task.old}) \cup {task.target} |->
                      IF p = task.target THEN disk[task.old] ELSE disk[p]]
        /\ View(v, [task EXCEPT !.op = "point"])
        /\ UNCHANGED detail

\* A file that is not there is an error, which ends the preview.
RenameFails(v) ==
    /\ viewing[v].old \notin DOMAIN disk \cup {NoImage}
    /\ View(v, Nobody)
    /\ UNCHANGED <<disk, detail>>

PreviewMove(v) ==
    /\ viewing[v].op = "move"
    /\ Draw(v) \/ Rename(v) \/ RenameFails(v)
    /\ UNCHANGED <<asset, expired, staging, named, receipt, session, stale, signing, cleaning, cut,
                   calls, faults>>

\* What the detail should show from then on.
GivenBy(task) ==
    LET given == detail[task.detail].given
    IN  IF task.old = NoImage THEN task.detail
        ELSE IF given = NoImage /\ task.target \in DOMAIN disk THEN disk[task.target]
        ELSE given

PreviewPoint(v) ==
    LET task == viewing[v]
    IN  /\ task.op = "point"
        /\ detail' = [detail EXCEPT ![task.detail] =
                        [live |-> @.live, image |-> task.target, given |-> GivenBy(task)]]
        /\ View(v, [task EXCEPT !.op = "register"])
        /\ UNCHANGED <<disk, asset, expired, staging, named, receipt, session, stale, signing,
                       cleaning, cut, calls, faults>>

RowsAt(path) == {i \in DOMAIN asset : asset[i] # NoAsset /\ asset[i].path = path}

NewRow == CHOOSE i \in PreviewRows : asset[i] = NoAsset

\* The row of the old path moves along, unless the unique key forbids it; without one, the row
\* of the new path is adopted or created.
PreviewRegister(v) ==
    LET task == viewing[v]
        mine == [status |-> "ATTACHED", path |-> task.target]
        taken == RowsAt(task.target)
        moved == IF task.old = task.target THEN {} ELSE RowsAt(task.old)
        adopted == IF moved # {} THEN moved ELSE IF taken # {} THEN taken ELSE {NewRow}
    IN  /\ task.op = "register" /\ \E i \in PreviewRows : asset[i] = NoAsset
        /\ IF moved # {} /\ taken # {}
           THEN UNCHANGED <<asset, expired>>
           ELSE /\ asset' = [i \in DOMAIN asset |-> IF i \in adopted THEN mine ELSE asset[i]]
                /\ expired' = expired \ adopted
        /\ View(v, Nobody)
        /\ UNCHANGED <<disk, staging, named, rows, stale, signing, cleaning, cut, calls, faults>>

\* Any call of a preview may fail, or the process die: a file that is renamed by then stays so.
PreviewFails(v) ==
    LET task == viewing[v]
    IN  /\ task # Nobody /\ Fault
        /\ cut' = IF task.op = "point" THEN cut \cup ({task.old} \ {NoImage}) ELSE cut
        /\ View(v, Nobody)
        /\ UNCHANGED <<disk, asset, expired, staging, named, rows, stale, signing, cleaning, calls>>

-----------------------------------------------------------------------------
(* The signing of a receipt.                                               *)

Sign(f, step) == signing' = [signing EXCEPT ![f] = step]

CreateSession(r) ==
    /\ Free /\ receipt[r].status = "None"
    /\ receipt' = [receipt EXCEPT ![r].status = "SIGNING_PENDING"]
    /\ session' = [session EXCEPT ![r] = "PENDING"]
    /\ UNCHANGED <<disk, asset, expired, staging, named, detail, stale, tasks, cut, calls, faults>>

SessionAges(r) ==
    /\ session[r] = "PENDING" /\ r \notin stale
    /\ stale' = stale \cup {r}
    /\ UNCHANGED <<disk, asset, expired, staging, named, rows, tasks, cut, calls, faults>>

FinaliseLoad(f, r) ==
    /\ Free /\ signing[f] = Nobody
    /\ session[r] = "PENDING" /\ receipt[r].status = "SIGNING_PENDING"
    /\ Sign(f, [op |-> "write", receipt |-> r])
    /\ UNCHANGED <<disk, asset, expired, staging, named, rows, stale, viewing, cleaning, cut,
                   calls, faults>>

FinaliseWrite(f) ==
    /\ signing[f].op = "write"
    /\ disk' = Written(Signed(signing[f].receipt), f)
    /\ Sign(f, [signing[f] EXCEPT !.op = "commit"])
    /\ UNCHANGED <<asset, expired, staging, named, rows, stale, viewing, cleaning, cut, calls,
                   faults>>

\* The transaction repeats none of the checks; it fails when the receipt is gone or the path is
\* registered already.
FinaliseCommits(r) == receipt[r].status # "Deleted" /\ RowsAt(Signed(r)) = {}

FinaliseCommit(f) ==
    LET r == signing[f].receipt
    IN  /\ signing[f].op = "commit" /\ FinaliseCommits(r)
        /\ receipt' = [receipt EXCEPT ![r] = [status |-> "Open", image |-> Signed(r), given |-> f]]
        /\ session' = [session EXCEPT ![r] = "FINALIZED"]
        /\ asset' = [asset EXCEPT ![r] = [status |-> "ATTACHED", path |-> Signed(r)]]
        /\ Sign(f, Nobody)
        /\ UNCHANGED <<disk, expired, staging, named, detail, stale, viewing, cleaning, cut, calls,
                       faults>>

DropFile(r) == Removed(Signed(r))

FinaliseFails(f) ==
    /\ signing[f].op = "commit"
    /\ IF FinaliseCommits(signing[f].receipt) THEN Fault ELSE UNCHANGED faults
    /\ disk' = DropFile(signing[f].receipt)
    /\ Sign(f, Nobody)
    /\ UNCHANGED <<asset, expired, staging, named, rows, stale, viewing, cleaning, cut, calls>>

-----------------------------------------------------------------------------
(* The maintenance.  Both lists are read once, and worked off one by one.  *)

\* Fault: only files that are still on disk are looked for.
ExpiredOnDisk == {[id |-> i, path |-> asset[i].path] : i \in {j \in expired : j \in DOMAIN disk}}

ExpiredAssets == {[id |-> i, path |-> asset[i].path] : i \in expired}

CleanBegin ==
    /\ Free /\ cleaning = Nobody
    /\ expired # {} \/ stale # {}
    /\ cleaning' = [op |-> "remove", list |-> ExpiredAssets]
    /\ UNCHANGED <<disk, asset, expired, staging, named, rows, stale, signing, viewing, cut, calls,
                   faults>>

CleanRemove(x) ==
    /\ cleaning.op = "remove" /\ x \in cleaning.list
    /\ disk' = Removed(x.path)
    /\ cleaning' = [op |-> "mark", list |-> cleaning.list, item |-> x]
    /\ UNCHANGED <<asset, expired, staging, named, rows, stale, signing, viewing, cut, calls,
                   faults>>

\* The row is marked whatever has become of it.
CleanMark ==
    /\ cleaning.op = "mark"
    /\ asset' = [asset EXCEPT ![cleaning.item.id].status = "DELETED"]
    /\ expired' = expired \ {cleaning.item.id}
    /\ cleaning' = [op |-> "remove", list |-> cleaning.list \ {cleaning.item}]
    /\ UNCHANGED <<disk, staging, named, rows, stale, signing, viewing, cut, calls, faults>>

StaleSessions ==
    {r \in stale : /\ session[r] = "PENDING" /\ receipt[r].status = "SIGNING_PENDING"
                   /\ receipt[r].image = NoImage}

StaleBegin ==
    /\ cleaning.op = "remove" /\ cleaning.list = {}
    /\ cleaning' = [op |-> "cancel", list |-> StaleSessions]
    /\ UNCHANGED <<disk, asset, expired, staging, named, rows, stale, signing, viewing, cut, calls,
                   faults>>

StaleCancel(r) ==
    /\ cleaning.op = "cancel" /\ r \in cleaning.list
    /\ session' = [session EXCEPT ![r] = "CANCELLED"]
    /\ receipt' = [receipt EXCEPT ![r].status = "Deleted"]
    /\ stale' = stale \ {r}
    /\ cleaning' = [cleaning EXCEPT !.list = @ \ {r}]
    /\ UNCHANGED <<disk, asset, expired, staging, named, detail, signing, viewing, cut, calls,
                   faults>>

CleanEnd ==
    /\ cleaning.op = "cancel" /\ cleaning.list = {}
    /\ cleaning' = Nobody
    /\ stale' = stale \ {r \in stale : session[r] # "PENDING"}
    /\ UNCHANGED <<disk, asset, expired, staging, named, rows, signing, viewing, cut, calls,
                   faults>>

\* A call fails or the process dies: the rest of both lists waits for the next maintenance.
CleanFails ==
    /\ cleaning # Nobody /\ Fault
    /\ cleaning' = Nobody
    /\ UNCHANGED <<disk, asset, expired, staging, named, rows, stale, signing, viewing, cut, calls>>

-----------------------------------------------------------------------------
ViewStep(v) == PreviewPick(v) \/ PreviewMove(v) \/ PreviewPoint(v) \/ PreviewRegister(v)

SignStep(f) == FinaliseWrite(f) \/ FinaliseCommit(f) \/ (FinaliseFails(f) /\ UNCHANGED faults)

CleanStep ==
    \/ CleanBegin \/ CleanMark \/ StaleBegin \/ CleanEnd
    \/ (cleaning.op = "remove" /\ \E x \in cleaning.list : CleanRemove(x))
    \/ (cleaning.op = "cancel" /\ \E r \in cleaning.list : StaleCancel(r))

Next ==
    \/ \E u \in Uploads : StageWrite(u) \/ StageRegister(u) \/ StageFails(u) \/ Expire(u)
    \/ \E image \in Uploads \cup {NoImage} :
         \/ \E r \in Receipts : CreateReceipt(r, image)
         \/ \E d \in Details, linked \in SUBSET Receipts :
              \/ CreateDetail(d, image, linked) \/ CreateDirect(d, image, linked)
              \/ UpdateDetail(d, image, linked)
    \/ \E v \in Viewers :
         \/ ViewStep(v) \/ PreviewFails(v)
         \/ \E d \in Details, redraw \in BOOLEAN : PreviewLoad(v, d, redraw)
    \/ \E r \in Receipts : CreateSession(r) \/ SessionAges(r)
                           \/ \E f \in Signers : FinaliseLoad(f, r)
    \/ \E f \in Signers : FinaliseWrite(f) \/ FinaliseCommit(f) \/ FinaliseFails(f)
    \/ CleanStep \/ CleanFails

Spec == Init /\ [][Next]_vars

\* Requests end, and the maintenance is called every day until it has nothing left to do.
FairSpec ==
    /\ Spec
    /\ WF_vars(CleanStep)
    /\ \A v \in Viewers : WF_vars(ViewStep(v))
    /\ \A f \in Signers : WF_vars(SignStep(f))

-----------------------------------------------------------------------------
(* Properties.                                                             *)

Shows(row) == row.image \in DOMAIN disk /\ disk[row.image] = row.given

\* A preview has renamed the file of the detail and not yet pointed the detail at it.
Moved(d) == \E v \in Viewers : /\ viewing[v].op = "point" /\ viewing[v].detail = d
                               /\ viewing[v].old # NoImage

\* A detail shows the file that a creation attached to it or a preview drew or renamed for it, a
\* receipt the one that was uploaded or signed for it: no maintenance, preview of another detail or
\* failed signature took it away or put another in its place.  Three things are excepted.  A preview
\* at work may have moved the file.  A preview that failed after the renaming and before the update
\* of its detail has lost the old name (cut), and when that was the name of a preview, others may
\* take it.  And nothing is given to a row by an update, a direct creation or the linking of a
\* receipt, since none of them attaches the image: the maintenance or a preview may take it away.
ImagesAreKept ==
    /\ \A d \in Details :
         \/ detail[d].given = NoImage \/ Shows(detail[d]) \/ Moved(d)
         \/ detail[d].image \in cut \/ cut \cap Names # {}
    /\ \A r \in Receipts : receipt[r].given = NoImage \/ receipt[r].status = "Deleted"
                             \/ Shows(receipt[r])

\* A row that says DELETED has no file any more.
RetiredIsGone ==
    \A i \in DOMAIN asset : asset[i].status = "DELETED" => asset[i].path \notin DOMAIN disk

\* A registered file that nobody attaches in time is removed and its row retired, whatever
\* failed on the way, and a session that nobody signs is cancelled.
AbandonedIsRemoved ==
    /\ \A u \in Uploads : u \in expired ~> u \notin expired
    /\ \A r \in Receipts : r \in stale ~> r \notin stale \/ session[r] = "FINALIZED"

\* "STAGED means the image exists on NAS but is not yet attached to a business record."
StagedIsNotShown ==
    \A u \in Uploads : asset[u].status = "STAGED"
                        => /\ \A d \in Details : detail[d].image # u
                           /\ \A r \in Receipts : receipt[r].image # u

\* "ATTACHED means the image is actively referenced by a business object and must not be touched
\* by orphan cleanup."  A preview that has renamed the file brings its row up to date at its end.
AttachedIsKept ==
    \A u \in Uploads :
      asset[u].status = "ATTACHED" /\ asset[u].path = u
        => \/ u \in DOMAIN disk
           \/ \E v \in Viewers : viewing[v].op \in {"point", "register"} /\ viewing[v].old = u

\* "business-attached files remain accessible through protected image read endpoints"
AttachedIsAccessible ==
    \A d \in Details :
      (\E i \in RowsAt(detail[d].image) : asset[i].status = "ATTACHED")
        => detail[d].image \in DOMAIN disk \/ Moved(d)

====
