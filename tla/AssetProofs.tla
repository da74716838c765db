---- MODULE AssetProofs ----
(***************************************************************************)
(* Theorems about UploadedAssets, for any sets of uploads, receipts,       *)
(* details and requests, when one request or maintenance is at work at a   *)
(* time (Orderly).  Without that they do not hold: a file that is attached *)
(* while the maintenance works off its list is taken away.                 *)
(*                                                                         *)
(* The invariant AssetInv says of every file who may show it.  An upload   *)
(* that was given to a row is ATTACHED and shown by one detail or by       *)
(* receipts; a drawn or renamed preview is shown by one detail; a          *)
(* signature by its receipt.  What is removed is none of these.  Of        *)
(* details this is claimed as long as no preview has failed between the    *)
(* renaming of a preview and the update of its detail (NoNameLost).        *)
(***************************************************************************)
EXTENDS UploadedAssets, WellFoundedInduction, TLAPS

Keys == Uploads \cup Receipts \cup PreviewRows
Paths == Uploads \cup Names \cup {Signed(r) : r \in Receipts} \cup {NoImage}
Contents == Uploads \cup Details \cup Signers \cup {NoImage}
Items == [id : Uploads, path : Paths]
Item(u) == [id |-> u, path |-> u]

Asset == [status : {"None", "STAGED", "ATTACHED", "DELETED"}, path : Paths]
Receipt == [status : {"None", "Open", "SIGNING_PENDING", "Deleted"}, image : Paths,
            given : Contents]
Detail == [live : BOOLEAN, image : Paths, given : Contents]
Signing == {Nobody} \cup [op : {"write", "commit"}, receipt : Receipts]
Viewing == {Nobody} \cup [op : {"pick"}, detail : Details, old : Paths, redraw : BOOLEAN]
           \cup [op : {"move", "point", "register"}, detail : Details, old : Paths, target : Names]
Cleaning == {Nobody} \cup [op : {"remove"}, list : SUBSET Items]
            \cup [op : {"mark"}, list : SUBSET Items, item : Items]
            \cup [op : {"cancel"}, list : SUBSET Receipts]

TypeOK ==
    /\ asset \in [Keys -> Asset]
    /\ receipt \in [Receipts -> Receipt]
    /\ detail \in [Details -> Detail]
    /\ signing \in [Signers -> Signing]
    /\ viewing \in [Viewers -> Viewing]
    /\ cleaning \in Cleaning
    /\ expired \subseteq Uploads /\ staging \subseteq Uploads /\ stale \subseteq Receipts
    /\ named \subseteq Uploads /\ cut \subseteq Paths

\* Every file has a content.
ContentOK == \A p \in DOMAIN disk : disk[p] \in Contents \ {NoImage}

\* At most one request or maintenance is at work.
SoloInv ==
    /\ \A f \in Signers : signing[f] # Nobody =>
         /\ cleaning = Nobody /\ \A v \in Viewers : viewing[v] = Nobody
         /\ \A g \in Signers : g # f => signing[g] = Nobody
    /\ \A v \in Viewers : viewing[v] # Nobody =>
         /\ cleaning = Nobody
         /\ \A w \in Viewers : w # v => viewing[w] = Nobody

\* Until it expires or is named, a STAGED row has its file, a DELETED one never has, and a file that
\* is not yet registered has no row.
StagedInv ==
    /\ \A i \in Keys : asset[i].status \in {"STAGED", "DELETED"} => i \in Uploads /\ asset[i].path = i
    /\ \A i \in Keys : asset[i].status = "DELETED" => i \notin DOMAIN disk
    /\ \A u \in expired : asset[u].status = "STAGED"
    /\ \A u \in Uploads : asset[u].status = "STAGED" /\ u \notin expired \cup named
                            => u \in DOMAIN disk /\ disk[u] = u
    /\ \A u \in staging : asset[u] = NoAsset /\ u \in DOMAIN disk /\ disk[u] = u

\* What a row shows was named, and an upload whose name is lost is gone.
NamedInv ==
    /\ \A u \in named : asset[u] # NoAsset
    /\ \A u \in cut \cap Uploads : u \in named /\ u \notin DOMAIN disk

DetailInv ==
    \A d \in Details :
      LET row == detail[d]
      IN  /\ row.image \in {NoImage} \cup Uploads \cup Names
          /\ row.image = NoImage => row.given = NoImage
          /\ row.image \in Names => row.given # NoImage
          /\ row.image \in Uploads =>
               /\ row.image \in named
               /\ row.given # NoImage => asset[row.image].status = "ATTACHED"
               /\ \A e \in Details : e # d => detail[e].image # row.image

\* No preview has lost the name of another preview.
NoNameLost == cut \cap Names = {}

\* Who shows what: no file is shown by two details.
KeptInv ==
    NoNameLost =>
      \A d \in Details :
        /\ \A e \in Details : e # d /\ detail[d].image # NoImage => detail[e].image # detail[d].image
        /\ \/ detail[d].given = NoImage \/ Shows(detail[d]) \/ Moved(d)
           \/ detail[d].image \in cut

ReceiptInv ==
    /\ \A r \in Receipts : receipt[r].status \in {"None", "SIGNING_PENDING"} => receipt[r].image = NoImage
    /\ \A r \in Receipts : receipt[r].image = NoImage => receipt[r].given = NoImage
    /\ \A r \in Receipts : receipt[r].given # NoImage =>
         /\ receipt[r].image \in Uploads \cup {Signed(r)}
         /\ receipt[r].image \in Uploads =>
              /\ receipt[r].image \in named /\ asset[receipt[r].image].status = "ATTACHED"
              /\ \A d \in Details : detail[d].image # receipt[r].image
         /\ Shows(receipt[r])

\* What the requests hold in memory is still true.
SignInv ==
    \A f \in Signers : signing[f] # Nobody =>
      LET r == signing[f].receipt
      IN  /\ receipt[r].status = "SIGNING_PENDING"
          /\ signing[f].op = "commit" => Signed(r) \in DOMAIN disk /\ disk[Signed(r)] = f

ViewInv ==
    \A v \in Viewers :
      LET task == viewing[v]
          d == task.detail
      IN  /\ task.op = "pick" => task.old = detail[d].image
          /\ task.op \in {"move", "point"} => task.old \in {NoImage, detail[d].image}
          /\ task.op = "move" => \/ task.target \notin DOMAIN disk
                                 \/ task.old = NoImage /\ task.target = detail[d].image
          /\ task.op = "point" =>
               /\ task.target \in DOMAIN disk
               /\ task.old \in Uploads => task.old \notin DOMAIN disk
               /\ task.old = NoImage => disk[task.target] = d
               /\ NoNameLost =>
                    /\ \A e \in Details : e # d => detail[e].image # task.target
                    /\ task.old # NoImage => detail[d].given \in {NoImage, disk[task.target]}

CleanInv ==
    /\ cleaning.op \in {"remove", "mark"} =>
         \A x \in cleaning.list : x = Item(x.id) /\ x.id \in expired
    /\ cleaning.op = "mark" => cleaning.item \in cleaning.list /\ cleaning.item.path \notin DOMAIN disk

FileInv ==
    StagedInv /\ NamedInv /\ DetailInv /\ KeptInv /\ ReceiptInv /\ SignInv /\ ViewInv /\ CleanInv

AssetInv == TypeOK /\ ContentOK /\ SoloInv /\ FileInv

-----------------------------------------------------------------------------
(* The types of the memory of the requests.                                *)

LEMMA SigningTask ==
  ASSUME TypeOK, NEW f \in Signers, signing[f] # Nobody
  PROVE  signing[f] \in [op : {"write", "commit"}, receipt : Receipts]
BY DEF TypeOK, Signing

LEMMA SigningOp ==
  ASSUME TypeOK, NEW f \in Signers, signing[f].op \in {"write", "commit"}
  PROVE  signing[f] # Nobody
BY DEF Nobody

LEMMA ViewingPick ==
  ASSUME TypeOK, NEW v \in Viewers, viewing[v].op = "pick"
  PROVE  /\ viewing[v] \in [op : {"pick"}, detail : Details, old : Paths, redraw : BOOLEAN]
         /\ viewing[v] # Nobody
BY DEF TypeOK, Viewing, Nobody

LEMMA ViewingRest ==
  ASSUME TypeOK, NEW v \in Viewers, viewing[v].op \in {"move", "point", "register"}
  PROVE  /\ viewing[v] \in [op : {"move", "point", "register"}, detail : Details, old : Paths,
                            target : Names]
         /\ viewing[v] # Nobody
BY DEF TypeOK, Viewing, Nobody

LEMMA CleaningLists ==
  ASSUME TypeOK
  PROVE  /\ cleaning.op = "remove" => cleaning \in [op : {"remove"}, list : SUBSET Items]
         /\ cleaning.op = "mark" => cleaning \in [op : {"mark"}, list : SUBSET Items, item : Items]
         /\ cleaning.op = "cancel" => cleaning \in [op : {"cancel"}, list : SUBSET Receipts]
         /\ cleaning.op \in {"remove", "mark", "cancel"} => cleaning # Nobody
BY DEF TypeOK, Cleaning, Nobody

\* The name that is looked for is free, if one is.
LEMMA FreeNameIsFree ==
  ASSUME ~(Names \subseteq DOMAIN disk)
  PROVE  FreeName \in Names /\ FreeName \notin DOMAIN disk
<1> DEFINE S == {i \in 1..MaxNames : <<"preview", i>> \notin DOMAIN disk}
           R == OpToRel(<, Nat)
<1>1. S \in SUBSET Nat /\ S # {}
  BY BoundsAssumption DEF Names
<1>2. \E x \in S : \A y \in S : <<y, x>> \notin R
  BY <1>1, NatLessThanWellFounded, WFMin
<1>3. PICK x \in S : \A y \in S : <<y, x>> \notin R
  BY <1>2
<1>4. \A y \in S : ~(y < x)
  BY <1>1, <1>3 DEF OpToRel
<1>5. \A j \in 1..(x - 1) : <<"preview", j>> \in DOMAIN disk
  <2> SUFFICES ASSUME NEW j \in 1..(x - 1), <<"preview", j>> \notin DOMAIN disk PROVE FALSE
    OBVIOUS
  <2>1. MaxNames \in Nat /\ x \in 1..MaxNames
    BY BoundsAssumption
  <2>2. j \in 1..MaxNames /\ j < x
    BY <2>1
  <2>3. j \in S
    BY <2>2
  <2> QED BY <1>4, <2>2, <2>3
<1>6. \E i \in 1..MaxNames : /\ <<"preview", i>> \notin DOMAIN disk
                             /\ \A j \in 1..(i - 1) : <<"preview", j>> \in DOMAIN disk
  BY <1>5
<1> QED BY <1>6 DEF FreeName, Names

-----------------------------------------------------------------------------
(* Types, with or without Orderly.                                         *)

LEMMA PathTypes ==
  /\ Names \subseteq Paths /\ Uploads \subseteq Paths /\ NoImage \in Paths
  /\ \A r \in Receipts : Signed(r) \in Paths
  /\ NoAsset \in Asset
  /\ \A path \in Paths : [status |-> "ATTACHED", path |-> path] \in Asset
BY DEF Paths, NoAsset, Asset

Staging == \E u \in Uploads : StageWrite(u) \/ StageRegister(u) \/ StageFails(u) \/ Expire(u)
Linking(d, image, linked) ==
    CreateDetail(d, image, linked) \/ CreateDirect(d, image, linked) \/ UpdateDetail(d, image, linked)
Attaching == \E image \in Uploads \cup {NoImage} :
               \/ \E r \in Receipts : CreateReceipt(r, image)
               \/ \E d \in Details, linked \in SUBSET Receipts : Linking(d, image, linked)
Opening(v) == \E d \in Details, redraw \in BOOLEAN : PreviewLoad(v, d, redraw)
Previewing == \E v \in Viewers : ViewStep(v) \/ PreviewFails(v) \/ Opening(v)
Sessions == \E r \in Receipts : CreateSession(r) \/ SessionAges(r)
FinaliseStep(f) == FinaliseWrite(f) \/ FinaliseCommit(f) \/ FinaliseFails(f)
                   \/ \E r \in Receipts : FinaliseLoad(f, r)

LEMMA Actions ==
  Next => Staging \/ Attaching \/ Previewing \/ Sessions \/ (\E f \in Signers : FinaliseStep(f))
          \/ CleanStep \/ CleanFails
BY DEF Next, Staging, Attaching, Linking, Previewing, Opening, Sessions, FinaliseStep

LEMMA AttachedTypes ==
  ASSUME TypeOK, NEW image \in Uploads \cup {NoImage}, Attached(image)
  PROVE  asset' \in [Keys -> Asset] /\ expired' \subseteq Uploads
<1>1. CASE image = NoImage
  BY <1>1 DEF TypeOK, Attached
<1>2. CASE image # NoImage
  BY <1>2 DEF TypeOK, Attached, Asset, Keys
<1> QED BY <1>1, <1>2

LEMMA NamedTypes ==
  ASSUME TypeOK, NEW image \in Uploads \cup {NoImage}, Named(image)
  PROVE  named' \subseteq Uploads
BY DEF Named, TypeOK

LEMMA LinkedTypes ==
  ASSUME TypeOK, NEW linked \in SUBSET Receipts, NEW image \in Paths, Linked(linked, image)
  PROVE  /\ receipt' \in [Receipts -> Receipt]
         /\ \A r \in Receipts :
              \/ receipt'[r] = receipt[r]
              \/ /\ receipt[r].image = NoImage /\ receipt'[r].given = receipt[r].given
                 /\ receipt'[r].status = "Open" /\ receipt'[r].image = image
<1>1. ASSUME NEW r \in Receipts
      PROVE  /\ receipt'[r] \in Receipt
             /\ \/ receipt'[r] = receipt[r]
                \/ /\ receipt[r].image = NoImage /\ receipt'[r].given = receipt[r].given
                   /\ receipt'[r].status = "Open" /\ receipt'[r].image = image
  <2> DEFINE new == [receipt[r] EXCEPT !.status = "Open", !.image = image]
  <2>1. new.image = image /\ new.given = receipt[r].given /\ new.status = "Open" /\ new \in Receipt
        /\ receipt[r] \in Receipt
    BY DEF TypeOK, Receipt
  <2>2. receipt'[r] = IF r \in linked /\ receipt[r].image = NoImage THEN new ELSE receipt[r]
    BY DEF Linked
  <2> HIDE DEF new
  <2> QED BY <2>1, <2>2
<1>2. receipt' = [r \in Receipts |-> receipt'[r]]
  BY DEF Linked
<1> HIDE DEF Linked
<1> QED BY <1>1, <1>2

\* What an update leaves in its detail.
LEMMA UpdatedDetail ==
  ASSUME TypeOK, NEW d \in Details, NEW image \in Uploads \cup {NoImage}, NEW linked \in SUBSET Receipts,
         UpdateDetail(d, image, linked)
  PROVE  /\ detail' \in [Details -> Detail]
         /\ \A e \in Details : e # d => detail'[e] = detail[e]
         /\ image = NoImage => detail' = detail
         /\ image # NoImage => detail'[d].image = image /\ detail'[d].given = NoImage
         /\ \/ Linked(linked, detail[d].image) /\ image = NoImage
            \/ Linked(linked, image) /\ image # NoImage
<1> DEFINE shown == IF image = NoImage THEN detail[d].image ELSE image
           row == [live |-> detail[d].live, image |-> shown,
                   given |-> IF image = NoImage THEN detail[d].given ELSE NoImage]
<1>1. detail[d] \in Detail /\ image \in Paths /\ NoImage \in Contents
  BY PathTypes DEF TypeOK, Contents
<1>2. row \in Detail
  BY <1>1 DEF Detail
<1>3. detail' \in [Details -> Detail] /\ detail'[d] = row /\ \A e \in Details : e # d => detail'[e] = detail[e]
  <2> DEFINE half == [detail EXCEPT ![d].image = shown]
  <2>1. shown \in Paths
    BY <1>1 DEF Detail
  <2>2. half \in [Details -> Detail] /\ \A e \in Details : e # d => half[e] = detail[e]
    BY <1>1, <2>1 DEF TypeOK, Detail
  <2>3. half[d] = [live |-> detail[d].live, image |-> shown, given |-> detail[d].given]
    BY <1>1, <2>1 DEF TypeOK, Detail
  <2>4. detail' = [half EXCEPT ![d].given = IF image = NoImage THEN @ ELSE NoImage]
    BY DEF UpdateDetail
  <2> HIDE DEF half
  <2>5. detail'[d] = [half[d] EXCEPT !.given = IF image = NoImage THEN @ ELSE NoImage]
        /\ \A e \in Details : e # d => detail'[e] = half[e]
    BY <2>2, <2>4
  <2>6. detail'[d] = row
    BY <1>1, <2>3, <2>5 DEF Detail
  <2>7. detail' = [e \in Details |-> detail'[e]]
    BY <2>2, <2>4
  <2> HIDE DEF row
  <2> QED BY <1>2, <2>2, <2>5, <2>6, <2>7
<1>4. image = NoImage => row = detail[d]
  BY <1>1 DEF Detail
<1>5. Linked(linked, shown)
  BY DEF UpdateDetail
<1>6. image # NoImage => row.image = image /\ row.given = NoImage
  OBVIOUS
<1> HIDE DEF row
<1> QED BY <1>2, <1>3, <1>4, <1>5, <1>6 DEF TypeOK

\* What a preview leaves in its detail when it points it at the file.
LEMMA PointedDetail ==
  ASSUME TypeOK, ContentOK, NEW v \in Viewers, PreviewPoint(v)
  PROVE  LET d == viewing[v].detail
         IN  /\ detail' \in [Details -> Detail] /\ d \in Details
             /\ \A e \in Details : e # d => detail'[e] = detail[e]
             /\ detail'[d].image = viewing[v].target /\ detail'[d].given = GivenBy(viewing[v])
<1> DEFINE task == viewing[v]
           d == task.detail
           row == [live |-> detail[d].live, image |-> task.target, given |-> GivenBy(task)]
<1>1. d \in Details /\ task.target \in Paths
  BY ViewingRest, PathTypes DEF PreviewPoint
<1>2. GivenBy(task) \in Contents
  BY <1>1 DEF GivenBy, TypeOK, Detail, ContentOK, Contents
<1>3. row \in Detail
  BY <1>1, <1>2 DEF TypeOK, Detail
<1>4. detail' = [detail EXCEPT ![d] = row]
  BY DEF PreviewPoint
<1>5. row.image = task.target /\ row.given = GivenBy(task)
  OBVIOUS
<1> HIDE DEF row, task
<1>6. detail' \in [Details -> Detail] /\ detail'[d] = row /\ \A e \in Details : e # d => detail'[e] = detail[e]
  BY <1>1, <1>3, <1>4 DEF TypeOK
<1>7. task = viewing[v]
  BY DEF task
<1> QED BY <1>1, <1>5, <1>6, <1>7

\* What drawing leaves in its detail.
LEMMA DrawnDetail ==
  ASSUME TypeOK, NEW v \in Viewers, viewing[v].op = "move", Draw(v)
  PROVE  LET d == viewing[v].detail
         IN  /\ detail' \in [Details -> Detail] /\ d \in Details
             /\ \A e \in Details : e # d => detail'[e] = detail[e]
             /\ detail'[d].image = detail[d].image
             /\ detail'[d].given = IF detail[d].image = viewing[v].target THEN d ELSE detail[d].given
<1> DEFINE task == viewing[v]
           d == task.detail
           given == IF detail[d].image = task.target THEN d ELSE detail[d].given
<1>1. d \in Details /\ task.target \in Paths
  BY ViewingRest, PathTypes
<1>2. given \in Contents
  BY <1>1 DEF TypeOK, Detail, Contents
<1>3. detail' = [detail EXCEPT ![d].given = given]
  BY DEF Draw
<1> HIDE DEF given
<1>4. /\ detail' \in [Details -> Detail] /\ detail'[d].given = given /\ detail'[d].image = detail[d].image
      /\ \A e \in Details : e # d => detail'[e] = detail[e]
  BY <1>1, <1>2, <1>3 DEF TypeOK, Detail
<1> QED BY <1>1, <1>4 DEF given

LEMMA TypeStep == TypeOK /\ ContentOK /\ [Next]_vars => TypeOK'
<1> SUFFICES ASSUME TypeOK, ContentOK, [Next]_vars PROVE TypeOK'
  OBVIOUS
<1> USE DEF View, Sign
<1>1. CASE UNCHANGED vars
  BY <1>1 DEF vars, rows, tasks, TypeOK
<1>2. CASE Staging
  <2> PICK u \in Uploads : StageWrite(u) \/ StageRegister(u) \/ StageFails(u) \/ Expire(u)
    BY <1>2 DEF Staging
  <2>1. CASE StageRegister(u)
    <3>1. [status |-> "STAGED", path |-> u] \in Asset /\ u \in Keys
      BY PathTypes DEF Asset, Keys
    <3> QED BY <2>1, <3>1 DEF StageRegister, rows, tasks, TypeOK
  <2>2. CASE StageWrite(u) \/ StageFails(u) \/ Expire(u)
    BY <2>2 DEF StageWrite, StageFails, Expire, Fault, rows, tasks, TypeOK
  <2> QED BY <2>1, <2>2
<1>3. CASE Attaching
  <2> PICK image \in Uploads \cup {NoImage} :
             \/ \E r \in Receipts : CreateReceipt(r, image)
             \/ \E d \in Details, linked \in SUBSET Receipts : Linking(d, image, linked)
    BY <1>3 DEF Attaching
  <2>1. image \in Paths /\ image \in Contents
    BY PathTypes DEF Contents
  <2>2. ASSUME NEW r \in Receipts, CreateReceipt(r, image) PROVE TypeOK'
    <3>1. receipt' \in [Receipts -> Receipt]
      BY <2>1, <2>2 DEF CreateReceipt, TypeOK, Receipt
    <3> QED BY <2>2, <3>1, AttachedTypes, NamedTypes DEF CreateReceipt, tasks, TypeOK
  <2>3. ASSUME NEW d \in Details, NEW linked \in SUBSET Receipts, CreateDetail(d, image, linked)
        PROVE  TypeOK'
    <3>1. receipt' \in [Receipts -> Receipt]
      BY <2>1, <2>3, LinkedTypes DEF CreateDetail
    <3>2. detail' \in [Details -> Detail]
      BY <2>1, <2>3 DEF CreateDetail, TypeOK, Detail
    <3> QED BY <2>3, <3>1, <3>2, AttachedTypes, NamedTypes DEF CreateDetail, tasks, TypeOK
  <2>4. ASSUME NEW d \in Details, NEW linked \in SUBSET Receipts, CreateDirect(d, image, linked)
        PROVE  TypeOK'
    <3>1. receipt' \in [Receipts -> Receipt]
      BY <2>1, <2>4, LinkedTypes DEF CreateDirect
    <3>2. detail' \in [Details -> Detail]
      BY <2>4 DEF CreateDirect, TypeOK, Detail
    <3> QED BY <2>4, <3>1, <3>2, NamedTypes DEF CreateDirect, tasks, TypeOK
  <2>5. ASSUME NEW d \in Details, NEW linked \in SUBSET Receipts, UpdateDetail(d, image, linked)
        PROVE  TypeOK'
    <3>1. detail' \in [Details -> Detail]
      BY <2>5, UpdatedDetail
    <3>2. detail[d].image \in Paths
      BY DEF TypeOK, Detail
    <3>3. receipt' \in [Receipts -> Receipt]
      BY <2>1, <2>5, <3>2, UpdatedDetail, LinkedTypes
    <3> QED BY <2>5, <3>1, <3>3, NamedTypes DEF UpdateDetail, tasks, TypeOK
  <2> QED BY <2>2, <2>3, <2>4, <2>5 DEF Linking
<1>4. CASE Previewing
  <2> PICK v \in Viewers : ViewStep(v) \/ PreviewFails(v) \/ Opening(v)
    BY <1>4 DEF Previewing
  <2> DEFINE task == viewing[v]
  <2>0. Nobody \in Viewing
    BY DEF Viewing
  <2>1. ASSUME viewing' \in [Viewers -> Viewing],
               UNCHANGED <<asset, expired, staging, named, stale, receipt, detail, signing, cleaning, cut>>
        PROVE  TypeOK'
    BY <2>1 DEF TypeOK
  <2>2. CASE Opening(v)
    <3> PICK d \in Details, redraw \in BOOLEAN : PreviewLoad(v, d, redraw)
      BY <2>2 DEF Opening
    <3>1. [op |-> "pick", detail |-> d, old |-> detail[d].image, redraw |-> redraw] \in Viewing
      BY DEF Viewing, TypeOK, Detail
    <3>2. viewing' \in [Viewers -> Viewing]
      BY <3>1 DEF PreviewLoad, TypeOK
    <3> QED BY <2>1, <3>2 DEF PreviewLoad, rows
  <2>3. CASE PreviewPick(v)
    <3>1. task \in [op : {"pick"}, detail : Details, old : Paths, redraw : BOOLEAN]
      BY <2>3, ViewingPick DEF PreviewPick, PickTarget, KeepName
    <3>2. Standard(task.old) => task.old \in Names
      BY BoundsAssumption DEF Standard, Names
    <3>3. ASSUME NEW a \in Names, NEW p \in Paths
          PROVE  /\ Task("register", task.detail, p, a) \in Viewing
                 /\ Task("move", task.detail, p, a) \in Viewing
      BY <3>1, <3>3 DEF Viewing, Task
    <3>4. viewing' \in [Viewers -> Viewing]
      <4>1. CASE KeepName(v)
        BY <2>0, <3>1, <3>2, <3>3, <4>1 DEF KeepName, TypeOK
      <4>2. CASE PickTarget(v)
        <5> DEFINE source == IF task.redraw THEN NoImage ELSE task.old
        <5>1. source \in Paths
          BY <3>1, PathTypes
        <5>2. \E a \in Names : View(v, Task("move", task.detail, source, a))
          BY <4>2, FreeNameIsFree DEF PickTarget
        <5> HIDE DEF source
        <5> QED BY <3>3, <5>1, <5>2 DEF TypeOK
      <4> QED BY <2>3, <4>1, <4>2 DEF PreviewPick
    <3> QED BY <2>1, <2>3, <3>4 DEF PreviewPick, rows
  <2>4. ASSUME task.op \in {"move", "point", "register"}
        PROVE  /\ task \in [op : {"move", "point", "register"}, detail : Details, old : Paths,
                             target : Names]
               /\ [task EXCEPT !.op = "point"] \in Viewing
               /\ [task EXCEPT !.op = "register"] \in Viewing
    BY <2>4, ViewingRest DEF Viewing
  <2>5. CASE PreviewMove(v)
    <3>1. viewing' \in [Viewers -> Viewing]
      BY <2>0, <2>4, <2>5 DEF PreviewMove, Draw, Rename, RenameFails, TypeOK
    <3>2. detail' \in [Details -> Detail]
      <4>1. CASE Draw(v)
        BY <2>5, <4>1, DrawnDetail DEF PreviewMove
      <4>2. CASE ~Draw(v)
        BY <2>5, <4>2 DEF PreviewMove, Rename, RenameFails, TypeOK
      <4> QED BY <4>1, <4>2
    <3> QED BY <2>5, <3>1, <3>2 DEF PreviewMove, TypeOK
  <2>6. CASE PreviewPoint(v)
    <3>1. viewing' \in [Viewers -> Viewing]
      BY <2>4, <2>6 DEF PreviewPoint, TypeOK
    <3>2. detail' \in [Details -> Detail]
      BY <2>6, PointedDetail
    <3> QED BY <2>6, <3>1, <3>2 DEF PreviewPoint, TypeOK
  <2>7. CASE PreviewRegister(v)
    <3>1. viewing' \in [Viewers -> Viewing]
      BY <2>0, <2>7 DEF PreviewRegister, TypeOK
    <3>2. [status |-> "ATTACHED", path |-> task.target] \in Asset
      BY <2>4, <2>7, PathTypes DEF PreviewRegister
    <3>3. asset' \in [Keys -> Asset] /\ expired' \subseteq Uploads
      BY <2>7, <3>2 DEF PreviewRegister, TypeOK
    <3> QED BY <2>7, <3>1, <3>3 DEF PreviewRegister, rows, TypeOK
  <2>8. CASE PreviewFails(v)
    <3>1. viewing' \in [Viewers -> Viewing]
      BY <2>0, <2>8 DEF PreviewFails, TypeOK
    <3>2. cut' \subseteq Paths
      BY <2>4, <2>8 DEF PreviewFails, TypeOK
    <3> QED BY <2>8, <3>1, <3>2 DEF PreviewFails, rows, TypeOK
  <2> QED BY <2>2, <2>3, <2>5, <2>6, <2>7, <2>8 DEF ViewStep
<1>5. CASE Sessions
  <2>1. PICK r \in Receipts : CreateSession(r) \/ SessionAges(r)
    BY <1>5 DEF Sessions
  <2>2. CASE CreateSession(r)
    BY <2>2 DEF CreateSession, tasks, TypeOK, Receipt
  <2>3. CASE SessionAges(r)
    BY <2>3 DEF SessionAges, rows, tasks, TypeOK
  <2> QED BY <2>1, <2>2, <2>3
<1>6. CASE \E f \in Signers : FinaliseStep(f)
  <2> PICK f \in Signers : FinaliseStep(f)
    BY <1>6
  <2>1. ASSUME signing[f].op \in {"write", "commit"}
        PROVE  signing[f] \in [op : {"write", "commit"}, receipt : Receipts]
    BY <2>1, SigningTask, SigningOp
  <2>2. Nobody \in Signing
    BY DEF Signing
  <2>3. ASSUME NEW r \in Receipts, FinaliseLoad(f, r) PROVE TypeOK'
    <3>1. [op |-> "write", receipt |-> r] \in Signing
      BY DEF Signing
    <3> QED BY <2>3, <3>1 DEF FinaliseLoad, rows, TypeOK
  <2>4. CASE FinaliseWrite(f)
    <3>1. [signing[f] EXCEPT !.op = "commit"] \in Signing
      BY <2>1, <2>4 DEF FinaliseWrite, Signing
    <3> QED BY <2>4, <3>1 DEF FinaliseWrite, rows, TypeOK
  <2>5. CASE FinaliseCommit(f)
    <3> DEFINE r == signing[f].receipt
    <3>1. r \in Receipts /\ r \in Keys /\ f \in Contents
      BY <2>1, <2>5 DEF FinaliseCommit, Keys, Contents
    <3>2. [status |-> "ATTACHED", path |-> Signed(r)] \in Asset
      BY <3>1, PathTypes
    <3>3. [status |-> "Open", image |-> Signed(r), given |-> f] \in Receipt
      BY <3>1, PathTypes DEF Receipt
    <3> QED BY <2>2, <2>5, <3>1, <3>2, <3>3 DEF FinaliseCommit, TypeOK
  <2>6. CASE FinaliseFails(f)
    BY <2>2, <2>6 DEF FinaliseFails, rows, TypeOK
  <2> QED BY <2>3, <2>4, <2>5, <2>6 DEF FinaliseStep
<1>7. CASE CleanStep \/ CleanFails
  <2>1. ASSUME cleaning' \in Cleaning,
               UNCHANGED <<asset, expired, staging, named, stale, receipt, detail, signing, viewing, cut>>
        PROVE  TypeOK'
    BY <2>1 DEF TypeOK
  <2>2. CASE CleanBegin
    <3>1. ExpiredAssets \in SUBSET Items
      BY DEF ExpiredAssets, Items, TypeOK, Asset, Keys
    <3>2. [op |-> "remove", list |-> ExpiredAssets] \in Cleaning
      BY <3>1 DEF Cleaning
    <3> QED BY <2>1, <2>2, <3>2 DEF CleanBegin, rows
  <2>3. ASSUME cleaning.op = "remove", NEW x \in cleaning.list, CleanRemove(x) PROVE TypeOK'
    <3>1. x \in Items /\ cleaning.list \in SUBSET Items
      BY <2>3, CleaningLists
    <3>2. [op |-> "mark", list |-> cleaning.list, item |-> x] \in Cleaning
      BY <3>1 DEF Cleaning
    <3> QED BY <2>1, <2>3, <3>2 DEF CleanRemove, rows
  <2>4. CASE CleanMark
    <3>1. cleaning.item \in Items /\ cleaning.list \in SUBSET Items
      BY <2>4, CleaningLists DEF CleanMark
    <3>2. [op |-> "remove", list |-> cleaning.list \ {cleaning.item}] \in Cleaning
      BY <3>1 DEF Cleaning
    <3>3. asset' \in [Keys -> Asset]
      BY <2>4, <3>1 DEF CleanMark, TypeOK, Items, Keys, Asset
    <3> QED BY <2>4, <3>2, <3>3 DEF CleanMark, rows, TypeOK
  <2>5. CASE StaleBegin
    <3>1. StaleSessions \in SUBSET Receipts
      BY DEF StaleSessions, TypeOK
    <3>2. [op |-> "cancel", list |-> StaleSessions] \in Cleaning
      BY <3>1 DEF Cleaning
    <3> QED BY <2>1, <2>5, <3>2 DEF StaleBegin, rows
  <2>6. ASSUME cleaning.op = "cancel", NEW r \in cleaning.list, StaleCancel(r) PROVE TypeOK'
    <3>1. r \in Receipts /\ cleaning \in [op : {"cancel"}, list : SUBSET Receipts]
      BY <2>6, CleaningLists
    <3>2. [cleaning EXCEPT !.list = @ \ {r}] \in Cleaning
      BY <3>1 DEF Cleaning
    <3>3. receipt' \in [Receipts -> Receipt]
      BY <2>6, <3>1 DEF StaleCancel, TypeOK, Receipt
    <3> QED BY <2>6, <3>2, <3>3 DEF StaleCancel, TypeOK
  <2>7. CASE CleanEnd \/ CleanFails
    <3>1. Nobody \in Cleaning
      BY DEF Cleaning
    <3> QED BY <2>7, <3>1 DEF CleanEnd, CleanFails, Fault, rows, TypeOK
  <2> QED BY <1>7, <2>2, <2>3, <2>4, <2>5, <2>6, <2>7 DEF CleanStep
<1>8. Next => \/ Staging \/ Attaching \/ Previewing \/ Sessions
              \/ (\E f \in Signers : FinaliseStep(f))
              \/ (CleanStep \/ CleanFails)
  BY Actions
<1> QED BY <1>1, <1>2, <1>3, <1>4, <1>5, <1>6, <1>7, <1>8

LEMMA ContentStep == TypeOK /\ ContentOK /\ [Next]_vars => ContentOK'
<1> SUFFICES ASSUME TypeOK, ContentOK, [Next]_vars PROVE ContentOK'
  OBVIOUS
<1>1. ASSUME NEW p, disk' = Removed(p) PROVE ContentOK'
  BY <1>1 DEF ContentOK, Removed
<1>2. ASSUME NEW p, NEW content \in Uploads \cup Details \cup Signers, disk' = Written(p, content)
      PROVE  ContentOK'
  <2>1. content \in Contents \ {NoImage}
    BY NoImageAssumption, RowsAssumption DEF Contents
  <2> QED BY <1>2, <2>1 DEF ContentOK, Written
<1>3. ASSUME UNCHANGED disk PROVE ContentOK'
  BY <1>3 DEF ContentOK
<1>4. CASE Staging
  BY <1>1, <1>2, <1>3, <1>4 DEF Staging, StageWrite, StageRegister, StageFails, Expire
<1>5. CASE Attaching \/ Sessions \/ UNCHANGED vars
  BY <1>3, <1>5 DEF Attaching, Linking, CreateReceipt, CreateDetail, CreateDirect, UpdateDetail, Sessions,
                    CreateSession, SessionAges, vars
<1>6. CASE Previewing
  <2> PICK v \in Viewers : ViewStep(v) \/ PreviewFails(v) \/ Opening(v)
    BY <1>6 DEF Previewing
  <2>1. CASE PreviewMove(v)
    <3>1. viewing[v].detail \in Details
      BY <2>1, ViewingRest DEF PreviewMove
    <3>2. CASE Draw(v)
      BY <1>2, <3>1, <3>2 DEF Draw
    <3>3. CASE Rename(v)
      BY <3>3 DEF Rename, ContentOK
    <3>4. CASE RenameFails(v)
      BY <1>3, <3>4 DEF RenameFails
    <3> QED BY <2>1, <3>2, <3>3, <3>4 DEF PreviewMove
  <2>2. CASE ~PreviewMove(v)
    BY <1>3, <2>2 DEF ViewStep, Opening, PreviewPick, PreviewPoint, PreviewRegister, PreviewFails, PreviewLoad
  <2> QED BY <2>1, <2>2
<1>7. CASE \E f \in Signers : FinaliseStep(f)
  BY <1>1, <1>2, <1>3, <1>7 DEF FinaliseStep, FinaliseWrite, FinaliseCommit, FinaliseFails, FinaliseLoad, DropFile
<1>8. CASE CleanStep \/ CleanFails
  BY <1>1, <1>3, <1>8 DEF CleanStep, CleanFails, CleanBegin, CleanRemove, CleanMark, StaleBegin, StaleCancel, CleanEnd
<1> QED BY <1>4, <1>5, <1>6, <1>7, <1>8, Actions

-----------------------------------------------------------------------------
(* One at a time.                                                          *)

Idle ==
    /\ cleaning = Nobody
    /\ \A f \in Signers : signing[f] = Nobody
    /\ \A v \in Viewers : viewing[v] = Nobody

LEMMA FreeIsIdle ==
  ASSUME Orderly, Free
  PROVE  Idle
BY DEF Free, Idle

LEMMA ViewerAlone ==
  ASSUME TypeOK, SoloInv, NEW v \in Viewers, viewing[v] # Nobody
  PROVE  /\ cleaning = Nobody
         /\ \A f \in Signers : signing[f] = Nobody
         /\ \A w \in Viewers : w # v => viewing[w] = Nobody
<1>1. ASSUME NEW f \in Signers, signing[f] # Nobody PROVE FALSE
  BY <1>1 DEF SoloInv
<1> QED BY <1>1 DEF SoloInv

\* A preview takes no other one further.
LEMMA OthersView ==
  ASSUME TypeOK, NEW v \in Viewers, ViewStep(v) \/ PreviewFails(v) \/ Opening(v)
  PROVE  \A w \in Viewers : w # v => viewing'[w] = viewing[w]
<1>1. \A step : View(v, step) => \A w \in Viewers : w # v => viewing'[w] = viewing[w]
  BY DEF View, TypeOK
<1>2. \E step : View(v, step)
  BY DEF ViewStep, Opening, PreviewPick, PickTarget, KeepName, PreviewMove, Draw, Rename, RenameFails,
         PreviewPoint, PreviewRegister, PreviewFails, PreviewLoad
<1> QED BY <1>1, <1>2

LEMMA SignerAlone ==
  ASSUME TypeOK, SoloInv, NEW f \in Signers, signing[f].op \in {"write", "commit"}
  PROVE  /\ cleaning = Nobody
         /\ \A g \in Signers : g # f => signing[g] = Nobody
         /\ \A v \in Viewers : viewing[v] = Nobody
<1>1. signing[f] # Nobody
  BY DEF Nobody
<1> QED BY <1>1 DEF SoloInv

LEMMA CleanerAlone ==
  ASSUME TypeOK, SoloInv, cleaning # Nobody
  PROVE  /\ \A f \in Signers : signing[f] = Nobody
         /\ \A v \in Viewers : viewing[v] = Nobody
BY DEF SoloInv

LEMMA SoloStep == Orderly /\ TypeOK /\ SoloInv /\ [Next]_vars => SoloInv'
<1> SUFFICES ASSUME Orderly, TypeOK, SoloInv, [Next]_vars PROVE SoloInv'
  OBVIOUS
<1>1. ASSUME UNCHANGED <<signing, viewing, cleaning>> PROVE SoloInv'
  BY <1>1 DEF SoloInv
<1>2. ASSUME NEW v \in Viewers, UNCHANGED <<signing, cleaning>>,
             \A w \in Viewers : w # v => viewing'[w] = viewing[w],
             cleaning = Nobody, \A f \in Signers : signing[f] = Nobody,
             \A w \in Viewers : w # v => viewing[w] = Nobody
      PROVE  SoloInv'
  BY <1>2 DEF SoloInv
<1>3. ASSUME NEW f \in Signers, UNCHANGED <<viewing, cleaning>>,
             \A g \in Signers : g # f => signing'[g] = signing[g],
             cleaning = Nobody, \A v \in Viewers : viewing[v] = Nobody,
             \A g \in Signers : g # f => signing[g] = Nobody
      PROVE  SoloInv'
  BY <1>3 DEF SoloInv
<1>4. ASSUME UNCHANGED <<signing, viewing>>, \A v \in Viewers : viewing[v] = Nobody,
             \A f \in Signers : signing[f] = Nobody
      PROVE  SoloInv'
  BY <1>4 DEF SoloInv
<1>5. CASE UNCHANGED vars
  BY <1>1, <1>5 DEF vars, tasks
<1>6. CASE Staging \/ Attaching \/ Sessions
  <2>1. CASE Staging
    BY <1>1, <2>1 DEF Staging, StageWrite, StageRegister, StageFails, Expire, tasks
  <2>2. CASE Attaching
    <3>1. UNCHANGED tasks
      BY <2>2 DEF Attaching, Linking, CreateReceipt, CreateDetail, CreateDirect, UpdateDetail
    <3> QED BY <1>1, <3>1 DEF tasks
  <2>3. CASE Sessions
    BY <1>1, <2>3 DEF Sessions, CreateSession, SessionAges, tasks
  <2> QED BY <1>6, <2>1, <2>2, <2>3
<1>7. CASE Previewing
  <2> PICK v \in Viewers : ViewStep(v) \/ PreviewFails(v) \/ Opening(v)
    BY <1>7 DEF Previewing
  <2>1. \A w \in Viewers : w # v => viewing'[w] = viewing[w]
    BY OthersView
  <2>2. UNCHANGED <<signing, cleaning>>
    BY DEF ViewStep, Opening, PreviewPick, PreviewMove, PreviewPoint, PreviewRegister, PreviewFails, PreviewLoad
  <2>3. CASE ViewStep(v) \/ PreviewFails(v)
    <3>1. viewing[v] # Nobody
      BY <2>3 DEF ViewStep, PreviewPick, PickTarget, KeepName, PreviewMove, PreviewPoint, PreviewRegister,
                  PreviewFails, Nobody
    <3> QED BY <1>2, <2>1, <2>2, <3>1, ViewerAlone
  <2>4. CASE Opening(v)
    <3>1. Idle
      BY <2>4, FreeIsIdle DEF Opening, PreviewLoad
    <3> QED BY <1>2, <2>1, <2>2, <3>1 DEF Idle
  <2> QED BY <2>3, <2>4
<1>8. CASE \E f \in Signers : FinaliseStep(f)
  <2> PICK f \in Signers : FinaliseStep(f)
    BY <1>8
  <2>1. \A g \in Signers : g # f => signing'[g] = signing[g]
    BY DEF FinaliseStep, FinaliseWrite, FinaliseCommit, FinaliseFails, FinaliseLoad, Sign, TypeOK
  <2>2. UNCHANGED <<viewing, cleaning>>
    BY DEF FinaliseStep, FinaliseWrite, FinaliseCommit, FinaliseFails, FinaliseLoad
  <2>3. CASE \E r \in Receipts : FinaliseLoad(f, r)
    <3>1. Idle
      BY <2>3, FreeIsIdle DEF FinaliseLoad
    <3> QED BY <1>3, <2>1, <2>2, <3>1 DEF Idle
  <2>4. CASE ~\E r \in Receipts : FinaliseLoad(f, r)
    <3>1. signing[f].op \in {"write", "commit"}
      BY <2>4 DEF FinaliseStep, FinaliseWrite, FinaliseCommit, FinaliseFails
    <3> QED BY <1>3, <2>1, <2>2, <3>1, SignerAlone
  <2> QED BY <2>3, <2>4
<1>9. CASE CleanStep \/ CleanFails
  <2>1. UNCHANGED <<signing, viewing>>
    BY <1>9 DEF CleanStep, CleanFails, CleanBegin, CleanRemove, CleanMark, StaleBegin, StaleCancel, CleanEnd
  <2>2. CASE CleanBegin
    BY <1>4, <2>1, <2>2, FreeIsIdle DEF CleanBegin, Idle
  <2>3. CASE ~CleanBegin
    <3>1. cleaning.op \in {"remove", "mark", "cancel"} \/ cleaning # Nobody
      BY <1>9, <2>3 DEF CleanStep, CleanFails, CleanRemove, CleanMark, StaleBegin, StaleCancel, CleanEnd
    <3> QED BY <1>4, <2>1, <3>1, CleaningLists, CleanerAlone
  <2> QED BY <2>2, <2>3
<1> QED BY <1>5, <1>6, <1>7, <1>8, <1>9, Actions

-----------------------------------------------------------------------------
(* The files, when one is at work at a time.                               *)

FileKept(p) == /\ p \in DOMAIN disk' <=> p \in DOMAIN disk
               /\ p \in DOMAIN disk => disk'[p] = disk[p]

\* An upload that is not attached is given to no row.
LEMMA GivenIsAttached ==
  ASSUME TypeOK, FileInv, NEW u \in Uploads, asset[u].status # "ATTACHED"
  PROVE  /\ \A d \in Details : detail[d].given # NoImage => detail[d].image # u
         /\ \A r \in Receipts : receipt[r].given # NoImage => receipt[r].image # u
         /\ u \notin Names /\ u # NoImage /\ \A r \in Receipts : Signed(r) # u
BY NoImageAssumption, PathsAssumption DEF FileInv, DetailInv, ReceiptInv

LEMMA ViewTypes ==
  ASSUME TypeOK, NEW v \in Viewers
  PROVE  /\ viewing[v].op \in {"pick", "move", "point"} =>
              viewing[v].detail \in Details /\ viewing[v].old \in Paths
         /\ viewing[v].op \in {"move", "point"} => viewing[v].target \in Names
BY ViewingPick, ViewingRest

\* Steps that touch the file and the row of an upload that is given to no row.
LEMMA UploadKeeps ==
  ASSUME TypeOK, FileInv, NEW u \in Uploads, asset[u].status # "ATTACHED",
         \A p : p # u => FileKept(p),
         u \in DOMAIN disk' => u \in DOMAIN disk \/ asset[u] = NoAsset,
         \A i \in Keys : i # u => asset'[i] = asset[i],
         asset[u] # NoAsset => asset'[u] # NoAsset,
         UNCHANGED <<receipt, detail, signing, viewing, named, cut>>
  PROVE  NamedInv' /\ DetailInv' /\ KeptInv' /\ ReceiptInv' /\ SignInv' /\ ViewInv'
<1>1. /\ \A d \in Details : detail[d].given # NoImage => detail[d].image # u
      /\ \A r \in Receipts : receipt[r].given # NoImage => receipt[r].image # u
      /\ u \notin Names /\ u # NoImage /\ \A r \in Receipts : Signed(r) # u
  BY GivenIsAttached
<1>2. u \in named => (u \in DOMAIN disk' => u \in DOMAIN disk)
  BY DEF FileInv, NamedInv
<1>3. NamedInv'
  BY <1>2 DEF FileInv, NamedInv, FileKept, TypeOK, Keys
<1>4. DetailInv'
  BY <1>1 DEF FileInv, DetailInv, Keys
<1>5. KeptInv'
  BY <1>1 DEF FileInv, KeptInv, NoNameLost, FileKept, Shows, Moved
<1>6. ReceiptInv'
  BY <1>1 DEF FileInv, ReceiptInv, FileKept, Shows, Keys
<1>7. SignInv'
  <2>1. ASSUME NEW f \in Signers, signing[f] # Nobody PROVE signing[f].receipt \in Receipts
    BY <2>1, SigningTask
  <2> QED BY <1>1, <2>1 DEF FileInv, SignInv, FileKept
<1>8. ViewInv'
  <2>1. ASSUME NEW v \in Viewers, viewing[v].op = "point", viewing[v].old \in Uploads
        PROVE  viewing[v].old \notin DOMAIN disk'
    <3>1. viewing[v].old \notin DOMAIN disk /\ viewing[v].old = detail[viewing[v].detail].image
          /\ viewing[v].detail \in Details
      BY <2>1, ViewTypes, NoImageAssumption DEF FileInv, ViewInv
    <3>2. viewing[v].old \in named
      BY <2>1, <3>1 DEF FileInv, DetailInv
    <3> QED BY <1>2, <3>1, <3>2 DEF FileKept
  <2> QED BY <1>1, <2>1, ViewTypes DEF FileInv, ViewInv, NoNameLost, FileKept
<1> QED BY <1>3, <1>4, <1>5, <1>6, <1>7, <1>8

LEMMA StagingKeeps ==
  ASSUME TypeOK, FileInv, Staging
  PROVE  FileInv'
<1> PICK u \in Uploads : StageWrite(u) \/ StageRegister(u) \/ StageFails(u) \/ Expire(u)
  BY DEF Staging
<1>1. u \in Keys
  BY DEF Keys
<1>2. UNCHANGED <<receipt, detail, signing, viewing, cleaning, named, cut>>
  BY DEF StageWrite, StageRegister, StageFails, Expire, rows, tasks
<1>3. asset[u].status # "ATTACHED"
  BY DEF StageWrite, StageRegister, StageFails, Expire, FileInv, StagedInv, NoAsset
<1>4. \A p : p # u => FileKept(p)
  BY DEF StageWrite, StageRegister, StageFails, Expire, FileKept, Written, Removed
<1>5. \A i \in Keys : i # u => asset'[i] = asset[i]
  BY DEF StageWrite, StageRegister, StageFails, Expire, TypeOK
<1>6. asset[u] # NoAsset => asset'[u] # NoAsset
  BY <1>1 DEF StageWrite, StageRegister, StageFails, Expire, FileInv, StagedInv
<1>7. u \in DOMAIN disk' => u \in DOMAIN disk \/ asset[u] = NoAsset
  BY DEF StageWrite, StageRegister, StageFails, Expire, Removed
<1>8. StagedInv'
  <2>1. CASE StageWrite(u)
    BY <1>1, <2>1 DEF StageWrite, FileInv, StagedInv, Written, NoAsset
  <2>2. CASE StageRegister(u)
    BY <1>1, <2>2 DEF StageRegister, FileInv, StagedInv, NoAsset, TypeOK
  <2>3. CASE StageFails(u)
    BY <1>1, <2>3 DEF StageFails, FileInv, StagedInv, Removed, NoAsset
  <2>4. CASE Expire(u)
    BY <1>1, <2>4 DEF Expire, FileInv, StagedInv
  <2> QED BY <2>1, <2>2, <2>3, <2>4
<1>9. CleanInv'
  <2>1. expired \subseteq expired'
    BY DEF StageWrite, StageRegister, StageFails, Expire
  <2>2. ASSUME NEW x \in cleaning.list, cleaning.op = "mark", x.path \notin DOMAIN disk
        PROVE  x.path \notin DOMAIN disk'
    <3>1. x.path \in expired /\ asset[x.path].status = "STAGED"
      BY <2>2 DEF FileInv, CleanInv, StagedInv, Item
    <3>2. x.path = u => UNCHANGED disk
      BY <3>1 DEF StageWrite, StageRegister, StageFails, Expire, FileInv, StagedInv, NoAsset
    <3> QED BY <1>4, <2>2, <3>2 DEF FileKept
  <2> QED BY <1>2, <2>1, <2>2 DEF FileInv, CleanInv
<1>10. NamedInv' /\ DetailInv' /\ KeptInv' /\ ReceiptInv' /\ SignInv' /\ ViewInv'
  BY <1>2, <1>3, <1>4, <1>5, <1>6, <1>7, UploadKeeps
<1> QED BY <1>8, <1>9, <1>10 DEF FileInv

-----------------------------------------------------------------------------
(* Rows that are given an image.                                           *)

\* An upload that is named for the first time is shown by nobody.
LEMMA NamedIsNew ==
  ASSUME TypeOK, FileInv, NEW image \in Uploads \cup {NoImage}, Named(image), UNCHANGED <<disk, cut>>,
         \A i \in Keys : asset[i] # NoAsset => asset'[i] # NoAsset
  PROVE  /\ NamedInv' /\ named \subseteq named'
         /\ image # NoImage =>
              /\ image \in named' /\ image \notin named
              /\ \A d \in Details : detail[d].image # image
              /\ \A r \in Receipts : receipt[r].given # NoImage => receipt[r].image # image
<1>1. named' = named \cup ({image} \ {NoImage}) /\ (image # NoImage => image \notin named /\ asset[image] # NoAsset)
  BY DEF Named
<1>2. NamedInv'
  BY <1>1 DEF FileInv, NamedInv, Keys, TypeOK
<1>3. image # NoImage => /\ \A d \in Details : detail[d].image # image
                         /\ \A r \in Receipts : receipt[r].given # NoImage => receipt[r].image # image
  BY <1>1 DEF FileInv, DetailInv, ReceiptInv
<1> QED BY <1>1, <1>2, <1>3

LEMMA AttachedKeeps ==
  ASSUME Orderly, TypeOK, FileInv, NEW image \in Uploads \cup {NoImage}, Attached(image),
         image # NoImage => image \notin named, named \subseteq named', UNCHANGED <<disk, staging>>
  PROVE  /\ StagedInv'
         /\ \A i \in Keys : /\ asset[i].status = "ATTACHED" => asset'[i].status = "ATTACHED"
                            /\ asset[i] # NoAsset => asset'[i] # NoAsset
         /\ image # NoImage =>
              /\ asset'[image].status = "ATTACHED" /\ image \in DOMAIN disk /\ disk[image] = image
<1>1. CASE image = NoImage
  <2>1. UNCHANGED <<asset, disk, staging>>
    BY <1>1 DEF Attached
  <2>2. expired' = expired
    BY <1>1, NoImageAssumption DEF Attached, TypeOK
  <2> QED BY <1>1, <2>1, <2>2 DEF FileInv, StagedInv
<1>2. CASE image # NoImage
  <2>1. image \in Uploads /\ image \in Keys /\ asset[image].status = "STAGED" /\ image \notin expired
    BY <1>2 DEF Attached, Keys
  <2>2. asset' = [asset EXCEPT ![image].status = "ATTACHED"] /\ expired' = expired \ {image}
    BY <1>2 DEF Attached
  <2>3. \A i \in Keys : /\ i # image => asset'[i] = asset[i]
                        /\ asset'[i].path = asset[i].path
    BY <2>2 DEF TypeOK, Asset
  <2>4. asset'[image].status = "ATTACHED"
    BY <2>1, <2>2 DEF TypeOK, Asset
  <2>5. StagedInv'
    BY <2>1, <2>2, <2>3, <2>4 DEF FileInv, StagedInv, Keys, TypeOK, NoAsset
  <2>6. \A i \in Keys : /\ asset[i].status = "ATTACHED" => asset'[i].status = "ATTACHED"
                        /\ asset[i] # NoAsset => asset'[i] # NoAsset
    BY <2>3, <2>4 DEF NoAsset
  <2>7. image \in DOMAIN disk /\ disk[image] = image
    BY <1>2, <2>1 DEF FileInv, StagedInv
  <2> QED BY <2>4, <2>5, <2>6, <2>7
<1> QED BY <1>1, <1>2

\* What a request knows of an image that it gives to rows.
New(image) ==
    /\ UNCHANGED <<disk, viewing, cut>> /\ named \subseteq named'
    /\ \A i \in Keys : asset[i].status = "ATTACHED" => asset'[i].status = "ATTACHED"
    /\ image # NoImage =>
         /\ image \in named' /\ \A d \in Details : detail[d].image # image
         /\ \A r \in Receipts : receipt[r].given # NoImage => receipt[r].image # image

\* An image that is given is attached and on disk.
AttachedTo(image) == image # NoImage => /\ asset'[image].status = "ATTACHED"
                                        /\ image \in DOMAIN disk /\ disk[image] = image

LEMMA DetailsKeep ==
  ASSUME TypeOK, FileInv, NEW image \in Uploads \cup {NoImage}, New(image), NEW d \in Details,
         \A e \in Details : e # d => /\ detail'[e].image = detail[e].image
                                     /\ detail'[e].given = detail[e].given,
         \/ detail'[d].image = detail[d].image /\ detail'[d].given = detail[d].given
         \/ detail'[d].image = image /\ detail'[d].given = NoImage
         \/ detail'[d].image = image /\ detail'[d].given = image /\ AttachedTo(image)
  PROVE  DetailInv' /\ KeptInv'
<1>1. image \notin Names
  BY PathsAssumption
<1>2. ASSUME NEW e \in Details
      PROVE  /\ detail'[e].image \in {NoImage} \cup Uploads \cup Names
             /\ detail'[e].image = NoImage => detail'[e].given = NoImage
             /\ detail'[e].image \in Names => detail'[e].given # NoImage
  BY <1>1 DEF FileInv, DetailInv
<1>3. ASSUME NEW e \in Details, detail'[e].image \in Uploads
      PROVE  /\ detail'[e].image \in named'
             /\ detail'[e].given # NoImage => asset'[detail'[e].image].status = "ATTACHED"
  <2>1. CASE detail'[e].image = detail[e].image /\ detail'[e].given = detail[e].given
    BY <1>3, <2>1 DEF FileInv, DetailInv, New, Keys
  <2>2. CASE ~(detail'[e].image = detail[e].image /\ detail'[e].given = detail[e].given)
    BY <1>3, <2>2, NoImageAssumption DEF New, AttachedTo
  <2> QED BY <2>1, <2>2
<1>4. ASSUME NEW e \in Details, NEW c \in Details, e # c, detail[e].image # detail[c].image,
             detail'[e].image # NoImage
      PROVE  detail'[e].image # detail'[c].image
  BY <1>4 DEF New
<1>5. DetailInv'
  <2>1. ASSUME NEW e \in Details, NEW c \in Details, e # c, detail'[e].image \in Uploads
        PROVE  detail'[c].image # detail'[e].image
    BY <1>4, <2>1, NoImageAssumption DEF FileInv, DetailInv, New
  <2> QED BY <1>2, <1>3, <2>1 DEF DetailInv
<1>6. KeptInv'
  <2> SUFFICES ASSUME NoNameLost', NEW e \in Details
               PROVE  /\ \A c \in Details : c # e /\ detail'[e].image # NoImage
                                              => detail'[c].image # detail'[e].image
                      /\ \/ detail'[e].given = NoImage \/ Shows(detail[e])' \/ Moved(e)'
                         \/ detail'[e].image \in cut'
    BY DEF KeptInv
  <2>1. NoNameLost
    BY DEF NoNameLost, New
  <2>2. ASSUME NEW c \in Details, c # e, detail'[e].image # NoImage
        PROVE  detail'[c].image # detail'[e].image
    BY <1>4, <2>1, <2>2 DEF FileInv, KeptInv, New
  <2>3. CASE detail'[e].image = detail[e].image /\ detail'[e].given = detail[e].given
    BY <2>1, <2>3 DEF FileInv, KeptInv, New, Shows, Moved
  <2>4. CASE ~(detail'[e].image = detail[e].image /\ detail'[e].given = detail[e].given)
    BY <2>4 DEF AttachedTo, New, Shows
  <2> QED BY <2>2, <2>3, <2>4
<1> QED BY <1>5, <1>6

LEMMA ReceiptsKeep ==
  ASSUME TypeOK, FileInv, NEW image \in Uploads \cup {NoImage}, New(image),
         \A d \in Details : detail'[d].image \in {detail[d].image, image},
         \A r \in Receipts :
           \/ receipt'[r] = receipt[r]
           \/ receipt'[r].status = "Open" /\ receipt'[r].given = NoImage
           \/ /\ receipt'[r].status = "Open" /\ receipt'[r].image = image /\ receipt'[r].given = image
              /\ AttachedTo(image) /\ UNCHANGED detail
  PROVE  ReceiptInv'
<1> SUFFICES ASSUME NEW r \in Receipts
             PROVE  /\ receipt'[r].status \in {"None", "SIGNING_PENDING"} => receipt'[r].image = NoImage
                    /\ receipt'[r].image = NoImage => receipt'[r].given = NoImage
                    /\ receipt'[r].given # NoImage =>
                         /\ receipt'[r].image \in Uploads \cup {Signed(r)}
                         /\ receipt'[r].image \in Uploads =>
                              /\ receipt'[r].image \in named'
                              /\ asset'[receipt'[r].image].status = "ATTACHED"
                              /\ \A d \in Details : detail'[d].image # receipt'[r].image
                         /\ Shows(receipt[r])'
  BY DEF ReceiptInv
<1>1. CASE receipt'[r] = receipt[r]
  BY <1>1, NoImageAssumption DEF FileInv, ReceiptInv, New, Shows, Keys
<1>2. CASE receipt'[r].status = "Open" /\ receipt'[r].given = NoImage
  BY <1>2
<1>3. CASE /\ receipt'[r].status = "Open" /\ receipt'[r].image = image /\ receipt'[r].given = image
           /\ AttachedTo(image) /\ UNCHANGED detail
  BY <1>3, NoImageAssumption DEF New, AttachedTo, Shows
<1> QED BY <1>1, <1>2, <1>3

LEMMA AttachingKeeps ==
  ASSUME Orderly, TypeOK, FileInv, Attaching
  PROVE  FileInv'
<1> PICK image \in Uploads \cup {NoImage} :
           \/ \E r \in Receipts : CreateReceipt(r, image)
           \/ \E d \in Details, linked \in SUBSET Receipts : Linking(d, image, linked)
  BY DEF Attaching
<1>1. Free /\ Named(image) /\ UNCHANGED <<disk, staging, signing, viewing, cleaning, cut>>
  BY DEF CreateReceipt, Linking, CreateDetail, CreateDirect, UpdateDetail, tasks
<1>2. Idle
  BY <1>1, FreeIsIdle
<1>3. SignInv' /\ ViewInv' /\ CleanInv'
  BY <1>1, <1>2 DEF Idle, SignInv, ViewInv, CleanInv, Nobody
<1>4. Attached(image) \/ UNCHANGED <<asset, expired>>
  BY DEF CreateReceipt, Linking, CreateDetail, CreateDirect, UpdateDetail
<1>5. named \subseteq named' /\ (image # NoImage => image \notin named)
  BY <1>1 DEF Named
<1>6. /\ StagedInv'
      /\ \A i \in Keys : /\ asset[i].status = "ATTACHED" => asset'[i].status = "ATTACHED"
                         /\ asset[i] # NoAsset => asset'[i] # NoAsset
      /\ Attached(image) => AttachedTo(image)
  <2>1. CASE Attached(image)
    BY <1>1, <1>5, <2>1, AttachedKeeps DEF AttachedTo
  <2>2. CASE ~Attached(image) /\ UNCHANGED <<asset, expired>>
    BY <1>1, <1>5, <2>2 DEF FileInv, StagedInv
  <2> QED BY <1>4, <2>1, <2>2
<1>7. NamedInv' /\ New(image)
  BY <1>1, <1>6, NamedIsNew DEF New
<1>8. ASSUME NEW r \in Receipts, CreateReceipt(r, image) PROVE DetailInv' /\ KeptInv' /\ ReceiptInv'
  <2>1. UNCHANGED detail /\ receipt'[r] = [status |-> "Open", image |-> image, given |-> image]
        /\ \A q \in Receipts : q # r => receipt'[q] = receipt[q]
    BY <1>8 DEF CreateReceipt, TypeOK
  <2>2. AttachedTo(image)
    BY <1>6, <1>8 DEF CreateReceipt
  <2>3. ReceiptInv'
    BY <1>7, <2>1, <2>2, ReceiptsKeep
  <2>4. DetailInv'
    BY <1>7, <2>1 DEF FileInv, DetailInv, New, Keys
  <2>5. KeptInv'
    BY <1>7, <2>1 DEF FileInv, KeptInv, New, NoNameLost, Shows, Moved
  <2> QED BY <2>3, <2>4, <2>5
<1>9. ASSUME NEW linked \in SUBSET Receipts, NEW shown \in Paths, Linked(linked, shown),
             \A d \in Details : detail'[d].image \in {detail[d].image, image}
      PROVE  ReceiptInv'
  <2>1. \A r \in Receipts :
           \/ receipt'[r] = receipt[r]
           \/ receipt'[r].status = "Open" /\ receipt'[r].given = NoImage
    BY <1>9, LinkedTypes DEF FileInv, ReceiptInv
  <2> QED BY <1>7, <1>9, <2>1, ReceiptsKeep
<1>10. image \in Paths
  BY PathTypes
<1>11. ASSUME NEW d \in Details, NEW linked \in SUBSET Receipts, CreateDetail(d, image, linked)
       PROVE  DetailInv' /\ KeptInv' /\ ReceiptInv'
  <2>1. detail'[d].image = image /\ detail'[d].given = image
        /\ \A e \in Details : e # d => detail'[e] = detail[e]
    BY <1>11 DEF CreateDetail, TypeOK
  <2>2. AttachedTo(image) /\ Linked(linked, image)
    BY <1>6, <1>11 DEF CreateDetail
  <2>3. DetailInv' /\ KeptInv'
    BY <1>7, <2>1, <2>2, DetailsKeep
  <2> QED BY <1>9, <1>10, <2>1, <2>2, <2>3
<1>12. ASSUME NEW d \in Details, NEW linked \in SUBSET Receipts, CreateDirect(d, image, linked)
       PROVE  DetailInv' /\ KeptInv' /\ ReceiptInv'
  <2>1. \A e \in Details : detail'[e].image = detail[e].image /\ detail'[e].given = detail[e].given
    BY <1>12 DEF CreateDirect, TypeOK, Detail
  <2>2. DetailInv' /\ KeptInv'
    BY <1>7, <2>1, DetailsKeep
  <2>3. Linked(linked, image)
    BY <1>12 DEF CreateDirect
  <2> QED BY <1>9, <1>10, <2>1, <2>2, <2>3
<1>13. ASSUME NEW d \in Details, NEW linked \in SUBSET Receipts, UpdateDetail(d, image, linked)
       PROVE  DetailInv' /\ KeptInv' /\ ReceiptInv'
  <2>1. /\ \A e \in Details : e # d => detail'[e] = detail[e]
        /\ image = NoImage => detail' = detail
        /\ image # NoImage => detail'[d].image = image /\ detail'[d].given = NoImage
        /\ \/ Linked(linked, detail[d].image) /\ image = NoImage
           \/ Linked(linked, image) /\ image # NoImage
    BY <1>13, UpdatedDetail
  <2>2. DetailInv' /\ KeptInv'
    BY <1>7, <2>1, DetailsKeep
  <2>3. \A e \in Details : detail'[e].image \in {detail[e].image, image}
    BY <2>1
  <2>4. detail[d].image \in Paths
    BY DEF TypeOK, Detail
  <2> QED BY <1>9, <1>10, <2>1, <2>2, <2>3, <2>4
<1>14. DetailInv' /\ KeptInv' /\ ReceiptInv'
  BY <1>8, <1>11, <1>12, <1>13 DEF Linking
<1> QED BY <1>3, <1>6, <1>7, <1>14 DEF FileInv

LEMMA SessionsKeep ==
  ASSUME Orderly, TypeOK, FileInv, Sessions
  PROVE  FileInv'
<1> PICK r \in Receipts : CreateSession(r) \/ SessionAges(r)
  BY DEF Sessions
<1>1. UNCHANGED <<disk, asset, expired, staging, named, detail, signing, viewing, cleaning, cut>>
  BY DEF CreateSession, SessionAges, rows, tasks
<1>2. StagedInv' /\ NamedInv' /\ DetailInv' /\ KeptInv' /\ ViewInv' /\ CleanInv'
  BY <1>1 DEF FileInv, StagedInv, NamedInv, DetailInv, KeptInv, NoNameLost, ViewInv, CleanInv, Shows, Moved
<1>3. CASE CreateSession(r)
  <2>1. Idle
    BY <1>3, FreeIsIdle DEF CreateSession
  <2>2. SignInv'
    BY <1>1, <2>1 DEF Idle, SignInv
  <2>3. \A q \in Receipts : /\ receipt'[q].image = receipt[q].image /\ receipt'[q].given = receipt[q].given
                            /\ q # r => receipt'[q].status = receipt[q].status
    BY <1>3 DEF CreateSession, TypeOK, Receipt
  <2>4. receipt[r].status = "None"
    BY <1>3 DEF CreateSession
  <2>5. ReceiptInv'
    BY <1>1, <2>3, <2>4 DEF FileInv, ReceiptInv, Shows
  <2> QED BY <1>2, <2>2, <2>5 DEF FileInv
<1>4. CASE SessionAges(r)
  BY <1>1, <1>2, <1>4 DEF SessionAges, rows, FileInv, SignInv, ReceiptInv, Shows
<1> QED BY <1>3, <1>4

-----------------------------------------------------------------------------
(* The preview of a detail.                                                *)

LEMMA SignedApart ==
  ASSUME NEW r \in Receipts
  PROVE  Signed(r) \notin Names \cup Uploads \cup {NoImage}
BY PathsAssumption DEF Signed, Names

\* What holds of a request that is alone.
LEMMA PreviewAlone ==
  ASSUME NEW v \in Viewers, UNCHANGED <<signing, cleaning>>,
         \A w \in Viewers : w # v => viewing'[w] = viewing[w],
         cleaning = Nobody, \A f \in Signers : signing[f] = Nobody,
         \A w \in Viewers : w # v => viewing[w] = Nobody
  PROVE  /\ SignInv' /\ CleanInv'
         /\ \A w \in Viewers : w # v => viewing[w].op = "idle" /\ viewing'[w].op = "idle"
BY DEF SignInv, CleanInv, Nobody

\* Steps that touch no file and no row, while no file is moved.
LEMMA FilesKeep ==
  ASSUME FileInv, \A w \in Viewers : viewing[w].op # "point",
         UNCHANGED <<disk, asset, expired, staging, named, receipt, detail, cut>>
  PROVE  StagedInv' /\ NamedInv' /\ DetailInv' /\ KeptInv' /\ ReceiptInv'
BY DEF FileInv, StagedInv, NamedInv, DetailInv, KeptInv, NoNameLost, ReceiptInv, Shows, Moved

LEMMA PreviewLoadKeeps ==
  ASSUME Orderly, TypeOK, FileInv, NEW v \in Viewers, Opening(v)
  PROVE  FileInv'
<1> PICK d \in Details, redraw \in BOOLEAN : PreviewLoad(v, d, redraw)
  BY DEF Opening
<1>1. Idle
  BY FreeIsIdle DEF PreviewLoad
<1>2. viewing'[v] = [op |-> "pick", detail |-> d, old |-> detail[d].image, redraw |-> redraw]
      /\ \A w \in Viewers : w # v => viewing'[w] = viewing[w]
  BY DEF PreviewLoad, View, TypeOK
<1>3. UNCHANGED <<disk, asset, expired, staging, named, receipt, detail, signing, cleaning, cut>>
  BY DEF PreviewLoad, rows
<1>4. SignInv' /\ CleanInv' /\ \A w \in Viewers : w # v => viewing'[w].op = "idle"
  BY <1>1, <1>2, <1>3, PreviewAlone DEF Idle
<1>5. \A w \in Viewers : viewing[w].op # "point"
  BY <1>1 DEF Idle, Nobody
<1>6. StagedInv' /\ NamedInv' /\ DetailInv' /\ KeptInv' /\ ReceiptInv'
  BY <1>3, <1>5, FilesKeep
<1>7. ViewInv'
  BY <1>2, <1>3, <1>4 DEF ViewInv
<1> QED BY <1>4, <1>6, <1>7 DEF FileInv

LEMMA PreviewPickKeeps ==
  ASSUME TypeOK, SoloInv, FileInv, NEW v \in Viewers, PreviewPick(v)
  PROVE  FileInv'
<1> DEFINE task == viewing[v]
           d == task.detail
<1>1. task.op = "pick"
  BY DEF PreviewPick, PickTarget, KeepName
<1>2. \A w \in Viewers : w # v => viewing'[w] = viewing[w]
  BY OthersView DEF ViewStep
<1>3. UNCHANGED <<disk, asset, expired, staging, named, receipt, detail, signing, cleaning, cut>>
  BY DEF PreviewPick, rows
<1>4. task # Nobody
  BY <1>1 DEF Nobody
<1>5. SignInv' /\ CleanInv' /\ \A w \in Viewers : w # v => viewing[w].op = "idle" /\ viewing'[w].op = "idle"
  BY <1>2, <1>3, <1>4, ViewerAlone, PreviewAlone
<1>6. StagedInv' /\ NamedInv' /\ DetailInv' /\ KeptInv' /\ ReceiptInv'
  BY <1>1, <1>3, <1>5, FilesKeep
<1>7. task.old = detail[d].image
  BY <1>1 DEF FileInv, ViewInv
<1>8. \/ viewing'[v].op \in {"register", "idle"}
      \/ /\ viewing'[v].op = "move" /\ viewing'[v].detail = d
         /\ viewing'[v].old \in {NoImage, task.old}
         /\ \/ viewing'[v].target \notin DOMAIN disk
            \/ viewing'[v].old = NoImage /\ viewing'[v].target = task.old
  <2>1. CASE KeepName(v)
    BY <2>1 DEF KeepName, Task, View, TypeOK, Nobody
  <2>2. CASE PickTarget(v)
    <3>1. CASE task.redraw /\ task.old \in Names
      BY <2>2, <3>1 DEF PickTarget, Task, View, TypeOK
    <3>2. CASE ~(task.redraw /\ task.old \in Names)
      <4>1. FreeName \notin DOMAIN disk
        BY <2>2, <3>2, FreeNameIsFree DEF PickTarget
      <4> HIDE DEF FreeName
      <4> QED BY <2>2, <3>2, <4>1 DEF PickTarget, Task, View, TypeOK
    <3> QED BY <3>1, <3>2
  <2> QED BY <2>1, <2>2 DEF PreviewPick
<1>9. ViewInv'
  <2> HIDE DEF task, d
  <2>1. ASSUME NEW w \in Viewers, w # v PROVE viewing'[w].op = "idle"
    BY <1>5, <2>1
  <2> QED BY <1>3, <1>7, <1>8, <2>1 DEF ViewInv
<1> QED BY <1>5, <1>6, <1>9 DEF FileInv

\* A free name, or the name of the preview that is drawn over, belongs to no other detail.
LEMMA TargetIsOwn ==
  ASSUME TypeOK, FileInv, NoNameLost, NEW v \in Viewers, viewing[v].op = "move",
         \A w \in Viewers : viewing[w].op # "point"
  PROVE  \A e \in Details : e # viewing[v].detail => detail[e].image # viewing[v].target
<1> SUFFICES ASSUME NEW e \in Details, e # viewing[v].detail, detail[e].image = viewing[v].target
             PROVE  FALSE
  OBVIOUS
<1>1. viewing[v].target \in Names /\ viewing[v].detail \in Details
  BY ViewTypes
<1>2. detail[e].given # NoImage /\ ~Moved(e) /\ detail[e].image \notin cut
  BY <1>1 DEF FileInv, DetailInv, Moved, NoNameLost
<1>3. Shows(detail[e])
  BY <1>2 DEF FileInv, KeptInv
<1>4. viewing[v].target = detail[viewing[v].detail].image
  BY <1>3 DEF FileInv, ViewInv, Shows
<1>5. detail[e].image # NoImage
  BY <1>1, PathsAssumption
<1> QED BY <1>1, <1>4, <1>5 DEF FileInv, KeptInv

\* Steps that rename or draw a file and leave the uploads nobody named, and what receipts show.
LEMMA MovingKeeps ==
  ASSUME TypeOK, FileInv, UNCHANGED <<asset, expired, staging, named, receipt, cut>>,
         \A u \in Uploads : u \in DOMAIN disk' => u \in DOMAIN disk,
         \A u \in Uploads \ named : FileKept(u),
         \A r \in Receipts : receipt[r].given # NoImage => FileKept(receipt[r].image),
         \A d \in Details : detail'[d].image = detail[d].image
  PROVE  StagedInv' /\ NamedInv' /\ ReceiptInv'
<1>1. StagedInv'
  <2>1. \A u \in staging : u \notin named
    BY DEF FileInv, StagedInv, NamedInv
  <2> QED BY <2>1 DEF FileInv, StagedInv, FileKept, TypeOK
<1>2. NamedInv'
  BY DEF FileInv, NamedInv
<1>3. ReceiptInv'
  BY DEF FileInv, ReceiptInv, FileKept, Shows
<1> QED BY <1>1, <1>2, <1>3

LEMMA PreviewMoveKeeps ==
  ASSUME TypeOK, SoloInv, FileInv, NEW v \in Viewers, PreviewMove(v)
  PROVE  FileInv'
<1> DEFINE task == viewing[v]
           d == task.detail
<1>1. task.op = "move" /\ task.target \in Names /\ d \in Details
  BY ViewTypes DEF PreviewMove
<1>2. \A w \in Viewers : w # v => viewing'[w] = viewing[w]
  BY OthersView DEF ViewStep
<1>3. UNCHANGED <<asset, expired, staging, named, receipt, signing, cleaning, cut>>
  BY DEF PreviewMove
<1>4. task # Nobody
  BY <1>1 DEF Nobody
<1>5. SignInv' /\ CleanInv' /\ \A w \in Viewers : w # v => viewing[w].op = "idle" /\ viewing'[w].op = "idle"
  BY <1>2, <1>3, <1>4, ViewerAlone, PreviewAlone
<1>6. \A w \in Viewers : viewing[w].op # "point"
  BY <1>1, <1>5
<1>7. NoNameLost => \A e \in Details : e # d => detail[e].image # task.target
  BY <1>1, <1>6, TargetIsOwn
<1>8. task.target \notin Uploads \cup {NoImage} /\ \A r \in Receipts : Signed(r) # task.target
  BY <1>1, PathsAssumption, SignedApart
<1>9. /\ task.old \in {NoImage, detail[d].image}
      /\ task.target \notin DOMAIN disk \/ (task.old = NoImage /\ task.target = detail[d].image)
  BY <1>1 DEF FileInv, ViewInv
<1>10. CASE Draw(v)
  <2>1. task.old = NoImage /\ disk' = Written(task.target, d)
    BY <1>10 DEF Draw
  <2>2. \A p : p # task.target => FileKept(p)
    BY <2>1 DEF Written, FileKept
  <2>3. /\ \A e \in Details : e # d => detail'[e] = detail[e]
        /\ detail'[d].image = detail[d].image
        /\ detail'[d].given = IF detail[d].image = task.target THEN d ELSE detail[d].given
    BY <1>1, <1>10, DrawnDetail
  <2>4. task.target \in DOMAIN disk' /\ disk'[task.target] = d
    BY <2>1 DEF Written
  <2>5. viewing'[v].op = "point" /\ viewing'[v].detail = d /\ viewing'[v].old = NoImage
        /\ viewing'[v].target = task.target
    BY <1>1, <1>10, <2>1, ViewingRest DEF Draw, View, TypeOK
  <2> HIDE DEF task, d
  <2>6. StagedInv' /\ NamedInv' /\ ReceiptInv'
    <3>1. \A u \in Uploads : FileKept(u)
      BY <1>8, <2>2
    <3>2. \A r \in Receipts : receipt[r].given # NoImage => FileKept(receipt[r].image)
      BY <1>8, <2>2 DEF FileInv, ReceiptInv
    <3>3. \A e \in Details : detail'[e].image = detail[e].image
      BY <2>3
    <3>4. \A u \in Uploads : u \in DOMAIN disk' => u \in DOMAIN disk
      BY <3>1 DEF FileKept
    <3> QED BY <1>3, <3>1, <3>2, <3>3, <3>4, MovingKeeps
  <2>7. d # NoImage
    BY <1>1, RowsAssumption
  <2>8. DetailInv'
    BY <1>1, <1>3, <1>8, <2>3, <2>7 DEF FileInv, DetailInv
  <2>9. KeptInv'
    <3> SUFFICES ASSUME NoNameLost', NEW e \in Details
                 PROVE  /\ \A c \in Details : c # e /\ detail'[e].image # NoImage
                                                => detail'[c].image # detail'[e].image
                        /\ \/ detail'[e].given = NoImage \/ Shows(detail[e])' \/ Moved(e)'
                           \/ detail'[e].image \in cut'
      BY DEF KeptInv
    <3>1. NoNameLost
      BY <1>3 DEF NoNameLost
    <3>2. \A c \in Details : c # e /\ detail'[e].image # NoImage => detail'[c].image # detail'[e].image
      BY <2>3, <3>1 DEF FileInv, KeptInv
    <3>3. detail[e].given = NoImage \/ Shows(detail[e]) \/ detail[e].image \in cut
      BY <1>6, <3>1 DEF FileInv, KeptInv, Moved
    <3>4. CASE e = d /\ detail[d].image = task.target
      BY <2>3, <2>4, <3>2, <3>4 DEF Shows
    <3>5. CASE ~(e = d /\ detail[d].image = task.target)
      <4>1. detail[e].image # task.target /\ detail'[e].image = detail[e].image
            /\ detail'[e].given = detail[e].given
        BY <1>7, <2>3, <3>1, <3>5
      <4>2. FileKept(detail[e].image)
        BY <2>2, <4>1
      <4> QED BY <1>3, <3>2, <3>3, <4>1, <4>2 DEF Shows, FileKept
    <3> QED BY <3>4, <3>5
  <2>10. ViewInv'
    <3>1. NoNameLost' => \A e \in Details : e # d => detail'[e].image # task.target
      BY <1>3, <1>7, <2>3 DEF NoNameLost
    <3>2. ASSUME NEW w \in Viewers, w # v PROVE viewing'[w].op = "idle"
      BY <1>5, <3>2
    <3> QED BY <1>8, <2>4, <2>5, <3>1, <3>2, NoImageAssumption DEF ViewInv
  <2> QED BY <1>5, <2>6, <2>8, <2>9, <2>10 DEF FileInv
<1>11. CASE Rename(v)
  <2>1. /\ task.old \in DOMAIN disk \ {NoImage} /\ UNCHANGED detail
        /\ disk' = [p \in (DOMAIN disk \ {task.old}) \cup {task.target} |->
                      IF p = task.target THEN disk[task.old] ELSE disk[p]]
    BY <1>11 DEF Rename
  <2>2. task.old = detail[d].image /\ task.target \notin DOMAIN disk
    BY <1>9, <2>1
  <2>3. \A p : p \notin {task.target, task.old} => FileKept(p)
    BY <2>1 DEF FileKept
  <2>4. task.target \in DOMAIN disk' /\ disk'[task.target] = disk[task.old] /\ task.old \notin DOMAIN disk'
    BY <2>1, <2>2
  <2>5. viewing'[v].op = "point" /\ viewing'[v].detail = d /\ viewing'[v].old = task.old
        /\ viewing'[v].target = task.target
    BY <1>1, <1>11, ViewingRest DEF Rename, View, TypeOK
  <2> HIDE DEF task, d
  <2>6. task.old \in Uploads \cup Names /\ (task.old \in Uploads => task.old \in named)
    BY <1>1, <2>1, <2>2 DEF FileInv, DetailInv
  <2>7. StagedInv' /\ NamedInv' /\ ReceiptInv'
    <3>1. \A u \in Uploads \ named : FileKept(u)
      BY <1>8, <2>3, <2>6
    <3>2. \A r \in Receipts : receipt[r].given # NoImage => receipt[r].image # task.old
      <4>1. \A r \in Receipts : Signed(r) # task.old
        BY <2>6, SignedApart
      <4> QED BY <1>1, <2>2, <4>1 DEF FileInv, ReceiptInv
    <3>3. \A r \in Receipts : receipt[r].given # NoImage => FileKept(receipt[r].image)
      BY <1>8, <2>3, <3>2 DEF FileInv, ReceiptInv
    <3>4. \A u \in Uploads : u \in DOMAIN disk' => u \in DOMAIN disk
      BY <1>8, <2>1
    <3> QED BY <1>3, <2>1, <3>1, <3>3, <3>4, MovingKeeps
  <2>8. DetailInv'
    BY <1>3, <2>1 DEF FileInv, DetailInv
  <2>9. KeptInv'
    <3> SUFFICES ASSUME NoNameLost', NEW e \in Details
                 PROVE  /\ \A c \in Details : c # e /\ detail[e].image # NoImage
                                                => detail[c].image # detail[e].image
                        /\ \/ detail[e].given = NoImage \/ Shows(detail[e])' \/ Moved(e)'
                           \/ detail[e].image \in cut'
      BY <2>1 DEF KeptInv
    <3>1. NoNameLost
      BY <1>3 DEF NoNameLost
    <3>2. \A c \in Details : c # e /\ detail[e].image # NoImage => detail[c].image # detail[e].image
      BY <3>1 DEF FileInv, KeptInv
    <3>3. detail[e].given = NoImage \/ Shows(detail[e]) \/ detail[e].image \in cut
      BY <1>6, <3>1 DEF FileInv, KeptInv, Moved
    <3>4. CASE e = d
      <4>1. Moved(e)'
        BY <2>1, <2>5, <3>4 DEF Moved
      <4> QED BY <3>2, <4>1
    <3>5. CASE e # d
      <4>1. detail[e].image \notin {task.target, task.old}
        BY <1>1, <1>7, <2>1, <2>2, <3>1, <3>5 DEF FileInv, KeptInv
      <4>2. FileKept(detail[e].image)
        BY <2>3, <4>1
      <4> QED BY <1>3, <2>1, <3>2, <3>3, <4>2 DEF Shows, FileKept
    <3> QED BY <3>4, <3>5
  <2>10. NoNameLost => detail[d].given \in {NoImage, disk[task.old]}
    <3>1. NoNameLost => detail[d].given = NoImage \/ Shows(detail[d]) \/ detail[d].image \in cut
      BY <1>1, <1>6 DEF FileInv, KeptInv, Moved
    <3>2. NoNameLost => task.old \notin cut
      BY <2>1, <2>6 DEF FileInv, NamedInv, NoNameLost
    <3> QED BY <2>2, <3>1, <3>2 DEF Shows
  <2>11. ViewInv'
    <3>1. NoNameLost' => /\ \A e \in Details : e # d => detail'[e].image # task.target
                         /\ detail'[d].given \in {NoImage, disk'[task.target]}
      BY <1>3, <1>7, <2>1, <2>4, <2>10 DEF NoNameLost
    <3>2. ASSUME NEW w \in Viewers, w # v PROVE viewing'[w].op = "idle"
      BY <1>5, <3>2
    <3> QED BY <2>1, <2>2, <2>4, <2>5, <3>1, <3>2 DEF ViewInv
  <2> QED BY <1>5, <2>7, <2>8, <2>9, <2>11 DEF FileInv
<1>12. CASE RenameFails(v)
  <2>1. UNCHANGED <<disk, detail>> /\ viewing'[v].op = "idle"
    BY <1>12 DEF RenameFails, View, TypeOK, Nobody
  <2>2. StagedInv' /\ NamedInv' /\ DetailInv' /\ KeptInv' /\ ReceiptInv'
    BY <1>3, <1>6, <2>1, FilesKeep
  <2>3. ViewInv'
    BY <1>5, <2>1 DEF ViewInv
  <2> QED BY <1>5, <2>2, <2>3 DEF FileInv
<1> QED BY <1>10, <1>11, <1>12 DEF PreviewMove

LEMMA PreviewPointKeeps ==
  ASSUME TypeOK, ContentOK, SoloInv, FileInv, NEW v \in Viewers, PreviewPoint(v)
  PROVE  FileInv'
<1> DEFINE task == viewing[v]
           d == task.detail
<1>1. task.op = "point" /\ task.target \in Names /\ d \in Details
  BY ViewTypes DEF PreviewPoint
<1>2. viewing'[v].op = "register" /\ \A w \in Viewers : w # v => viewing'[w] = viewing[w]
  BY <1>1, ViewingRest DEF PreviewPoint, View, TypeOK
<1>3. UNCHANGED <<disk, asset, expired, staging, named, receipt, signing, cleaning, cut>>
  BY DEF PreviewPoint
<1>4. task # Nobody
  BY <1>1 DEF Nobody
<1>5. SignInv' /\ CleanInv' /\ \A w \in Viewers : w # v => viewing[w].op = "idle" /\ viewing'[w].op = "idle"
  BY <1>2, <1>3, <1>4, ViewerAlone, PreviewAlone
<1>6. /\ task.target \in DOMAIN disk
      /\ task.old = NoImage => disk[task.target] = d
      /\ NoNameLost => /\ \A e \in Details : e # d => detail[e].image # task.target
                       /\ task.old # NoImage => detail[d].given \in {NoImage, disk[task.target]}
  BY <1>1 DEF FileInv, ViewInv
<1>7. /\ detail'[d].image = task.target /\ detail'[d].given = GivenBy(task)
      /\ \A e \in Details : e # d => detail'[e] = detail[e]
  BY PointedDetail
<1>8. GivenBy(task) # NoImage
  <2>1. d # NoImage /\ disk[task.target] # NoImage
    BY <1>1, <1>6, RowsAssumption DEF ContentOK
  <2> QED BY <1>6, <2>1 DEF GivenBy
<1>9. NoNameLost => GivenBy(task) = disk[task.target]
  BY <1>6 DEF GivenBy
<1> HIDE DEF task, d
<1>10. StagedInv' /\ NamedInv'
  BY <1>3 DEF FileInv, StagedInv, NamedInv
<1>11. task.target \notin Uploads \cup {NoImage}
  BY <1>1, PathsAssumption
<1>12. ReceiptInv'
  <2>1. \A e \in Details : detail'[e].image = detail[e].image \/ detail'[e].image \notin Uploads
    BY <1>7, <1>11
  <2> QED BY <1>3, <2>1 DEF FileInv, ReceiptInv, Shows
<1>13. DetailInv'
  BY <1>1, <1>3, <1>7, <1>8, <1>11 DEF FileInv, DetailInv
<1>14. KeptInv'
  <2> SUFFICES ASSUME NoNameLost', NEW e \in Details
               PROVE  /\ \A c \in Details : c # e /\ detail'[e].image # NoImage
                                              => detail'[c].image # detail'[e].image
                      /\ \/ detail'[e].given = NoImage \/ Shows(detail[e])' \/ Moved(e)'
                         \/ detail'[e].image \in cut'
    BY DEF KeptInv
  <2>1. NoNameLost
    BY <1>3 DEF NoNameLost
  <2>2. \A c \in Details : c # e /\ detail'[e].image # NoImage => detail'[c].image # detail'[e].image
    BY <1>6, <1>7, <2>1 DEF FileInv, KeptInv
  <2>3. CASE e = d
    BY <1>3, <1>6, <1>7, <1>9, <2>1, <2>2, <2>3 DEF Shows
  <2>4. CASE e # d
    <3>1. ~Moved(e)
      BY <1>5, <2>4 DEF Moved, task, d
    <3> QED BY <1>3, <1>7, <2>1, <2>2, <2>4, <3>1 DEF FileInv, KeptInv, Shows
  <2> QED BY <2>3, <2>4
<1>15. ViewInv'
  BY <1>2, <1>5 DEF ViewInv
<1> QED BY <1>5, <1>10, <1>12, <1>13, <1>14, <1>15 DEF FileInv

LEMMA PreviewRegisterKeeps ==
  ASSUME TypeOK, SoloInv, FileInv, NEW v \in Viewers, PreviewRegister(v)
  PROVE  FileInv'
<1> DEFINE task == viewing[v]
<1>1. task.op = "register" /\ \E i \in PreviewRows : asset[i] = NoAsset
  BY DEF PreviewRegister
<1>2. viewing'[v].op = "idle" /\ \A w \in Viewers : w # v => viewing'[w] = viewing[w]
  BY DEF PreviewRegister, View, TypeOK, Nobody
<1>3. UNCHANGED <<disk, staging, named, receipt, detail, signing, cleaning, cut>>
  BY DEF PreviewRegister, rows
<1>4. task # Nobody
  BY <1>1 DEF Nobody
<1>5. SignInv' /\ CleanInv' /\ \A w \in Viewers : w # v => viewing[w].op = "idle" /\ viewing'[w].op = "idle"
  BY <1>2, <1>3, <1>4, ViewerAlone, PreviewAlone
<1>6. \A e \in Details : ~Moved(e)
  BY <1>1, <1>5 DEF Moved
<1> DEFINE Mine == [status |-> "ATTACHED", path |-> task.target]
           Adopts(S) == /\ \A i \in Keys : asset'[i] = IF i \in S THEN Mine ELSE asset[i]
                        /\ expired' = expired \ S
                        /\ \A i \in Uploads \cap S : asset[i] # NoAsset
<1>7. \E S : Adopts(S)
  <2> DEFINE taken == RowsAt(task.target)
             moved == IF task.old = task.target THEN {} ELSE RowsAt(task.old)
             adopted == IF moved # {} THEN moved ELSE IF taken # {} THEN taken ELSE {NewRow}
  <2>1. NewRow \in PreviewRows
    BY <1>1 DEF NewRow
  <2>2. \A i \in Uploads \cap adopted : asset[i] # NoAsset
    BY <2>1, RowsAssumption DEF RowsAt
  <2>3. CASE moved # {} /\ taken # {}
    <3>1. asset' = asset /\ expired' = expired
      BY <2>3 DEF PreviewRegister
    <3>2. Adopts({})
      BY <3>1
    <3> QED BY <3>2
  <2>4. CASE ~(moved # {} /\ taken # {})
    <3>1. asset' = [i \in DOMAIN asset |-> IF i \in adopted THEN Mine ELSE asset[i]]
          /\ expired' = expired \ adopted
      BY <2>4 DEF PreviewRegister
    <3> HIDE DEF adopted, Mine
    <3>2. Adopts(adopted)
      BY <2>2, <3>1 DEF TypeOK
    <3> QED BY <3>2
  <2> QED BY <2>3, <2>4
<1>8. PICK adopted : Adopts(adopted)
  BY <1>7
<1> HIDE DEF task
<1>9. StagedInv'
  BY <1>3, <1>8 DEF FileInv, StagedInv, Keys, TypeOK
<1>10. \A i \in Keys : /\ asset[i].status = "ATTACHED" => asset'[i].status = "ATTACHED"
                       /\ asset[i] # NoAsset => asset'[i] # NoAsset
  BY <1>8 DEF NoAsset
<1>11. NamedInv'
  BY <1>3, <1>10 DEF FileInv, NamedInv, Keys, TypeOK
<1>12. ReceiptInv'
  BY <1>3, <1>10 DEF FileInv, ReceiptInv, Shows, Keys
<1>13. DetailInv'
  BY <1>3, <1>10 DEF FileInv, DetailInv, Keys
<1>14. KeptInv'
  BY <1>3, <1>6 DEF FileInv, KeptInv, NoNameLost, Shows
<1>15. ViewInv'
  BY <1>2, <1>5 DEF ViewInv
<1> QED BY <1>5, <1>9, <1>11, <1>12, <1>13, <1>14, <1>15 DEF FileInv

\* What a preview that fails leaves behind: a file that has lost the name its detail shows.
LEMMA PreviewFailsKeeps ==
  ASSUME TypeOK, SoloInv, FileInv, NEW v \in Viewers, PreviewFails(v)
  PROVE  FileInv'
<1> DEFINE task == viewing[v]
           d == task.detail
<1>1. task # Nobody
  BY DEF PreviewFails
<1>2. viewing'[v].op = "idle" /\ \A w \in Viewers : w # v => viewing'[w] = viewing[w]
  BY DEF PreviewFails, View, TypeOK, Nobody
<1>3. UNCHANGED <<disk, asset, expired, staging, named, receipt, detail, signing, cleaning>>
  BY DEF PreviewFails, rows
<1>4. SignInv' /\ CleanInv' /\ \A w \in Viewers : w # v => viewing[w].op = "idle" /\ viewing'[w].op = "idle"
  BY <1>1, <1>2, <1>3, ViewerAlone, PreviewAlone
<1>5. StagedInv' /\ DetailInv' /\ ReceiptInv'
  BY <1>3 DEF FileInv, StagedInv, DetailInv, ReceiptInv, Shows
<1>6. ViewInv'
  BY <1>2, <1>4 DEF ViewInv
<1>7. CASE task.op = "point" /\ task.old # NoImage
  <2>1. cut' = cut \cup {task.old}
    BY <1>7 DEF PreviewFails
  <2>2. d \in Details /\ task.old = detail[d].image /\ (task.old \in Uploads => task.old \notin DOMAIN disk)
    BY <1>7, ViewTypes DEF FileInv, ViewInv
  <2>3. NamedInv'
    BY <1>3, <2>1, <2>2 DEF FileInv, NamedInv, DetailInv
  <2>4. \A e \in Details : e # d => ~Moved(e)
    BY <1>4 DEF Moved
  <2>5. KeptInv'
    BY <1>3, <2>1, <2>2, <2>4 DEF FileInv, KeptInv, NoNameLost, Shows
  <2> QED BY <1>4, <1>5, <1>6, <2>3, <2>5 DEF FileInv
<1>8. CASE ~(task.op = "point" /\ task.old # NoImage)
  <2>1. cut' = cut
    BY <1>8 DEF PreviewFails
  <2>2. \A e \in Details : ~Moved(e)
    BY <1>4, <1>8 DEF Moved
  <2>3. NamedInv' /\ KeptInv'
    BY <1>3, <2>1, <2>2 DEF FileInv, NamedInv, KeptInv, NoNameLost, Shows
  <2> QED BY <1>4, <1>5, <1>6, <2>3 DEF FileInv
<1> QED BY <1>7, <1>8

LEMMA PreviewingKeeps ==
  ASSUME Orderly, TypeOK, ContentOK, SoloInv, FileInv, Previewing
  PROVE  FileInv'
<1> PICK v \in Viewers : ViewStep(v) \/ PreviewFails(v) \/ Opening(v)
  BY DEF Previewing
<1> QED BY PreviewLoadKeeps, PreviewPickKeeps, PreviewMoveKeeps, PreviewPointKeeps, PreviewRegisterKeeps,
           PreviewFailsKeeps DEF ViewStep

-----------------------------------------------------------------------------
(* The signing of a receipt.                                               *)

\* What holds of a signature that is alone.
LEMMA SignatureAlone ==
  ASSUME NEW f \in Signers, UNCHANGED <<viewing, cleaning>>,
         \A g \in Signers : g # f => signing'[g] = signing[g],
         cleaning = Nobody, \A v \in Viewers : viewing[v] = Nobody,
         \A g \in Signers : g # f => signing[g] = Nobody
  PROVE  /\ ViewInv' /\ CleanInv'
         /\ \A g \in Signers : g # f => signing'[g] = Nobody
         /\ \A v \in Viewers : viewing[v].op # "point"
BY DEF ViewInv, CleanInv, Nobody

\* Steps that touch the file of a signature.
LEMMA SignatureKeeps ==
  ASSUME TypeOK, FileInv, NEW r \in Receipts, \A p : p # Signed(r) => FileKept(p),
         UNCHANGED <<expired, staging, named, detail, viewing, cut>>,
         \A v \in Viewers : viewing[v].op # "point",
         \A i \in Keys : i # r => asset'[i] = asset[i],
         asset'[r] = asset[r] \/ asset'[r].status = "ATTACHED",
         \A q \in Receipts : q # r => receipt'[q] = receipt[q],
         \/ receipt'[r] = receipt[r] /\ receipt[r].image = NoImage
         \/ /\ receipt'[r].status = "Open" /\ receipt'[r].image = Signed(r)
            /\ Shows(receipt[r])'
  PROVE  StagedInv' /\ NamedInv' /\ DetailInv' /\ KeptInv' /\ ReceiptInv'
<1>1. Signed(r) \notin Names \cup Uploads \cup {NoImage} /\ r \notin Uploads
  BY SignedApart, RowsAssumption
<1>2. \A i \in Keys : /\ asset[i].status = "ATTACHED" => asset'[i].status = "ATTACHED"
                      /\ asset[i] # NoAsset => asset'[i] # NoAsset
  BY DEF Keys, NoAsset
<1>3. StagedInv'
  BY <1>1 DEF FileInv, StagedInv, FileKept, Keys, TypeOK
<1>4. NamedInv'
  BY <1>1, <1>2 DEF FileInv, NamedInv, FileKept, Keys, TypeOK
<1>5. \A d \in Details : detail[d].image # Signed(r)
  BY <1>1 DEF FileInv, DetailInv
<1>6. DetailInv'
  BY <1>2 DEF FileInv, DetailInv, Keys
<1>7. KeptInv'
  BY <1>5 DEF FileInv, KeptInv, NoNameLost, FileKept, Shows, Moved
<1>8. ReceiptInv'
  <2>1. ASSUME NEW q \in Receipts, q # r, receipt[q].given # NoImage PROVE receipt[q].image # Signed(r)
    BY <1>1, <2>1 DEF FileInv, ReceiptInv, Signed
  <2>3. ASSUME NEW q \in Receipts, q # r
        PROVE  /\ receipt'[q].status \in {"None", "SIGNING_PENDING"} => receipt'[q].image = NoImage
               /\ receipt'[q].image = NoImage => receipt'[q].given = NoImage
               /\ receipt'[q].given # NoImage =>
                    /\ receipt'[q].image \in Uploads \cup {Signed(q)}
                    /\ receipt'[q].image \in Uploads =>
                         /\ receipt'[q].image \in named' /\ asset'[receipt'[q].image].status = "ATTACHED"
                         /\ \A d \in Details : detail'[d].image # receipt'[q].image
                    /\ Shows(receipt[q])'
    BY <1>2, <2>1, <2>3 DEF FileInv, ReceiptInv, FileKept, Shows, Keys
  <2>4. /\ receipt'[r].status \in {"None", "SIGNING_PENDING"} => receipt'[r].image = NoImage
        /\ receipt'[r].image = NoImage => receipt'[r].given = NoImage
        /\ receipt'[r].given # NoImage =>
             /\ receipt'[r].image \in Uploads \cup {Signed(r)}
             /\ receipt'[r].image \in Uploads =>
                  /\ receipt'[r].image \in named' /\ asset'[receipt'[r].image].status = "ATTACHED"
                  /\ \A d \in Details : detail'[d].image # receipt'[r].image
             /\ Shows(receipt[r])'
    BY <1>1 DEF FileInv, ReceiptInv
  <2> QED BY <2>3, <2>4 DEF ReceiptInv
<1> QED BY <1>3, <1>4, <1>6, <1>7, <1>8

LEMMA FinaliseKeeps ==
  ASSUME Orderly, TypeOK, SoloInv, FileInv, NEW f \in Signers, FinaliseStep(f)
  PROVE  FileInv'
<1>1. \A g \in Signers : g # f => signing'[g] = signing[g]
  BY DEF FinaliseStep, FinaliseWrite, FinaliseCommit, FinaliseFails, FinaliseLoad, Sign, TypeOK
<1>2. UNCHANGED <<viewing, cleaning, expired, staging, named, detail, cut>>
  BY DEF FinaliseStep, FinaliseWrite, FinaliseCommit, FinaliseFails, FinaliseLoad, rows
<1>3. CASE \E r \in Receipts : FinaliseLoad(f, r)
  <2> PICK r \in Receipts : FinaliseLoad(f, r)
    BY <1>3
  <2>1. Idle
    BY FreeIsIdle DEF FinaliseLoad
  <2>2. UNCHANGED <<disk, asset, receipt>> /\ signing'[f] = [op |-> "write", receipt |-> r]
        /\ receipt[r].status = "SIGNING_PENDING"
    BY DEF FinaliseLoad, rows, Sign, TypeOK
  <2>3. ViewInv' /\ CleanInv' /\ \A g \in Signers : g # f => signing'[g] = Nobody
    BY <1>1, <1>2, <2>1, SignatureAlone DEF Idle
  <2>4. SignInv'
    BY <2>2, <2>3 DEF SignInv
  <2>5. StagedInv' /\ NamedInv' /\ DetailInv' /\ KeptInv' /\ ReceiptInv'
    BY <1>2, <2>1, <2>2, FilesKeep DEF Idle, Nobody
  <2> QED BY <2>3, <2>4, <2>5 DEF FileInv
<1>4. CASE ~\E r \in Receipts : FinaliseLoad(f, r)
  <2>1. signing[f].op \in {"write", "commit"}
    BY <1>4 DEF FinaliseStep, FinaliseWrite, FinaliseCommit, FinaliseFails
  <2>2. ViewInv' /\ CleanInv' /\ (\A g \in Signers : g # f => signing'[g] = Nobody)
        /\ \A v \in Viewers : viewing[v].op # "point"
    BY <1>1, <1>2, <2>1, SignerAlone, SignatureAlone
  <2>3. PICK r \in Receipts : r = signing[f].receipt
    BY <2>1, SigningTask, SigningOp
  <2>4. receipt[r].status = "SIGNING_PENDING" /\ receipt[r].image = NoImage
    BY <2>1, <2>3, SigningOp DEF FileInv, SignInv, ReceiptInv
  <2>5. r \in Keys
    BY DEF Keys
  <2>6. CASE FinaliseWrite(f)
    <3>1. \A p : p # Signed(r) => FileKept(p)
      BY <2>3, <2>6 DEF FinaliseWrite, Written, FileKept
    <3>2. UNCHANGED <<asset, receipt>>
      BY <2>6 DEF FinaliseWrite, rows
    <3>3. StagedInv' /\ NamedInv' /\ DetailInv' /\ KeptInv' /\ ReceiptInv'
      BY <1>2, <2>2, <2>4, <3>1, <3>2, SignatureKeeps
    <3>4. signing'[f].receipt = r
      BY <2>1, <2>3, <2>6, SigningTask, SigningOp DEF FinaliseWrite, Sign, TypeOK
    <3>5. Signed(r) \in DOMAIN disk' /\ disk'[Signed(r)] = f
      BY <2>3, <2>6 DEF FinaliseWrite, Written
    <3>6. SignInv'
      BY <2>2, <2>4, <3>2, <3>4, <3>5 DEF SignInv
    <3> QED BY <2>2, <3>3, <3>6 DEF FileInv
  <2>7. CASE FinaliseCommit(f)
    <3>1. signing[f].op = "commit" /\ UNCHANGED disk /\ signing'[f] = Nobody
      BY <2>7 DEF FinaliseCommit, Sign, TypeOK
    <3>2. receipt'[r] = [status |-> "Open", image |-> Signed(r), given |-> f]
          /\ \A q \in Receipts : q # r => receipt'[q] = receipt[q]
      BY <2>3, <2>7 DEF FinaliseCommit, TypeOK
    <3>3. asset'[r].status = "ATTACHED" /\ \A i \in Keys : i # r => asset'[i] = asset[i]
      BY <2>3, <2>5, <2>7 DEF FinaliseCommit, TypeOK
    <3>4. Signed(r) \in DOMAIN disk /\ disk[Signed(r)] = f
      BY <2>3, <3>1, SigningOp DEF FileInv, SignInv
    <3>5. Shows(receipt[r])'
      BY <3>1, <3>2, <3>4 DEF Shows
    <3>6. \A p : FileKept(p)
      BY <3>1 DEF FileKept
    <3>7. receipt'[r].status = "Open" /\ receipt'[r].image = Signed(r)
      BY <3>2
    <3>8. StagedInv' /\ NamedInv' /\ DetailInv' /\ KeptInv' /\ ReceiptInv'
      BY <1>2, <2>2, <3>2, <3>3, <3>5, <3>6, <3>7, SignatureKeeps
    <3>9. SignInv'
      BY <2>2, <3>1 DEF SignInv
    <3> QED BY <2>2, <3>8, <3>9 DEF FileInv
  <2>8. CASE FinaliseFails(f)
    <3>1. \A p : p # Signed(r) => FileKept(p)
      BY <2>3, <2>8 DEF FinaliseFails, DropFile, Removed, FileKept
    <3>2. UNCHANGED <<asset, receipt>> /\ signing'[f] = Nobody
      BY <2>8 DEF FinaliseFails, rows, Sign, TypeOK
    <3>3. StagedInv' /\ NamedInv' /\ DetailInv' /\ KeptInv' /\ ReceiptInv'
      BY <1>2, <2>2, <2>4, <3>1, <3>2, SignatureKeeps
    <3>4. SignInv'
      BY <2>2, <3>2 DEF SignInv
    <3> QED BY <2>2, <3>3, <3>4 DEF FileInv
  <2> QED BY <1>4, <2>6, <2>7, <2>8 DEF FinaliseStep
<1> QED BY <1>3, <1>4

-----------------------------------------------------------------------------
(* The maintenance.                                                        *)

LEMMA CleaningKeeps ==
  ASSUME Orderly, TypeOK, SoloInv, FileInv, CleanStep \/ CleanFails
  PROVE  FileInv'
<1>1. UNCHANGED <<staging, named, detail, signing, viewing, cut>>
  BY DEF CleanStep, CleanFails, CleanBegin, CleanRemove, CleanMark, StaleBegin, StaleCancel, CleanEnd, rows
<1>2. (\A f \in Signers : signing[f] = Nobody) /\ \A v \in Viewers : viewing[v] = Nobody
  <2>1. CASE CleanBegin
    BY <2>1, FreeIsIdle DEF CleanBegin, Idle
  <2>2. CASE ~CleanBegin
    <3>1. cleaning.op \in {"remove", "mark", "cancel"} \/ cleaning # Nobody
      BY <2>2 DEF CleanStep, CleanFails, CleanRemove, CleanMark, StaleBegin, StaleCancel, CleanEnd
    <3> QED BY <3>1, CleaningLists, CleanerAlone
  <2> QED BY <2>1, <2>2
<1>3. SignInv' /\ ViewInv'
  BY <1>1, <1>2 DEF SignInv, ViewInv, Nobody
<1>4. \A v \in Viewers : viewing[v].op # "point"
  BY <1>2 DEF Nobody
<1>5. ASSUME UNCHANGED <<disk, asset, expired>>,
             \A r \in Receipts : /\ receipt'[r].image = receipt[r].image
                                /\ receipt'[r].given = receipt[r].given
                                /\ receipt'[r].status \in {receipt[r].status, "Deleted"}
      PROVE  StagedInv' /\ NamedInv' /\ DetailInv' /\ KeptInv' /\ ReceiptInv'
  BY <1>1, <1>5 DEF FileInv, StagedInv, NamedInv, DetailInv, KeptInv, NoNameLost, ReceiptInv, Shows, Moved
<1>6. CASE CleanBegin
  <2>1. UNCHANGED <<disk, asset, expired, receipt>>
        /\ cleaning' = [op |-> "remove", list |-> ExpiredAssets]
    BY <1>6 DEF CleanBegin, rows
  <2>2. ASSUME NEW x \in ExpiredAssets PROVE x = Item(x.id) /\ x.id \in expired
    <3>1. PICK i \in expired : x = [id |-> i, path |-> asset[i].path]
      BY DEF ExpiredAssets
    <3>2. asset[i].path = i
      BY DEF FileInv, StagedInv, TypeOK, Keys
    <3> QED BY <3>1, <3>2 DEF Item
  <2>3. CleanInv'
    BY <2>1, <2>2 DEF CleanInv
  <2> QED BY <1>3, <1>5, <2>1, <2>3 DEF FileInv
<1>7. ASSUME cleaning.op = "remove", NEW x \in cleaning.list, CleanRemove(x) PROVE FileInv'
  <2>1. UNCHANGED <<asset, expired, receipt>> /\ disk' = Removed(x.path)
        /\ cleaning' = [op |-> "mark", list |-> cleaning.list, item |-> x]
    BY <1>7 DEF CleanRemove, rows
  <2>2. x \in Items /\ x = Item(x.id) /\ x.id \in expired /\ \A y \in cleaning.list : y = Item(y.id) /\ y.id \in expired
    BY <1>7, CleaningLists DEF FileInv, CleanInv
  <2>3. x.path = x.id /\ x.id \in Uploads /\ asset[x.id].status = "STAGED"
    BY <2>2 DEF Item, Items, FileInv, StagedInv
  <2>4. \A p : p # x.id => FileKept(p)
    BY <2>1, <2>3 DEF Removed, FileKept
  <2>5. NamedInv' /\ DetailInv' /\ KeptInv' /\ ReceiptInv'
    <3>1. asset[x.id].status # "ATTACHED" /\ \A i \in Keys : asset'[i] = asset[i]
      BY <2>1, <2>3
    <3>2. x.id \notin DOMAIN disk'
      BY <2>1, <2>3 DEF Removed
    <3> QED BY <1>1, <2>1, <2>3, <2>4, <3>1, <3>2, UploadKeeps
  <2>6. x.id \notin staging
    BY <2>3 DEF FileInv, StagedInv, NoAsset
  <2>7. StagedInv'
    BY <1>1, <2>1, <2>2, <2>3, <2>6 DEF FileInv, StagedInv, Removed
  <2>8. CleanInv'
    BY <2>1, <2>2 DEF CleanInv, Removed
  <2> QED BY <1>3, <2>5, <2>7, <2>8 DEF FileInv
<1>8. CASE CleanMark
  <2> DEFINE x == cleaning.item
  <2>1. cleaning.op = "mark" /\ UNCHANGED <<disk, receipt>> /\ expired' = expired \ {x.id}
        /\ asset' = [asset EXCEPT ![x.id].status = "DELETED"]
        /\ cleaning' = [op |-> "remove", list |-> cleaning.list \ {x}]
    BY <1>8 DEF CleanMark, rows
  <2>2. x \in Items /\ x \in cleaning.list /\ x.path \notin DOMAIN disk
        /\ \A y \in cleaning.list : y = Item(y.id) /\ y.id \in expired
    BY <2>1, CleaningLists DEF FileInv, CleanInv
  <2>3. x.path = x.id /\ x.id \in Uploads /\ x.id \in Keys /\ asset[x.id].status = "STAGED"
    BY <2>2 DEF Item, Items, Keys, FileInv, StagedInv
  <2> HIDE DEF x
  <2>4. asset'[x.id].status = "DELETED" /\ asset'[x.id].path = asset[x.id].path
        /\ \A i \in Keys : i # x.id => asset'[i] = asset[i]
    BY <2>1, <2>3 DEF TypeOK, Asset
  <2>5. \A p : FileKept(p)
    BY <2>1 DEF FileKept
  <2>6. NamedInv' /\ DetailInv' /\ KeptInv' /\ ReceiptInv'
    <3>1. asset'[x.id] # NoAsset /\ asset[x.id].status # "ATTACHED"
      BY <2>3, <2>4 DEF NoAsset
    <3> QED BY <1>1, <2>1, <2>3, <2>4, <2>5, <3>1, UploadKeeps DEF FileKept
  <2>7. StagedInv'
    BY <1>1, <2>1, <2>2, <2>3, <2>4 DEF FileInv, StagedInv, NoAsset, TypeOK, Keys
  <2>8. CleanInv'
    BY <2>1, <2>2 DEF CleanInv
  <2> QED BY <1>3, <2>6, <2>7, <2>8 DEF FileInv
<1>9. CASE StaleBegin \/ CleanEnd \/ CleanFails
  <2>1. UNCHANGED <<disk, asset, expired, receipt>>
    BY <1>9 DEF StaleBegin, CleanEnd, CleanFails, rows
  <2>2. cleaning'.op \in {"cancel", "idle"}
    BY <1>9 DEF StaleBegin, CleanEnd, CleanFails, Nobody
  <2>3. CleanInv'
    BY <2>2 DEF CleanInv
  <2> QED BY <1>3, <1>5, <2>1, <2>3 DEF FileInv
<1>10. ASSUME cleaning.op = "cancel", NEW r \in cleaning.list, StaleCancel(r) PROVE FileInv'
  <2>1. UNCHANGED <<disk, asset, expired>> /\ receipt' = [receipt EXCEPT ![r].status = "Deleted"]
        /\ cleaning' = [cleaning EXCEPT !.list = @ \ {r}]
    BY <1>10 DEF StaleCancel
  <2>2. r \in Receipts /\ cleaning \in [op : {"cancel"}, list : SUBSET Receipts]
    BY <1>10, CleaningLists
  <2>3. CleanInv'
    BY <2>1, <2>2 DEF CleanInv
  <2>4. \A q \in Receipts : /\ receipt'[q].image = receipt[q].image
                            /\ receipt'[q].given = receipt[q].given
                            /\ receipt'[q].status \in {receipt[q].status, "Deleted"}
    BY <2>1, <2>2 DEF TypeOK, Receipt
  <2> QED BY <1>3, <1>5, <2>1, <2>3, <2>4 DEF FileInv
<1> QED BY <1>6, <1>7, <1>8, <1>9, <1>10 DEF CleanStep

-----------------------------------------------------------------------------
(* The theorems.                                                           *)

LEMMA AssetInit == Init => AssetInv
<1> SUFFICES ASSUME Init PROVE AssetInv
  OBVIOUS
<1>1. NoAsset \in Asset /\ NoImage \in Paths /\ NoImage \in Contents
  BY PathTypes DEF Contents
<1>2. TypeOK
  BY <1>1 DEF Init, TypeOK, Keys, Receipt, Detail, Signing, Viewing, Cleaning
<1>3. SoloInv /\ ContentOK
  BY DEF Init, SoloInv, ContentOK
<1>4. StagedInv /\ NamedInv /\ DetailInv /\ KeptInv /\ ReceiptInv
  <2>1. NoImage \notin Names
    BY PathsAssumption
  <2> QED BY <2>1, NoImageAssumption DEF Init, StagedInv, NamedInv, DetailInv, KeptInv, ReceiptInv, Keys, NoAsset
<1>5. SignInv /\ ViewInv /\ CleanInv
  BY DEF Init, SignInv, ViewInv, CleanInv, Nobody
<1> QED BY <1>2, <1>3, <1>4, <1>5 DEF AssetInv, FileInv

LEMMA AssetStep == Orderly /\ AssetInv /\ [Next]_vars => AssetInv'
<1> SUFFICES ASSUME Orderly, AssetInv, [Next]_vars PROVE AssetInv'
  OBVIOUS
<1>1. TypeOK' /\ ContentOK' /\ SoloInv'
  BY TypeStep, ContentStep, SoloStep DEF AssetInv
<1>2. CASE UNCHANGED vars
  BY <1>1, <1>2 DEF vars, rows, tasks, AssetInv, FileInv, StagedInv, NamedInv, DetailInv, KeptInv, NoNameLost,
                    ReceiptInv, SignInv, ViewInv, CleanInv, Shows, Moved
<1>3. CASE Next
  <2>1. FileInv'
    BY <1>3, Actions, StagingKeeps, AttachingKeeps, SessionsKeep, PreviewingKeeps, FinaliseKeeps,
       CleaningKeeps DEF AssetInv
  <2> QED BY <1>1, <2>1 DEF AssetInv
<1> QED BY <1>2, <1>3

\* Every row, file and memory of a request has its type, whatever overlaps and
\* whatever fails.
THEOREM TypeCorrect == Spec => [](TypeOK /\ ContentOK)
<1>1. Init => TypeOK /\ ContentOK
  BY AssetInit DEF AssetInv
<1>2. TypeOK /\ ContentOK /\ [Next]_vars => (TypeOK /\ ContentOK)'
  BY TypeStep, ContentStep
<1> QED BY <1>1, <1>2, PTL DEF Spec

LEMMA AssetInvariant == Orderly => (Spec => []AssetInv)
<1> SUFFICES ASSUME Orderly PROVE Spec => []AssetInv
  OBVIOUS
<1>1. AssetInv /\ [Next]_vars => AssetInv'
  BY AssetStep
<1> QED BY <1>1, AssetInit, PTL DEF Spec

\* When one request or maintenance is at work at a time, a detail shows the file
\* that a creation attached to it or that a preview drew or renamed for it, and
\* a receipt the one that was uploaded or signed for it, whatever the previews of
\* other details rename, signatures fail to keep and the maintenance removes
\* (standardizeExistingDetailImage, finalizeReceiptGeneratorSession,
\* cleanupExpiredStagedUploadedAssets).  Nothing is claimed of a detail whose
\* preview has renamed its file and not (yet, or after a failure never) pointed
\* it at the new name, of details after such a failure has lost the name of a
\* preview, and of an image that was shown without being attached.
THEOREM ImagesAreKeptAlways == Orderly => (Spec => []ImagesAreKept)
<1> SUFFICES ASSUME Orderly PROVE Spec => []ImagesAreKept
  OBVIOUS
<1>1. AssetInv => ImagesAreKept
  BY DEF AssetInv, FileInv, KeptInv, NoNameLost, ReceiptInv, ImagesAreKept
<1> QED BY <1>1, AssetInvariant, PTL

\* A row that the maintenance has marked DELETED has no file, whichever call
\* failed on the way and whatever is written afterwards.
THEOREM RetiredIsGoneAlways == Orderly => (Spec => []RetiredIsGone)
<1> SUFFICES ASSUME Orderly PROVE Spec => []RetiredIsGone
  OBVIOUS
<1>1. AssetInv => RetiredIsGone
  BY DEF AssetInv, FileInv, StagedInv, RetiredIsGone, TypeOK
<1> QED BY <1>1, AssetInvariant, PTL

====
