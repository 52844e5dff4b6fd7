------------------------ MODULE SchemaBootstrap_proofs ------------------------
(***************************************************************************)
(* Theorems about SchemaBootstrap, for any sets of operations, services    *)
(* and rows and any number of images.                                      *)
(***************************************************************************)
EXTENDS SchemaBootstrap, TLAPS

-----------------------------------------------------------------------------
(* The inductive invariant *)

Pc == {"idle", "locked", "recovered", "copying", "backed-up", "rebuilding",
       "rebuilt", "built", "prepared", "checkpointed", "replaced", "over"}
Receipt == [status : Status, before : Content \cup {None}, after : Content \cup {None}]

(* An operation that has not written its receipt, and one that has *)
Early == {"idle", "locked", "recovered", "copying", "backed-up", "rebuilding", "rebuilt", "built"}
Late == {"prepared", "checkpointed", "replaced"}

(* Only the holder of the exclusive lock works, and nobody shares it. *)
LockInv ==
    /\ \A o \in Op : Working(o) => exclusive = o
    /\ exclusive # None => serving = {}

(* What a receipt says of the two databases it names.  They differ in their *)
(* schema, which no program changes: no write makes one look like the other.*)
Differ(d, e) == d.profile # e.profile \/ d.component # e.component

ReceiptInv(p) ==
    /\ receipt[p].status = "none" => p \notin installed
    /\ receipt[p].status # "none" =>
          /\ receipt[p].before \in Content
          /\ receipt[p].after \in Content
          /\ backup[p] = receipt[p].before
          /\ Differ(receipt[p].before, receipt[p].after)
    /\ receipt[p].status \in {"prepared", "committed"} =>
          /\ receipt[p].before.profile <= receipt[p].after.profile
          /\ receipt[p].after.component
    /\ pc[p] \in Early => receipt[p].status = "none"
    /\ target[p] # None => receipt[target[p]].status = "committed"

(* What the files are while a receipt is open *)
FileInv ==
    /\ bytes # None => bytes \in installed
    /\ \A p \in OpenReceipts \cap installed : ~Differ(source, receipt[p].after)
    /\ \A p \in OpenReceipts \ disturbed :
          IF p \in installed
          THEN /\ bytes = p
               /\ IF receipt[p].status = "prepared" THEN Current(source, image)
                                                    ELSE Known(source, image)
          ELSE source = receipt[p].before /\ Known(source, image)

(* The database an accepted operation is to put in place *)
Product(o) == IF target[o] = None THEN Migrated(source, image) ELSE backup[target[o]]

(* Where an operation stands says what it has checked and made. *)
StageInv(o) ==
    /\ pc[o] \in Early \ {"idle", "locked"} => OpenReceipts = {}
    /\ pc[o] \in {"copying", "backed-up", "rebuilding", "rebuilt", "built", "prepared", "checkpointed"}
          => Applies(o) /\ source.active = {}
    /\ pc[o] \in {"copying", "backed-up"} => target[o] = None
    /\ pc[o] \in {"rebuilding", "rebuilt"} => target[o] # None
    /\ pc[o] \in {"backed-up", "built"} => backup[o] = source
    /\ pc[o] \in {"rebuilt", "built", "prepared", "checkpointed"} => candidate[o] = Product(o)
    /\ pc[o] \in Late =>
          /\ OpenReceipts \subseteq {o}
          /\ receipt[o].status = IF target[o] = None THEN "prepared" ELSE "restore-prepared"
    /\ pc[o] \in {"prepared", "checkpointed"} =>
          /\ receipt[o].before = source
          /\ receipt[o].after = Product(o)
          /\ o \notin installed
    /\ pc[o] = "replaced" => o \in installed

IInv ==
    /\ TypeOK
    /\ LockInv
    /\ \A p \in Op : ReceiptInv(p)
    /\ FileInv
    /\ \A o \in Op : StageInv(o)
    /\ OnePending
    /\ ReceiptsTruthful

-----------------------------------------------------------------------------
(* Contents *)

LEMMA MigratedContent ==
    ASSUME NEW d \in Content, NEW i \in Image
    PROVE  Migrated(d, i) \in Content
<1>1. Head(i) \in 0 .. Head(LastImage)
  BY ImageAssumption DEF Image, Head
<1>. QED  BY <1>1 DEF Content, Migrated

LEMMA WrittenContent ==
    ASSUME source \in Content, NEW r \in Row
    PROVE  /\ AddJob(r) \in Content /\ ~Differ(AddJob(r), source)
           /\ EndJob(r) \in Content /\ ~Differ(EndJob(r), source)
  BY DEF Content, AddJob, EndJob, Differ

LEMMA FirstContents == FirstContent \subseteq Content
<1>1. {Fresh, Legacy, Head(1)} \subseteq 0 .. Head(LastImage)
  BY ImageAssumption DEF Fresh, Legacy, Head
<1>2. ASSUME NEW p \in {Fresh, Legacy, Head(1)}
      PROVE  [profile |-> p, component |-> FALSE, rows |-> {}, active |-> {}] \in Content
  BY <1>1, <1>2 DEF Content
<1>. QED  BY <1>2 DEF FirstContent

LEMMA ContentIsRecord ==
    ASSUME NEW d \in Content
    PROVE  d.profile \in Nat /\ d.component \in BOOLEAN /\ d.rows \subseteq Row /\ d.active \subseteq Row
  BY DEF Content

-----------------------------------------------------------------------------
(* Steps *)

LEMMA Holder ==
    ASSUME IInv, NEW o \in Op, Working(o)
    PROVE  /\ exclusive = o
           /\ serving = {}
           /\ \A q \in Op \ {o} : pc[q] \in {"idle", "over"}
<1>1. o # None
  BY NoneAssumption
<1>. QED  BY <1>1 DEF IInv, LockInv, Working

LEMMA Nobody ==
    ASSUME IInv, exclusive = None
    PROVE  \A q \in Op : pc[q] \in {"idle", "over"}
  BY NoneAssumption DEF IInv, LockInv, Working

LEMMA Moved ==
    ASSUME TypeOK, NEW o \in Op, NEW from \in Pc, NEW to \in Pc, Step(o, from, to)
    PROVE  /\ pc[o] = from /\ pc'[o] = to
           /\ \A q \in Op \ {o} : pc'[q] = pc[q]
           /\ pc' \in [Op -> Pc]
  BY DEF TypeOK, Pc, Step

(* The holder stops and gives the lock back. *)
Freed(o) ==
    /\ exclusive' = None
    /\ pc'[o] \in {"idle", "over"}
    /\ pc'[o] = "idle" => pc[o] \in Early
    /\ \A q \in Op \ {o} : pc'[q] = pc[q]
    /\ pc' \in [Op -> Pc]

LEMMA Released == ASSUME TypeOK, NEW o \in Op, Release(o) PROVE Freed(o)
  BY DEF TypeOK, Pc, Release, Early, Freed

LEMMA SettledReceipt ==
    ASSUME IInv, NEW p \in Op, NEW s \in Status, Settle(p, s)
    PROVE  /\ receipt' \in [Op -> Receipt]
           /\ receipt'[p].status = s
           /\ receipt'[p].before = receipt[p].before
           /\ receipt'[p].after = receipt[p].after
           /\ \A q \in Op \ {p} : receipt'[q] = receipt[q]
<1>. receipt \in [Op -> Receipt]
  BY DEF IInv, TypeOK, Receipt
<1>. receipt[p] \in Receipt
  OBVIOUS
<1>1. [receipt[p] EXCEPT !.status = s] \in Receipt
  BY DEF Receipt
<1>2. receipt' = [receipt EXCEPT ![p] = [receipt[p] EXCEPT !.status = s]]
  BY DEF Settle
<1>3. /\ receipt'[p] = [receipt[p] EXCEPT !.status = s]
      /\ \A q \in Op \ {p} : receipt'[q] = receipt[q]
      /\ receipt' \in [Op -> Receipt]
  BY <1>1, <1>2
<1>4. /\ [receipt[p] EXCEPT !.status = s].status = s
      /\ [receipt[p] EXCEPT !.status = s].before = receipt[p].before
      /\ [receipt[p] EXCEPT !.status = s].after = receipt[p].after
  BY DEF Receipt
<1>. QED  BY <1>3, <1>4

(* A step that leaves the files, the database and the image alone *)
LEMMA Frame ==
    ASSUME IInv, UNCHANGED <<source, bytes, receipt, image, installed, disturbed>>
    PROVE  FileInv' /\ OnePending' /\ ReceiptsTruthful' /\ OpenReceipts' = OpenReceipts
  BY DEF IInv, FileInv, OnePending, ReceiptsTruthful, OpenReceipts, Current, Known

(* An operation at rest claims nothing. *)
LEMMA AtRest ==
    ASSUME NEW q \in Op, pc[q] \in {"idle", "over"} \/ pc[q] = "locked"
    PROVE  StageInv(q)
  BY DEF StageInv, Early, Late

LEMMA AtRestNext ==
    ASSUME NEW q \in Op, pc'[q] \in {"idle", "over"} \/ pc'[q] = "locked"
    PROVE  StageInv(q)'
  BY DEF StageInv, Early, Late

-----------------------------------------------------------------------------
(* Every step keeps the invariant *)

LEMMA BeginKeeps ==
    ASSUME IInv, NEW o \in Op, Begin(o)
    PROVE  IInv'
<1>. USE DEF files
<1>1. PICK t \in {None} \cup {p \in Op : receipt[p].status = "committed"} :
          target' = [target EXCEPT ![o] = t]
  BY DEF Begin
<1>2. target' \in [Op -> Op \cup {None}] /\ target'[o] = t /\ \A q \in Op \ {o} : target'[q] = target[q]
  BY <1>1 DEF IInv, TypeOK
<1>3. /\ pc[o] = "idle" /\ pc'[o] = "locked" /\ pc' \in [Op -> Pc]
      /\ \A q \in Op \ {o} : pc'[q] = pc[q]
  BY Moved DEF Begin, IInv, Pc
<1>4. \A q \in Op : pc[q] \in {"idle", "over"}
  BY Nobody DEF Begin, CanLock
<1>5. TypeOK'
  BY <1>2, <1>3 DEF Begin, IInv, TypeOK, Pc
<1>6. LockInv'
  BY <1>3, <1>4 DEF Begin, CanLock, LockInv, Working
<1>7. \A p \in Op : ReceiptInv(p)'
  <2>. TAKE p \in Op
  <2>1. ReceiptInv(p) /\ (pc'[p] \in Early => pc[p] \in Early)
    BY <1>3 DEF IInv, Early
  <2>2. target'[p] # None => receipt[target'[p]].status = "committed"
    BY <2>1, <1>1, <1>2 DEF ReceiptInv
  <2>. QED  BY <2>1, <2>2 DEF Begin, ReceiptInv
<1>8. \A q \in Op : StageInv(q)'
  BY <1>3, <1>4, AtRestNext
<1>9. FileInv' /\ OnePending' /\ ReceiptsTruthful'
  BY Frame DEF Begin
<1>. QED  BY <1>5, <1>6, <1>7, <1>8, <1>9 DEF IInv

(* A step that only gives the lock back, possibly dropping the candidate *)
LEMMA ReleaseKeeps ==
    ASSUME IInv, NEW o \in Op, Working(o), Freed(o),
           UNCHANGED <<source, bytes, backup, receipt, target, serving, image, installed, disturbed>>,
           candidate' \in [Op -> Content \cup {None}]
    PROVE  IInv'
<1>1. \A q \in Op : pc'[q] \in {"idle", "over"}
  BY Holder DEF Freed
<1>2. TypeOK'
  BY DEF IInv, TypeOK, Pc, Freed
<1>3. LockInv'
  BY <1>1 DEF LockInv, Working, Freed
<1>4. \A p \in Op : ReceiptInv(p)'
  <2>. TAKE p \in Op
  <2>1. ReceiptInv(p) /\ (pc'[p] \in Early => pc[p] \in Early)
    BY <1>1 DEF IInv, Early, Freed
  <2>. QED  BY <2>1 DEF ReceiptInv
<1>5. \A q \in Op : StageInv(q)'
  BY <1>1, AtRestNext
<1>6. FileInv' /\ OnePending' /\ ReceiptsTruthful'
  BY Frame
<1>. QED  BY <1>2, <1>3, <1>4, <1>5, <1>6 DEF IInv

LEMMA EndingsKeep ==
    ASSUME IInv, NEW o \in Op, RecoverBlocked(o) \/ Refuse(o) \/ DryRun(o) \/ Fail(o) \/ Crash(o)
    PROVE  IInv'
<1>. USE DEF files
<1>. candidate \in [Op -> Content \cup {None}]
  BY DEF IInv, TypeOK
<1>1. CASE RecoverBlocked(o)
  BY <1>1, ReleaseKeeps, Released DEF RecoverBlocked, Working, IInv
<1>2. CASE Refuse(o)
  BY <1>2, ReleaseKeeps, Released DEF Refuse, Working, IInv
<1>3. CASE DryRun(o)
  <2>1. Freed(o)
    BY <1>3 DEF DryRun, Freed, IInv, TypeOK, Pc, Early
  <2>. QED  BY <1>3, <2>1, ReleaseKeeps DEF DryRun, Working
<1>4. CASE Fail(o)
  BY <1>4, ReleaseKeeps, Released DEF Fail, IInv
<1>5. CASE Crash(o)
  BY <1>5, ReleaseKeeps, Released DEF Crash, IInv
<1>. QED  BY <1>1, <1>2, <1>3, <1>4, <1>5

(* Settling an open receipt, by recovery or by the operation that wrote it *)
Truthful(p, s) ==
    /\ s \in {"committed", "restored"} => p \in installed
    /\ s \in {"abandoned-before-replacement", "restore-abandoned-before-replacement"}
          => p \notin installed
    /\ s = "committed" => receipt[p].status = "prepared"

LEMMA SettleKeeps ==
    ASSUME IInv, NEW o \in Op, Working(o), NEW p \in OpenReceipts,
           NEW s \in Status \ (OpenStatus \cup {"none"}), Settle(p, s), Truthful(p, s),
           (pc[o] = "locked" /\ UNCHANGED <<pc, exclusive>>) \/ Freed(o),
           UNCHANGED <<source, bytes, backup, target, serving, image, installed, disturbed>>,
           candidate' \in [Op -> Content \cup {None}]
    PROVE  IInv'
<1>1. /\ p \in Op
      /\ receipt' \in [Op -> Receipt]
      /\ receipt'[p].status = s
      /\ receipt'[p].before = receipt[p].before
      /\ receipt'[p].after = receipt[p].after
      /\ \A q \in Op \ {p} : receipt'[q] = receipt[q]
  BY SettledReceipt DEF OpenReceipts
<1>2. OpenReceipts' = OpenReceipts \ {p}
  BY <1>1 DEF OpenReceipts
<1>3. pc' \in [Op -> Pc] /\ exclusive' \in Op \cup {None}
  BY DEF IInv, TypeOK, Pc, Freed
<1>4. TypeOK'
  BY <1>1, <1>3 DEF IInv, TypeOK, Pc, Receipt
<1>5. \A q \in Op : pc'[q] \in {"idle", "over", "locked"}
  BY Holder DEF Freed
<1>6. LockInv'
  <2>1. CASE UNCHANGED <<pc, exclusive>>
    BY <2>1 DEF IInv, LockInv, Working
  <2>2. CASE Freed(o)
    BY <2>2, Holder DEF IInv, LockInv, Working, Freed
  <2>. QED  BY <2>1, <2>2
<1>7. \A q \in Op : ReceiptInv(q)'
  <2>. TAKE q \in Op
  <2>0. pc'[q] \in Early => pc[q] \in Early
    BY DEF Freed, Early
  <2>1. ReceiptInv(q) /\ (pc'[q] \in Early => pc[q] \in Early)
    BY <2>0 DEF IInv
  <2>2. q = p => pc[q] \notin Early
    BY <2>1 DEF ReceiptInv, OpenReceipts, OpenStatus
  <2>3. target[q] # None => target[q] \in Op /\ target[q] # p
    BY <2>1 DEF IInv, TypeOK, ReceiptInv, OpenReceipts, OpenStatus
  <2>4. CASE q = p
    BY <2>1, <2>2, <2>3, <2>4, <1>1 DEF ReceiptInv, Truthful, OpenReceipts, OpenStatus, Differ
  <2>5. CASE q # p
    BY <2>1, <2>3, <2>5, <1>1 DEF ReceiptInv, Differ
  <2>. QED  BY <2>4, <2>5
<1>8. FileInv'
  BY <1>1, <1>2 DEF IInv, FileInv, OpenReceipts, Current, Known, Differ
<1>9. OnePending' /\ ReceiptsTruthful'
  BY <1>1, <1>2 DEF IInv, OnePending, ReceiptsTruthful, Truthful
<1>10. \A q \in Op : StageInv(q)'
  BY <1>5, AtRestNext
<1>. QED  BY <1>4, <1>6, <1>7, <1>8, <1>9, <1>10 DEF IInv

LEMMA RecoveryKeeps ==
    ASSUME IInv, NEW o \in Op, RecoverReplaced(o) \/ RecoverAbandoned(o)
    PROVE  IInv'
<1>. USE DEF files
<1>. Working(o)
  BY DEF RecoverReplaced, RecoverAbandoned, Working
<1>1. CASE RecoverReplaced(o)
  <2>1. PICK p \in OpenReceipts :
           /\ IsCandidate(p)
           /\ \/ receipt[p].status = "prepared" /\ Settle(p, "committed")
              \/ receipt[p].status = "restore-prepared" /\ Settle(p, "restored")
    BY <1>1 DEF RecoverReplaced
  <2>2. p \in installed
    BY <2>1, NoneAssumption DEF IInv, FileInv, IsCandidate, OpenReceipts
  <2>3. candidate' \in [Op -> Content \cup {None}]
    BY <1>1 DEF RecoverReplaced, IInv, TypeOK
  <2>. QED  BY <1>1, <2>1, <2>2, <2>3, SettleKeeps DEF RecoverReplaced, Truthful, Status, OpenStatus
<1>2. CASE RecoverAbandoned(o)
  <2>. DEFINE s(p) == IF receipt[p].status = "prepared"
                      THEN "abandoned-before-replacement"
                      ELSE "restore-abandoned-before-replacement"
  <2>1. PICK p \in OpenReceipts :
           IsOriginal(p) /\ Settle(p, s(p)) /\ candidate' = [candidate EXCEPT ![p] = None]
    BY <1>2 DEF RecoverAbandoned
  <2>2. p \in Op /\ ReceiptInv(p) /\ receipt[p].status # "none"
    BY DEF OpenReceipts, OpenStatus, IInv
  <2>3. p \notin installed
    BY <2>1, <2>2 DEF IInv, FileInv, ReceiptInv, IsOriginal, Differ
  <2>4. candidate' \in [Op -> Content \cup {None}]
    BY <2>1, <2>2 DEF IInv, TypeOK
  <2>5. s(p) \in {"abandoned-before-replacement", "restore-abandoned-before-replacement"}
    OBVIOUS
  <2>6. s(p) \in Status \ (OpenStatus \cup {"none"}) /\ Truthful(p, s(p))
    BY <2>3, <2>5 DEF Truthful, Status, OpenStatus
  <2>. HIDE DEF s
  <2>. QED  BY <1>2, <2>1, <2>4, <2>6, SettleKeeps DEF RecoverAbandoned
<1>. QED  BY <1>1, <1>2

LEMMA FinishKeeps ==
    ASSUME IInv, NEW o \in Op, Finish(o)
    PROVE  IInv'
<1>. DEFINE s == IF target[o] = None THEN "committed" ELSE "restored"
<1>1. StageInv(o) /\ Working(o) /\ pc[o] = "replaced"
  BY DEF IInv, Finish, Working
<1>2. o \in OpenReceipts /\ o \in installed
  BY <1>1 DEF StageInv, OpenReceipts, OpenStatus, Late
<1>3. s \in Status \ (OpenStatus \cup {"none"}) /\ Truthful(o, s)
  BY <1>1, <1>2 DEF Truthful, Status, OpenStatus, StageInv, Late
<1>4. Freed(o) /\ Settle(o, s) /\ candidate' \in [Op -> Content \cup {None}]
  BY Released DEF Finish, IInv, TypeOK
<1>. HIDE DEF s
<1>. QED  BY <1>1, <1>2, <1>3, <1>4, SettleKeeps DEF Finish

-----------------------------------------------------------------------------
(* The stages of an accepted operation *)

LEMMA RecoveredKeeps ==
    ASSUME IInv, NEW o \in Op, Recovered(o) \/ Accept(o)
    PROVE  IInv'
<1>. USE DEF files
<1>1. /\ pc[o] \in {"locked", "recovered"}
      /\ pc'[o] \in {"recovered", "copying", "rebuilding"}
      /\ \A q \in Op \ {o} : pc'[q] = pc[q]
      /\ pc' \in [Op -> Pc]
  BY Moved DEF Recovered, Accept, IInv, Pc
<1>2. UNCHANGED <<source, bytes, files, target, exclusive, serving, image, installed, disturbed>>
  BY DEF Recovered, Accept
<1>3. TypeOK'
  BY <1>1, <1>2 DEF IInv, TypeOK, Pc
<1>4. Working(o) /\ \A q \in Op \ {o} : pc'[q] \in {"idle", "over"}
  BY <1>1, Holder DEF Working
<1>5. LockInv'
  BY <1>1, <1>2 DEF IInv, LockInv, Working
<1>6. \A p \in Op : ReceiptInv(p)'
  <2>. TAKE p \in Op
  <2>1. pc'[p] \in Early => pc[p] \in Early
    BY <1>1 DEF Early
  <2>. QED  BY <2>1, <1>2 DEF IInv, ReceiptInv
<1>7. FileInv' /\ OnePending' /\ ReceiptsTruthful' /\ OpenReceipts' = OpenReceipts
  BY <1>2, Frame
<1>8. StageInv(o)'
  <2>1. CASE Recovered(o)
    <3>1. OpenReceipts' = {} /\ pc'[o] = "recovered"
      BY <2>1, <1>7, Moved DEF Recovered, IInv, Pc
    <3>. QED  BY <3>1 DEF StageInv, Late, Early
  <2>2. CASE Accept(o)
    <3>1. OpenReceipts = {}
      BY <2>2 DEF Accept, Step, IInv, StageInv, Early
    <3>2. Applies(o)' /\ source'.active = {}
      BY <2>2, <1>2 DEF Accept, Applies, ActiveJobs, Known, Current
    <3>3. pc'[o] = IF target'[o] = None THEN "copying" ELSE "rebuilding"
      BY <2>2, <1>2 DEF Accept, Step, IInv, TypeOK
    <3>. QED  BY <3>1, <3>2, <3>3, <1>7 DEF StageInv, Late, Early
  <2>. QED  BY <2>1, <2>2
<1>9. \A q \in Op : StageInv(q)'
  BY <1>4, <1>8, AtRestNext
<1>. QED  BY <1>3, <1>5, <1>6, <1>7, <1>9 DEF IInv

(* The steps between acceptance and the receipt write files of o alone.    *)
LEMMA BuildingKeeps ==
    ASSUME IInv, NEW o \in Op, BackUp(o) \/ Migrate(o) \/ Rebuild(o) \/ BackUpReplaced(o)
    PROVE  IInv'
<1>1. /\ pc[o] \in {"copying", "backed-up", "rebuilding", "rebuilt"}
      /\ pc'[o] \in {"backed-up", "built", "rebuilt"}
      /\ \A q \in Op \ {o} : pc'[q] = pc[q]
      /\ pc' \in [Op -> Pc]
  BY Moved DEF BackUp, Migrate, Rebuild, BackUpReplaced, IInv, Pc
<1>2. UNCHANGED <<source, bytes, receipt, target, exclusive, serving, image, installed, disturbed>>
  BY DEF BackUp, Migrate, Rebuild, BackUpReplaced
<1>3. Working(o) /\ ReceiptInv(o) /\ StageInv(o) /\ receipt[o].status = "none"
  BY <1>1 DEF Working, IInv, ReceiptInv, Early
<1>4. \A q \in Op \ {o} : pc'[q] \in {"idle", "over"}
  BY <1>1, <1>3, Holder
<1>5. target[o] # None => target[o] \in Op \ {o} /\ receipt[target[o]].status = "committed"
  BY <1>3 DEF ReceiptInv, IInv, TypeOK
<1>6. target[o] # None => backup[target[o]] \in Content
  BY <1>5 DEF IInv, ReceiptInv
<1>7. source \in Content /\ Migrated(source, image) \in Content
  BY MigratedContent DEF IInv, TypeOK
<1>8. /\ backup' \in [Op -> Content \cup {None}]
      /\ \A q \in Op \ {o} : backup'[q] = backup[q]
      /\ candidate' \in [Op -> Content \cup {None}]
      /\ Applies(o)' /\ source'.active = {}
      /\ pc'[o] = "backed-up" => target'[o] = None
      /\ pc'[o] = "rebuilt" => target'[o] # None
      /\ pc'[o] \in {"backed-up", "built"} => backup'[o] = source'
      /\ pc'[o] \in {"rebuilt", "built"} => candidate'[o] = Product(o)'
  <2>. backup \in [Op -> Content \cup {None}] /\ candidate \in [Op -> Content \cup {None}]
    BY DEF IInv, TypeOK
  <2>1. Applies(o) /\ source.active = {}
    BY <1>1, <1>3 DEF StageInv
  <2>2. Applies(o)' /\ source'.active = {}
    BY <2>1, <1>2 DEF Applies, Known, Current
  <2>3. CASE BackUp(o)
    <3>1. /\ target[o] = None /\ pc'[o] = "backed-up" /\ candidate' = candidate
          /\ backup' = [backup EXCEPT ![o] = source]
      BY <2>3, <1>3, Moved DEF BackUp, Step, StageInv, IInv, Pc
    <3>. QED  BY <3>1, <2>2, <1>2, <1>7
  <2>4. CASE Migrate(o)
    <3>1. /\ target[o] = None /\ pc'[o] = "built" /\ backup' = backup /\ backup[o] = source
          /\ candidate' = [candidate EXCEPT ![o] = Migrated(source, image)]
      BY <2>4, <1>3, Moved DEF Migrate, Step, StageInv, IInv, Pc
    <3>2. Product(o)' = Migrated(source, image)
      BY <3>1, <1>2 DEF Product, Migrated
    <3>. QED  BY <3>1, <3>2, <2>2, <1>2, <1>7
  <2>5. CASE Rebuild(o)
    <3>1. /\ target[o] # None /\ pc'[o] = "rebuilt" /\ backup' = backup
          /\ candidate' = [candidate EXCEPT ![o] = backup[target[o]]]
      BY <2>5, <1>3, Moved DEF Rebuild, Step, StageInv, IInv, Pc
    <3>2. Product(o)' = backup[target[o]]
      BY <3>1, <1>2 DEF Product
    <3>. QED  BY <3>1, <3>2, <2>2, <1>2, <1>6
  <2>6. CASE BackUpReplaced(o)
    <3>1. /\ target[o] # None /\ pc'[o] = "built" /\ candidate' = candidate
          /\ candidate[o] = Product(o)
          /\ backup' = [backup EXCEPT ![o] = source]
      BY <2>6, <1>3, Moved DEF BackUpReplaced, Step, StageInv, IInv, Pc
    <3>2. Product(o)' = Product(o)
      BY <3>1, <1>2, <1>5 DEF Product
    <3>. QED  BY <3>1, <3>2, <2>2, <1>2, <1>7
  <2>. QED  BY <2>3, <2>4, <2>5, <2>6
<1>9. TypeOK'
  BY <1>1, <1>2, <1>8 DEF IInv, TypeOK, Pc
<1>10. LockInv'
  BY <1>1, <1>2 DEF IInv, LockInv, Working
<1>11. \A p \in Op : ReceiptInv(p)'
  <2>. TAKE p \in Op
  <2>1. ReceiptInv(p) /\ (pc'[p] \in Early => pc[p] \in Early)
    BY <1>1 DEF IInv, Early
  <2>2. receipt[p].status # "none" => backup'[p] = backup[p]
    BY <1>3, <1>8
  <2>. QED  BY <2>1, <2>2, <1>2 DEF ReceiptInv
<1>12. FileInv' /\ OnePending' /\ ReceiptsTruthful' /\ OpenReceipts' = OpenReceipts
  BY <1>2, Frame
<1>13. StageInv(o)'
  <2>1. OpenReceipts' = {}
    BY <1>1, <1>3, <1>12 DEF StageInv, Early
  <2>. QED  BY <2>1, <1>1, <1>8 DEF StageInv, Early, Late
<1>14. \A q \in Op : StageInv(q)'
  BY <1>4, <1>13, AtRestNext
<1>. QED  BY <1>9, <1>10, <1>11, <1>12, <1>14 DEF IInv

(* The receipt names two databases of different schemas, and this operation *)
(* is now the only one recovery would have to settle.                       *)
LEMMA PrepareKeeps ==
    ASSUME IInv, NEW o \in Op, Prepare(o)
    PROVE  IInv'
<1>. DEFINE status == IF target[o] = None THEN "prepared" ELSE "restore-prepared"
            new == [status |-> status, before |-> source, after |-> candidate[o]]
<1>1. /\ pc[o] = "built" /\ pc'[o] = "prepared"
      /\ \A q \in Op \ {o} : pc'[q] = pc[q]
      /\ pc' \in [Op -> Pc]
  BY Moved DEF Prepare, IInv, Pc
<1>2. UNCHANGED <<source, bytes, backup, candidate, target, exclusive, serving,
                  image, installed, disturbed>>
  BY DEF Prepare
<1>3. /\ Working(o) /\ receipt[o].status = "none" /\ o \notin installed
      /\ OpenReceipts = {} /\ Applies(o) /\ source.active = {}
      /\ backup[o] = source /\ candidate[o] = Product(o)
  BY <1>1 DEF Working, IInv, ReceiptInv, StageInv, Early
<1>4. \A q \in Op \ {o} : pc'[q] \in {"idle", "over"}
  BY <1>1, <1>3, Holder
<1>5. target[o] # None => /\ target[o] \in Op \ {o}
                          /\ receipt[target[o]].status = "committed"
                          /\ ReceiptInv(target[o])
  BY <1>3 DEF ReceiptInv, IInv, TypeOK
<1>6. source \in Content /\ candidate[o] \in Content
  BY <1>3, <1>5, MigratedContent DEF IInv, TypeOK, Product, ReceiptInv
<1>7. Head(image) \in Nat
  BY DEF IInv, TypeOK, Image, Head
<1>8. /\ Known(source, image)
      /\ Differ(source, candidate[o])
      /\ target[o] = None => source.profile <= candidate[o].profile /\ candidate[o].component
  <2>. source.profile \in Nat /\ source.component \in BOOLEAN
    BY <1>6, ContentIsRecord
  <2>1. CASE target[o] = None
    <3>1. candidate[o].profile = Head(image) /\ candidate[o].component = TRUE
      BY <2>1, <1>3, <1>6 DEF Product, Migrated, Content
    <3>. QED  BY <2>1, <3>1, <1>3, <1>7 DEF Applies, Known, Current, Differ
  <2>2. CASE target[o] # None
    <3>1. /\ Current(source, image)
          /\ source.profile = receipt[target[o]].after.profile
          /\ candidate[o] = receipt[target[o]].before
      BY <2>2, <1>3, <1>5 DEF Applies, Product, ReceiptInv
    <3>2. /\ Differ(receipt[target[o]].before, receipt[target[o]].after)
          /\ receipt[target[o]].after.component
          /\ receipt[target[o]].after.component \in BOOLEAN
      BY <2>2, <1>5, ContentIsRecord DEF ReceiptInv
    <3>3. source.component = receipt[target[o]].after.component
      BY <3>1, <3>2 DEF Current
    <3>4. Differ(source, candidate[o])
      BY <3>1, <3>2, <3>3, Zenon DEF Differ
    <3>5. Known(source, image)
      BY <3>1, <1>7 DEF Known, Current
    <3>. QED  BY <2>2, <3>4, <3>5
  <2>. QED  BY <2>1, <2>2
<1>9. /\ receipt' = [receipt EXCEPT ![o] = new]
      /\ new \in Receipt
      /\ new.status = status /\ new.before = source /\ new.after = candidate[o]
      /\ status \in OpenStatus
  BY <1>6 DEF Prepare, Receipt, Status, OpenStatus
<1>. HIDE DEF new, status
<1>10. /\ receipt' \in [Op -> Receipt]
       /\ receipt'[o].status = status
       /\ receipt'[o].before = source
       /\ receipt'[o].after = candidate[o]
       /\ \A q \in Op \ {o} : receipt'[q] = receipt[q]
  BY <1>9 DEF IInv, TypeOK, Receipt
<1>11. OpenReceipts' = {o}
  BY <1>3, <1>9, <1>10 DEF OpenReceipts
<1>12. TypeOK'
  BY <1>1, <1>2, <1>10 DEF IInv, TypeOK, Pc, Receipt
<1>13. LockInv'
  BY <1>1, <1>2 DEF IInv, LockInv, Working
<1>14. \A p \in Op : ReceiptInv(p)'
  <2>. TAKE p \in Op
  <2>1. ReceiptInv(p) /\ target'[p] = target[p]
    BY <1>2 DEF IInv
  <2>2. target[p] # None => target[p] \in Op \ {o}
    BY <2>1, <1>3 DEF ReceiptInv, IInv, TypeOK
  <2>3. target'[p] # None => receipt'[target'[p]].status = "committed"
    BY <2>1, <2>2, <1>10 DEF ReceiptInv
  <2>4. CASE p = o
    <3>1. pc'[o] \notin Early /\ receipt'[o].status \notin {"none", "committed"}
      BY <1>1, <1>9, <1>10 DEF Early, OpenStatus
    <3>2. receipt'[o].status = "prepared" => target[o] = None
      BY <1>10 DEF status
    <3>. QED  BY <2>3, <2>4, <3>1, <3>2, <1>2, <1>3, <1>6, <1>8, <1>10 DEF ReceiptInv, Differ
  <2>5. CASE p # o
    BY <2>1, <2>3, <2>5, <1>1, <1>2, <1>10 DEF ReceiptInv, Differ
  <2>. QED  BY <2>4, <2>5
<1>15. FileInv'
  BY <1>2, <1>3, <1>8, <1>10, <1>11 DEF IInv, FileInv, Known
<1>16. OnePending' /\ ReceiptsTruthful'
  <2>1. receipt'[o].status \notin {"committed", "restored", "abandoned-before-replacement",
                                   "restore-abandoned-before-replacement"}
    BY <1>9, <1>10 DEF OpenStatus
  <2>. QED  BY <2>1, <1>2, <1>10, <1>11 DEF IInv, OnePending, ReceiptsTruthful
<1>17. StageInv(o)'
  <2>1. Applies(o)' /\ Product(o)' = Product(o) /\ target'[o] = target[o]
    <3>1. Applies(o)'
      BY <1>2, <1>3, <1>5, <1>10 DEF Applies, Known, Current
    <3>. QED  BY <3>1, <1>2 DEF Product
  <2>. QED  BY <2>1, <1>1, <1>2, <1>3, <1>10, <1>11 DEF StageInv, Early, Late, status
<1>18. \A q \in Op : StageInv(q)'
  BY <1>4, <1>17, AtRestNext
<1>. QED  BY <1>12, <1>13, <1>14, <1>15, <1>16, <1>18 DEF IInv

LEMMA CheckpointKeeps ==
    ASSUME IInv, NEW o \in Op, Checkpoint(o)
    PROVE  IInv'
<1>. USE DEF files
<1>1. /\ pc[o] = "prepared" /\ pc'[o] = "checkpointed"
      /\ \A q \in Op \ {o} : pc'[q] = pc[q]
      /\ pc' \in [Op -> Pc]
  BY Moved DEF Checkpoint, IInv, Pc
<1>2. /\ bytes' = None
      /\ UNCHANGED <<source, files, target, exclusive, serving, image, installed, disturbed>>
  BY DEF Checkpoint
<1>3. Working(o) /\ StageInv(o) /\ o \notin installed /\ OpenReceipts \subseteq {o}
  BY <1>1 DEF Working, IInv, StageInv, Late
<1>4. OpenReceipts' = OpenReceipts
  BY <1>2 DEF OpenReceipts
<1>5. TypeOK'
  BY <1>1, <1>2 DEF IInv, TypeOK, Pc
<1>6. LockInv'
  BY <1>1, <1>2 DEF IInv, LockInv, Working
<1>7. \A p \in Op : ReceiptInv(p)'
  <2>. TAKE p \in Op
  <2>1. ReceiptInv(p) /\ (pc'[p] \in Early => pc[p] \in Early)
    BY <1>1 DEF IInv, Early
  <2>. QED  BY <2>1, <1>2 DEF ReceiptInv
<1>8. FileInv'
  BY <1>2, <1>3, <1>4 DEF IInv, FileInv, Known
<1>9. OnePending' /\ ReceiptsTruthful'
  BY <1>2, <1>4 DEF IInv, OnePending, ReceiptsTruthful
<1>10. StageInv(o)'
  <2>1. Applies(o)' = Applies(o) /\ Product(o)' = Product(o)
    BY <1>2 DEF Applies, Known, Current, Product
  <2>. QED  BY <2>1, <1>1, <1>2, <1>3, <1>4 DEF StageInv, Early, Late
<1>11. \A q \in Op : StageInv(q)'
  BY <1>1, <1>3, <1>10, Holder, AtRestNext
<1>. QED  BY <1>5, <1>6, <1>7, <1>8, <1>9, <1>11 DEF IInv

(* What Replace puts in place is as its receipt says, and what finishing or *)
(* recovering the operation will ask for.                                   *)
LEMMA ReplaceFacts ==
    ASSUME IInv, NEW o \in Op, Replace(o)
    PROVE  /\ pc[o] = "checkpointed" /\ pc'[o] = "replaced"
           /\ \A q \in Op \ {o} : pc'[q] = pc[q]
           /\ pc' \in [Op -> Pc]
           /\ Working(o) /\ StageInv(o) /\ ReceiptInv(o)
           /\ exclusive = o /\ serving = {} /\ source.active = {}
           /\ source \in Content /\ candidate[o] \in Content
           /\ backup[o] = source
           /\ source' = candidate[o] /\ candidate[o] = receipt[o].after
           /\ target[o] = None => candidate[o] = Migrated(source, image)
           /\ target[o] # None => /\ target[o] \in installed
                                  /\ candidate[o] = backup[target[o]]
           /\ IF target[o] = None THEN Current(source', image) ELSE Known(source', image)
<1>1. /\ pc[o] = "checkpointed" /\ pc'[o] = "replaced"
      /\ \A q \in Op \ {o} : pc'[q] = pc[q]
      /\ pc' \in [Op -> Pc]
      /\ source' = candidate[o]
  BY Moved DEF Replace, IInv, Pc
<1>2. Working(o) /\ StageInv(o) /\ ReceiptInv(o)
  BY <1>1 DEF Working, IInv
<1>3. /\ receipt[o].status # "none" /\ candidate[o] = Product(o) /\ Applies(o)
      /\ source.active = {} /\ receipt[o].before = source /\ receipt[o].after = candidate[o]
  BY <1>1, <1>2 DEF StageInv, Late
<1>4. source \in Content /\ candidate[o] \in Content /\ backup[o] = source
  BY <1>2, <1>3 DEF ReceiptInv
<1>5. image \in Image /\ Head(image) \in Nat
  BY DEF IInv, TypeOK, Image, Head
<1>6. CASE target[o] = None
  <2>1. candidate[o] = Migrated(source, image)
    BY <1>3, <1>6 DEF Product
  <2>2. candidate[o].profile = Head(image) /\ candidate[o].component = TRUE
    BY <2>1, <1>4 DEF Migrated, Content
  <2>. QED  BY <2>1, <2>2, <1>1, <1>2, <1>3, <1>4, <1>6, Holder DEF Current
<1>7. CASE target[o] # None
  <2>. DEFINE t == target[o]
  <2>1. t \in Op /\ receipt[t].status = "committed" /\ ReceiptInv(t)
    BY <1>2, <1>7 DEF ReceiptInv, IInv, TypeOK
  <2>2. /\ t \in installed
        /\ backup[t] = receipt[t].before
        /\ receipt[t].before \in Content /\ receipt[t].after \in Content
        /\ receipt[t].before.profile <= receipt[t].after.profile
    BY <2>1 DEF IInv, ReceiptsTruthful, ReceiptInv
  <2>3. candidate[o] = backup[t] /\ receipt[t].after.profile = Head(image)
    BY <1>3, <1>7 DEF Product, Applies, Current
  <2>4. Known(source', image)
    BY <2>2, <2>3, <1>1, <1>5, ContentIsRecord DEF Known
  <2>. QED  BY <2>2, <2>3, <2>4, <1>1, <1>2, <1>3, <1>4, <1>7, Holder
<1>. QED  BY <1>6, <1>7

LEMMA ReplaceKeeps ==
    ASSUME IInv, NEW o \in Op, Replace(o)
    PROVE  IInv'
<1>1. /\ pc[o] = "checkpointed" /\ pc'[o] = "replaced"
      /\ \A q \in Op \ {o} : pc'[q] = pc[q]
      /\ pc' \in [Op -> Pc]
      /\ Working(o) /\ StageInv(o)
      /\ source' = candidate[o] /\ candidate[o] = receipt[o].after /\ candidate[o] \in Content
      /\ IF target[o] = None THEN Current(source', image) ELSE Known(source', image)
  BY ReplaceFacts
<1>2. /\ bytes' = o
      /\ candidate' = [candidate EXCEPT ![o] = None]
      /\ installed' = installed \cup {o}
      /\ UNCHANGED <<backup, receipt, target, exclusive, serving, image, disturbed>>
  BY DEF Replace
<1>3. /\ OpenReceipts = {o} /\ OpenReceipts' = {o}
      /\ receipt[o].status = IF target[o] = None THEN "prepared" ELSE "restore-prepared"
  BY <1>1, <1>2 DEF StageInv, Late, OpenReceipts, OpenStatus
<1>4. TypeOK'
  BY <1>1, <1>2 DEF IInv, TypeOK, Pc
<1>5. LockInv'
  BY <1>1, <1>2 DEF IInv, LockInv, Working
<1>6. \A p \in Op : ReceiptInv(p)'
  <2>. TAKE p \in Op
  <2>1. ReceiptInv(p) /\ (pc'[p] \in Early => pc[p] \in Early)
    BY <1>1 DEF IInv, Early
  <2>2. receipt[p].status = "none" => p # o
    BY <1>3
  <2>. QED  BY <2>1, <2>2, <1>2 DEF ReceiptInv
<1>7. FileInv'
  <2>1. Current(source', image') = Current(source', image) /\ Known(source', image') = Known(source', image)
    BY <1>2
  <2>2. o # None /\ ~Differ(source', receipt'[o].after)
    BY <1>1, <1>2, NoneAssumption DEF Differ
  <2>3. IF receipt'[o].status = "prepared" THEN Current(source', image') ELSE Known(source', image')
    BY <1>1, <1>2, <1>3, <2>1
  <2>. QED  BY <1>2, <1>3, <2>2, <2>3 DEF FileInv
<1>8. OnePending' /\ ReceiptsTruthful'
  BY <1>2, <1>3 DEF IInv, OnePending, ReceiptsTruthful
<1>9. StageInv(o)'
  BY <1>1, <1>2, <1>3 DEF StageInv, Early, Late
<1>10. \A q \in Op : StageInv(q)'
  BY <1>1, <1>9, Holder, AtRestNext
<1>. QED  BY <1>4, <1>5, <1>6, <1>7, <1>8, <1>10 DEF IInv

-----------------------------------------------------------------------------
(* The programs that use the database run while no operation works.        *)

LEMMA ServicesKeep ==
    ASSUME IInv, exclusive = None,
           (\E s \in Service : Open(s) \/ Close(s)) \/ Deploy
    PROVE  IInv'
<1>. USE DEF files
<1>1. \A q \in Op : pc[q] \in {"idle", "over"}
  BY Nobody
<1>2. /\ UNCHANGED <<source, files, pc, target, exclusive, installed>>
      /\ bytes' \in {bytes, None}
      /\ serving' \subseteq Service
      /\ image' \in Image
      /\ disturbed \subseteq disturbed' /\ disturbed' \subseteq Op
  BY DEF Open, Close, Deploy, IInv, TypeOK, OpenReceipts
<1>3. TypeOK' /\ LockInv'
  BY <1>1, <1>2 DEF IInv, TypeOK, LockInv, Working
<1>4. \A p \in Op : ReceiptInv(p)'
  BY <1>2 DEF IInv, ReceiptInv
<1>5. OpenReceipts' = OpenReceipts
  BY <1>2 DEF OpenReceipts
<1>6. OnePending' /\ ReceiptsTruthful'
  BY <1>2, <1>5 DEF IInv, OnePending, ReceiptsTruthful
<1>7. FileInv'
  <2>1. ASSUME NEW p \in OpenReceipts \ disturbed'
        PROVE  /\ p \in OpenReceipts \ disturbed
               /\ image' = image
               /\ p \in installed => bytes' = bytes
    BY <2>1, <1>2 DEF Open, Close, Deploy, IsCandidate, IInv, FileInv
  <2>. QED  BY <2>1, <1>2, <1>5 DEF IInv, FileInv
<1>8. \A q \in Op : StageInv(q)'
  BY <1>1, <1>2, AtRestNext
<1>. QED  BY <1>3, <1>4, <1>6, <1>7, <1>8 DEF IInv

LEMMA Written ==
    ASSUME source \in Content, ServiceWrites \/ OldImageWrites
    PROVE  \E d \in Content : Changed(d) /\ ~Differ(d, source)
  BY WrittenContent DEF ServiceWrites, OldImageWrites

LEMMA WritesKeep ==
    ASSUME IInv, ServiceWrites \/ OldImageWrites
    PROVE  IInv'
<1>. USE DEF files
<1>1. PICK d \in Content : Changed(d) /\ ~Differ(d, source)
  BY Written DEF IInv, TypeOK
<1>2. /\ source' = d /\ bytes' = None
      /\ disturbed' = disturbed \cup OpenReceipts
      /\ UNCHANGED <<files, pc, target, exclusive, serving, image, installed>>
  BY <1>1 DEF Changed
<1>3. exclusive = None
  BY DEF ServiceWrites, OldImageWrites, IInv, LockInv
<1>4. \A q \in Op : pc[q] \in {"idle", "over"}
  BY <1>3, Nobody
<1>5. OpenReceipts' = OpenReceipts /\ OpenReceipts \subseteq Op
  BY <1>2 DEF OpenReceipts
<1>6. TypeOK' /\ LockInv'
  BY <1>2, <1>4, <1>5 DEF IInv, TypeOK, LockInv, Working
<1>7. \A p \in Op : ReceiptInv(p)'
  BY <1>2 DEF IInv, ReceiptInv
<1>8. OnePending' /\ ReceiptsTruthful'
  BY <1>2, <1>5 DEF IInv, OnePending, ReceiptsTruthful
<1>9. FileInv'
  BY <1>1, <1>2, <1>5 DEF IInv, FileInv, Differ
<1>10. \A q \in Op : StageInv(q)'
  BY <1>2, <1>4, AtRestNext
<1>. QED  BY <1>6, <1>7, <1>8, <1>9, <1>10 DEF IInv

-----------------------------------------------------------------------------
(* The theorems *)

LEMMA InitHolds == Init => IInv
<1>. SUFFICES ASSUME Init PROVE IInv
  OBVIOUS
<1>. USE DEF Init
<1>1. NoReceipt \in Receipt
  BY DEF NoReceipt, Receipt, Status
<1>2. OpenReceipts = {}
  BY DEF OpenReceipts, OpenStatus, NoReceipt
<1>3. 1 \in Image
  BY ImageAssumption DEF Image
<1>4. TypeOK
  BY <1>1, <1>3, FirstContents DEF TypeOK, Receipt
<1>5. LockInv
  BY DEF LockInv, Working
<1>6. \A p \in Op : ReceiptInv(p) /\ StageInv(p)
  BY AtRest DEF ReceiptInv, NoReceipt
<1>7. FileInv /\ OnePending
  BY <1>2 DEF FileInv, OnePending
<1>8. ReceiptsTruthful
  BY DEF ReceiptsTruthful, NoReceipt
<1>. QED  BY <1>4, <1>5, <1>6, <1>7, <1>8 DEF IInv

LEMMA StepKeeps == IInv /\ [Next]_vars => IInv'
<1>. SUFFICES ASSUME IInv, [Next]_vars PROVE IInv'
  OBVIOUS
<1>1. CASE UNCHANGED vars
  BY <1>1 DEF vars, files, IInv, TypeOK, LockInv, Working, ReceiptInv, FileInv, StageInv,
              OnePending, ReceiptsTruthful, OpenReceipts, Product, Applies, Current, Known
<1>2. ASSUME NEW o \in Op,
             \/ Begin(o) \/ RecoverReplaced(o) \/ RecoverAbandoned(o) \/ RecoverBlocked(o)
             \/ Recovered(o) \/ Refuse(o) \/ Accept(o) \/ BackUp(o) \/ Migrate(o)
             \/ Rebuild(o) \/ DryRun(o) \/ BackUpReplaced(o) \/ Prepare(o)
             \/ Checkpoint(o) \/ Replace(o) \/ Finish(o) \/ Fail(o) \/ Crash(o)
      PROVE  IInv'
  BY <1>2, BeginKeeps, EndingsKeep, RecoveryKeeps, FinishKeeps, RecoveredKeeps,
     BuildingKeeps, PrepareKeeps, CheckpointKeeps, ReplaceKeeps
<1>3. CASE (\E s \in Service : Open(s) \/ Close(s)) \/ Deploy
  <2>1. exclusive = None
    BY <1>3 DEF Open, Close, Deploy, IInv, LockInv
  <2>. QED  BY <1>3, <2>1, ServicesKeep
<1>4. CASE ServiceWrites \/ OldImageWrites
  BY <1>4, WritesKeep
<1>. QED  BY <1>1, <1>2, <1>3, <1>4 DEF Next

LEMMA InvariantHolds == Spec => []IInv
  BY InitHolds, StepKeeps, PTL DEF Spec

(* Every variable keeps its kind, whatever fails and whenever. *)
THEOREM BootstrapTyped == Spec => []TypeOK
<1>1. IInv => TypeOK
  BY DEF IInv
<1>. QED  BY <1>1, InvariantHolds, PTL

(* At most one receipt is open, over any number of operations and crashes.  *)
THEOREM OneReceiptOpen == Spec => []OnePending
<1>1. IInv => OnePending
  BY DEF IInv
<1>. QED  BY <1>1, InvariantHolds, PTL

(* A settled receipt tells what happened to the database, although the      *)
(* operation that settled it saw no more than the files.                    *)
THEOREM ReceiptsTell == Spec => []ReceiptsTruthful
<1>1. IInv => ReceiptsTruthful
  BY DEF IInv
<1>. QED  BY <1>1, InvariantHolds, PTL

(* A crash at any step leaves a receipt the next operation can settle,      *)
(* unless the database or the image has been changed in between.            *)
THEOREM CrashesAreDecided == Spec => []RecoveryDecides
<1>1. ASSUME IInv, NEW p \in OpenReceipts \ disturbed PROVE ~Undecided(p)
  <2>1. p \in installed => ~(~IsCandidate(p) /\ ~IsOriginal(p)) /\ IsCandidate(p)
    BY <1>1 DEF IInv, FileInv, IsCandidate
  <2>2. p \notin installed => IsOriginal(p) /\ ~IsCandidate(p)
    BY <1>1, NoneAssumption DEF IInv, FileInv, IsOriginal, IsCandidate, OpenReceipts
  <2>3. p \in installed => IF receipt[p].status = "prepared"
                           THEN Current(source, image) ELSE Known(source, image)
    BY <1>1 DEF IInv, FileInv
  <2>. QED  BY <2>1, <2>2, <2>3 DEF Undecided
<1>2. IInv => RecoveryDecides
  BY <1>1 DEF RecoveryDecides
<1>. QED  BY <1>2, InvariantHolds, PTL

-----------------------------------------------------------------------------
(* The refinement *)

(* Both speak of the same contents. *)
LEMMA SameContents ==
    /\ Promise!FirstContent = FirstContent
    /\ Promise!Legacy = Legacy
    /\ Promise!Image = Image
    /\ \A d, i : Promise!Migrated(d, i) = Migrated(d, i) /\ Promise!Current(d, i) = Current(d, i)
  BY DEF Promise!FirstContent, Promise!Fresh, Promise!Legacy, Promise!Head, Promise!Image,
         Promise!Migrated, Promise!Current,
         FirstContent, Fresh, Legacy, Head, Image, Migrated, Current

LEMMA InitMaps == Init => Promise!Init
  BY SameContents DEF Init, Promise!Init

LEMMA BackUpsKept ==
    ASSUME IInv, UNCHANGED installed, \A q \in installed : backup'[q] = backup[q]
    PROVE  {backup[q] : q \in installed}' = {backup[q] : q \in installed}
  OBVIOUS

LEMMA ReplaceMaps ==
    ASSUME IInv, NEW o \in Op, Replace(o)
    PROVE  Promise!Replace
<1>1. /\ serving = {} /\ source.active = {} /\ serving' = serving
      /\ backup[o] = source /\ source' = candidate[o]
      /\ target[o] = None => candidate[o] = Migrated(source, image)
      /\ target[o] # None => target[o] \in installed /\ candidate[o] = backup[target[o]]
      /\ image \in Image
  BY ReplaceFacts DEF Replace, IInv, TypeOK
<1>2. source' \in {Migrated(source, i) : i \in Image} \cup {backup[q] : q \in installed}
  BY <1>1
<1>3. {backup[q] : q \in installed}' = {backup[q] : q \in installed} \cup {source}
  BY <1>1 DEF Replace
<1>. QED  BY <1>1, <1>2, <1>3, SameContents DEF Promise!Replace

LEMMA WriteMaps ==
    ASSUME IInv, ServiceWrites \/ OldImageWrites
    PROVE  Promise!Write
<1>. source \in Content
  BY DEF IInv, TypeOK
<1>1. PICK r \in Row : Changed(AddJob(r)) \/ Changed(EndJob(r))
  BY DEF ServiceWrites, OldImageWrites
<1>2. /\ serving # {} \/ source.profile = Legacy
      /\ UNCHANGED <<serving, backup, installed>>
  BY <1>1 DEF ServiceWrites, OldImageWrites, Changed, files
<1>3. \E more, busy \in SUBSET Row :
          source' = [source EXCEPT !.rows = @ \cup more, !.active = busy]
  <2>1. source.rows \subseteq Row /\ source.active \subseteq Row
    BY ContentIsRecord
  <2>2. CASE Changed(AddJob(r))
    <3>1. source' = [source EXCEPT !.rows = @ \cup {r}, !.active = source.active \cup {r}]
      BY <2>2 DEF Changed, AddJob
    <3>. QED  BY <2>1, <3>1
  <2>3. CASE Changed(EndJob(r))
    <3>1. source' = [source EXCEPT !.rows = @ \cup {}, !.active = source.active \ {r}]
      BY <2>3 DEF Changed, EndJob, Content
    <3>. QED  BY <2>1, <3>1
  <2>. QED  BY <1>1, <2>2, <2>3
<1>4. {backup[q] : q \in installed}' = {backup[q] : q \in installed}
  BY <1>2
<1>. QED  BY <1>2, <1>3, <1>4, SameContents DEF Promise!Write

LEMMA OpenMaps ==
    ASSUME IInv, NEW s \in Service, Open(s) \/ Close(s)
    PROVE  Promise!Open(s) \/ Promise!Close(s)
<1>1. {backup[q] : q \in installed}' = {backup[q] : q \in installed}
  BY DEF Open, Close, files
<1>2. CASE Open(s)
  <2>1. \E i \in Image : Current(source, i)
    BY <1>2 DEF Open, IInv, TypeOK
  <2>. QED  BY <1>1, <1>2, <2>1, SameContents DEF Open, Promise!Open
<1>3. CASE Close(s)
  BY <1>1, <1>3 DEF Close, Promise!Close
<1>. QED  BY <1>2, <1>3

(* All the other steps leave the database, its users and what is kept.      *)
LEMMA StutterMaps ==
    ASSUME IInv, NEW o \in Op,
           \/ Begin(o) \/ RecoverReplaced(o) \/ RecoverAbandoned(o) \/ RecoverBlocked(o)
           \/ Recovered(o) \/ Refuse(o) \/ Accept(o) \/ BackUp(o) \/ Migrate(o)
           \/ Rebuild(o) \/ DryRun(o) \/ BackUpReplaced(o) \/ Prepare(o)
           \/ Checkpoint(o) \/ Finish(o) \/ Fail(o) \/ Crash(o)
    PROVE  UNCHANGED Promise!vars
<1>1. UNCHANGED <<source, serving, installed>>
  BY DEF Begin, RecoverReplaced, RecoverAbandoned, RecoverBlocked, Recovered, Refuse, Accept,
         BackUp, Migrate, Rebuild, DryRun, BackUpReplaced, Prepare, Checkpoint, Finish, Fail, Crash
<1>2. \A q \in installed : backup'[q] = backup[q]
  <2>1. CASE BackUp(o) \/ BackUpReplaced(o)
    <3>1. pc[o] \in Early /\ backup' = [backup EXCEPT ![o] = source]
      BY <2>1 DEF BackUp, BackUpReplaced, Step, Early
    <3>2. o \notin installed /\ backup \in [Op -> Content \cup {None}] /\ installed \subseteq Op
      BY <3>1 DEF IInv, ReceiptInv, TypeOK
    <3>. QED  BY <3>1, <3>2
  <2>2. CASE ~(BackUp(o) \/ BackUpReplaced(o))
    <3>1. backup' = backup
      BY <2>2 DEF Begin, RecoverReplaced, RecoverAbandoned, RecoverBlocked, Recovered, Refuse,
                  Accept, Migrate, Rebuild, DryRun, Prepare, Checkpoint, Finish, Fail, Crash, files
    <3>. QED  BY <3>1
  <2>. QED  BY <2>1, <2>2
<1>. QED  BY <1>1, <1>2, BackUpsKept DEF Promise!vars

LEMMA StepMaps == IInv /\ [Next]_vars => [Promise!Next]_(Promise!vars)
<1>. SUFFICES ASSUME IInv, [Next]_vars PROVE [Promise!Next]_(Promise!vars)
  OBVIOUS
<1>1. CASE UNCHANGED vars
  BY <1>1, BackUpsKept DEF vars, files, Promise!vars
<1>2. ASSUME NEW o \in Op,
             \/ Begin(o) \/ RecoverReplaced(o) \/ RecoverAbandoned(o) \/ RecoverBlocked(o)
             \/ Recovered(o) \/ Refuse(o) \/ Accept(o) \/ BackUp(o) \/ Migrate(o)
             \/ Rebuild(o) \/ DryRun(o) \/ BackUpReplaced(o) \/ Prepare(o)
             \/ Checkpoint(o) \/ Finish(o) \/ Fail(o) \/ Crash(o)
      PROVE  UNCHANGED Promise!vars
  BY <1>2, StutterMaps
<1>3. ASSUME NEW o \in Op, Replace(o) PROVE Promise!Next
  BY <1>3, ReplaceMaps DEF Promise!Next
<1>4. CASE ServiceWrites \/ OldImageWrites
  BY <1>4, WriteMaps DEF Promise!Next
<1>5. ASSUME NEW s \in Service, Open(s) \/ Close(s) PROVE Promise!Next
  BY <1>5, OpenMaps DEF Promise!Next
<1>6. CASE Deploy
  BY <1>6, BackUpsKept DEF Deploy, files, Promise!vars
<1>. QED  BY <1>1, <1>2, <1>3, <1>4, <1>5, <1>6 DEF Next

(* The bootstrap replaces the database only while nothing uses it, only by  *)
(* its own rows or by a database replaced before, and keeps all it replaces.*)
THEOREM BootstrapKeepsItsPromise == Spec => DatabasePromised
  BY InitMaps, InvariantHolds, StepMaps, PTL DEF Spec, DatabasePromised, Promise!Spec
==============================================================================
