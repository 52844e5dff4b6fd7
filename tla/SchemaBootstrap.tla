--------------------------- MODULE SchemaBootstrap ---------------------------
(***************************************************************************)
(* Adoption and rollback of the SQLite database                            *)
(* (backend/app/schema_bootstrap.py, schema_cli.py).                       *)
(*                                                                         *)
(* An operation takes the exclusive schema lock, settles what an earlier   *)
(* operation left open, copies the database to a backup, builds a          *)
(* candidate beside it, writes a "prepared" receipt, renames the candidate *)
(* over the database and settles the receipt.  It can fail or be killed    *)
(* between any two of these steps.  The API, the workers and the runtime   *)
(* supervisor hold the lock shared while they run.                         *)
(*                                                                         *)
(* A file is its logical content plus `bytes`: the operation whose         *)
(* candidate it is to the byte, or None once anything else has written it  *)
(* (a program that opens the database switches it to WAL, a checkpoint     *)
(* moves pages).  Checksums compare bytes, _is_original_source compares    *)
(* contents.                                                               *)
(***************************************************************************)
EXTENDS DatabaseContent

CONSTANTS Op,       \* operation identifiers; one that made files is used up
          Service,  \* processes that hold the schema lock shared
          None

ASSUME NoneAssumption == None \notin Op /\ None \notin Content

VARIABLES source,    \* content of the database file
          bytes,     \* whose candidate the file is to the byte
          backup,    \* schema-backups, by operation
          candidate, \* candidates beside the source, by operation
          receipt,   \* schema-receipts, by operation
          pc,        \* where each operation stands
          target,    \* the adoption an operation takes back; None: it adopts
          exclusive, \* holder of the exclusive schema lock
          serving,   \* holders of the shared schema lock
          image,     \* the image whose code runs
          installed, \* history: operations whose candidate replaced the source
          disturbed  \* history: open receipts whose source others have changed since

files == <<backup, candidate, receipt>>
vars == <<source, bytes, files, pc, target, exclusive, serving, image, installed, disturbed>>

OpenStatus == {"prepared", "restore-prepared"}
Status == OpenStatus \cup {"none", "committed", "restored",
                           "abandoned-before-replacement", "restore-abandoned-before-replacement"}
NoReceipt == [status |-> "none", before |-> None, after |-> None]

(* receipts that _recover_prepared_receipts has to settle *)
OpenReceipts == {p \in Op : receipt[p].status \in OpenStatus}

Init ==
    /\ source \in FirstContent
    /\ bytes = None
    /\ backup = [o \in Op |-> None]
    /\ candidate = [o \in Op |-> None]
    /\ receipt = [o \in Op |-> NoReceipt]
    /\ pc = [o \in Op |-> "idle"]
    /\ target = [o \in Op |-> None]
    /\ exclusive = None
    /\ serving = {}
    /\ image = 1
    /\ installed = {}
    /\ disturbed = {}

-----------------------------------------------------------------------------
(* An operation *)

Step(o, from, to) == pc[o] = from /\ pc' = [pc EXCEPT ![o] = to]

(* The lock goes with the process: returned, raised or killed.  An          *)
(* operation that left no file may run again under the same identifier.     *)
Release(o) ==
    /\ exclusive' = None
    /\ pc' = [pc EXCEPT ![o] = IF pc[o] \in {"locked", "recovered", "copying", "rebuilding"}
                               THEN "idle" ELSE "over"]

\* Mutant: the exclusive lock does not exclude the shared ones.
CanLock_Exclusive == exclusive = None

CanLock == exclusive = None /\ serving = {}

(* adopt_legacy_database, or restore_database_backup with a committed       *)
(* receipt whose checksum its backup still has                              *)
Begin(o) ==
    /\ CanLock
    /\ Step(o, "idle", "locked")
    /\ \E t \in {None} \cup {p \in Op : receipt[p].status = "committed"} :
          target' = [target EXCEPT ![o] = t]
    /\ exclusive' = o
    /\ UNCHANGED <<source, bytes, files, serving, image, installed, disturbed>>

\* Mutant: the source is recognised by its row counts alone.
IsOriginal_ByRows(p) == Known(source, image) /\ source.rows = receipt[p].before.rows

(* _is_original_source *)
IsOriginal(p) == Known(source, image) /\ source = receipt[p].before

IsCandidate(p) == bytes = p

Settle(p, status) == receipt' = [receipt EXCEPT ![p].status = status]

(* _recover_prepared_receipts, one receipt: replaced, or not *)
RecoverReplaced(o) ==
    /\ pc[o] = "locked"
    /\ \E p \in OpenReceipts :
          /\ IsCandidate(p)
          /\ \/ /\ receipt[p].status = "prepared"
                /\ Current(source, image)
                /\ Settle(p, "committed")
             \/ /\ receipt[p].status = "restore-prepared"
                /\ Known(source, image)
                /\ Settle(p, "restored")
    /\ UNCHANGED <<source, bytes, backup, candidate, pc, target, exclusive, serving,
                   image, installed, disturbed>>

RecoverAbandoned(o) ==
    /\ pc[o] = "locked"
    /\ \E p \in OpenReceipts :
          /\ ~IsCandidate(p)
          /\ IsOriginal(p)
          /\ candidate' = [candidate EXCEPT ![p] = None]    \* quarantined
          /\ Settle(p, IF receipt[p].status = "prepared"
                       THEN "abandoned-before-replacement"
                       ELSE "restore-abandoned-before-replacement")
    /\ UNCHANGED <<source, bytes, backup, pc, target, exclusive, serving,
                   image, installed, disturbed>>

(* A receipt that can be settled neither way stops every operation here *)
Undecided(p) ==
    \/ /\ IsCandidate(p)
       /\ ~ IF receipt[p].status = "prepared" THEN Current(source, image) ELSE Known(source, image)
    \/ /\ ~IsCandidate(p)
       /\ ~IsOriginal(p)

RecoverBlocked(o) ==
    /\ pc[o] = "locked"
    /\ \E p \in OpenReceipts : Undecided(p)
    /\ Release(o)
    /\ UNCHANGED <<source, bytes, files, target, serving, image, installed, disturbed>>

\* Mutant: an operation does not wait for the receipts to be settled.
Recovered_Unsettled(o) ==
    /\ Step(o, "locked", "recovered")
    /\ UNCHANGED <<source, bytes, files, target, exclusive, serving, image, installed, disturbed>>

Recovered(o) ==
    /\ OpenReceipts = {}
    /\ Step(o, "locked", "recovered")
    /\ UNCHANGED <<source, bytes, files, target, exclusive, serving, image, installed, disturbed>>

(* _refuse_active_jobs *)
ActiveJobs == source.active # {}

(* The schema is one this operation applies to *)
Applies(o) ==
    IF target[o] = None
    THEN Known(source, image) /\ ~Current(source, image)
    ELSE /\ Current(source, image)
         /\ source.profile = receipt[target[o]].after.profile

Refuse(o) ==
    /\ pc[o] = "recovered"
    /\ ~Applies(o) \/ ActiveJobs
    /\ Release(o)
    /\ UNCHANGED <<source, bytes, files, target, serving, image, installed, disturbed>>

Accept(o) ==
    /\ Applies(o)
    /\ ~ActiveJobs
    /\ Step(o, "recovered", IF target[o] = None THEN "copying" ELSE "rebuilding")
    /\ UNCHANGED <<source, bytes, files, target, exclusive, serving, image, installed, disturbed>>

(* An adoption backs the database up and migrates a copy of the backup *)
BackUp(o) ==
    /\ Step(o, "copying", "backed-up")
    /\ backup' = [backup EXCEPT ![o] = source]
    /\ UNCHANGED <<source, bytes, candidate, receipt, target, exclusive, serving,
                   image, installed, disturbed>>

\* Mutant: the SQLModel tables are not recorded in the candidate.
Migrate_Unrecorded(o) ==
    /\ Step(o, "backed-up", "built")
    /\ candidate' = [candidate EXCEPT ![o] = [backup[o] EXCEPT !.profile = Head(image)]]
    /\ UNCHANGED <<source, bytes, backup, receipt, target, exclusive, serving,
                   image, installed, disturbed>>

Migrate(o) ==
    /\ Step(o, "backed-up", "built")
    /\ candidate' = [candidate EXCEPT ![o] = Migrated(backup[o], image)]
    /\ UNCHANGED <<source, bytes, backup, receipt, target, exclusive, serving,
                   image, installed, disturbed>>

(* A rollback copies the old backup, and then backs up what it replaces *)
Rebuild(o) ==
    /\ Step(o, "rebuilding", "rebuilt")
    /\ candidate' = [candidate EXCEPT ![o] = backup[target[o]]]
    /\ UNCHANGED <<source, bytes, backup, receipt, target, exclusive, serving,
                   image, installed, disturbed>>

DryRun(o) ==
    /\ pc[o] = "rebuilt"
    /\ candidate' = [candidate EXCEPT ![o] = None]
    /\ pc' = [pc EXCEPT ![o] = "idle"]
    /\ exclusive' = None
    /\ UNCHANGED <<source, bytes, backup, receipt, target, serving, image, installed, disturbed>>

BackUpReplaced(o) ==
    /\ Step(o, "rebuilt", "built")
    /\ backup' = [backup EXCEPT ![o] = source]
    /\ UNCHANGED <<source, bytes, candidate, receipt, target, exclusive, serving,
                   image, installed, disturbed>>

(* The receipt is durable before the source is touched *)
Prepare(o) ==
    /\ Step(o, "built", "prepared")
    /\ receipt' = [receipt EXCEPT ![o] =
          [status |-> IF target[o] = None THEN "prepared" ELSE "restore-prepared",
           before |-> source, after |-> candidate[o]]]
    /\ UNCHANGED <<source, bytes, backup, candidate, target, exclusive, serving,
                   image, installed, disturbed>>

\* Mutant: the sidecars are removed and the candidate with them.
Checkpoint_Sweeping(o) ==
    /\ Step(o, "prepared", "checkpointed")
    /\ bytes' = None
    /\ candidate' = [candidate EXCEPT ![o] = None]
    /\ UNCHANGED <<source, backup, receipt, target, exclusive, serving, image, installed, disturbed>>

Checkpoint(o) ==
    /\ Step(o, "prepared", "checkpointed")
    /\ bytes' = None
    /\ UNCHANGED <<source, files, target, exclusive, serving, image, installed, disturbed>>

Replace(o) ==
    /\ Step(o, "checkpointed", "replaced")
    /\ source' = candidate[o]
    /\ bytes' = o
    /\ candidate' = [candidate EXCEPT ![o] = None]
    /\ installed' = installed \cup {o}
    /\ UNCHANGED <<backup, receipt, target, exclusive, serving, image, disturbed>>

Finish(o) ==
    /\ pc[o] = "replaced"
    /\ IF target[o] = None THEN Current(source, image) ELSE Known(source, image)
    /\ Settle(o, IF target[o] = None THEN "committed" ELSE "restored")
    /\ Release(o)
    /\ UNCHANGED <<source, bytes, backup, candidate, target, serving, image, installed, disturbed>>

Working(o) == pc[o] \notin {"idle", "over"}

(* Any check or call raises: the finally clause removes the candidate *)
Fail(o) ==
    /\ Working(o)
    /\ candidate' = [candidate EXCEPT ![o] = None]
    /\ Release(o)
    /\ UNCHANGED <<source, bytes, backup, receipt, target, serving, image, installed, disturbed>>

(* The process is killed: what it had written stays *)
Crash(o) ==
    /\ Working(o)
    /\ Release(o)
    /\ UNCHANGED <<source, bytes, files, target, serving, image, installed, disturbed>>

-----------------------------------------------------------------------------
(* The programs that use the database *)

(* main_v2, worker and runtime_supervisor: lock, assert_schema_current, open *)
Open(s) ==
    /\ exclusive = None
    /\ s \notin serving
    /\ Current(source, image)
    /\ serving' = serving \cup {s}
    /\ bytes' = None
    /\ disturbed' = disturbed \cup {p \in OpenReceipts : IsCandidate(p)}
    /\ UNCHANGED <<source, files, pc, target, exclusive, image, installed>>

(* shutdown or crash, the lock goes with the process *)
Close(s) ==
    /\ s \in serving
    /\ serving' = serving \ {s}
    /\ UNCHANGED <<source, bytes, files, pc, target, exclusive, image, installed, disturbed>>

Changed(d) ==
    /\ source' = d
    /\ d # source
    /\ bytes' = None
    /\ disturbed' = disturbed \cup OpenReceipts
    /\ UNCHANGED <<files, pc, target, exclusive, serving, image, installed>>

AddJob(r) == [source EXCEPT !.rows = @ \cup {r}, !.active = @ \cup {r}]
EndJob(r) == [source EXCEPT !.active = @ \ {r}]

ServiceWrites ==
    /\ serving # {}
    /\ \E r \in Row : Changed(AddJob(r)) \/ Changed(EndJob(r))

(* The image from before the bootstrap takes no lock; the operator has      *)
(* stopped it before an operation starts (README.md, schema adoption).      *)
OldImageWrites ==
    /\ exclusive = None
    /\ source.profile = Legacy
    /\ \E r \in Row : Changed(AddJob(r)) \/ Changed(EndJob(r))

(* Another image is deployed while nothing runs *)
Deploy ==
    /\ exclusive = None
    /\ serving = {}
    /\ image' \in Image \ {image}
    /\ disturbed' = disturbed \cup OpenReceipts
    /\ UNCHANGED <<source, bytes, files, pc, target, exclusive, serving, installed>>

Next ==
    \/ \E o \in Op :
          \/ Begin(o) \/ RecoverReplaced(o) \/ RecoverAbandoned(o) \/ RecoverBlocked(o)
          \/ Recovered(o) \/ Refuse(o) \/ Accept(o) \/ BackUp(o) \/ Migrate(o)
          \/ Rebuild(o) \/ DryRun(o) \/ BackUpReplaced(o) \/ Prepare(o)
          \/ Checkpoint(o) \/ Replace(o) \/ Finish(o) \/ Fail(o) \/ Crash(o)
    \/ \E s \in Service : Open(s) \/ Close(s)
    \/ ServiceWrites
    \/ OldImageWrites
    \/ Deploy

Spec == Init /\ [][Next]_vars

-----------------------------------------------------------------------------
(* Properties *)

(* Every variable keeps its kind. *)
TypeOK ==
    /\ source \in Content
    /\ bytes \in Op \cup {None}
    /\ backup \in [Op -> Content \cup {None}]
    /\ candidate \in [Op -> Content \cup {None}]
    /\ receipt \in [Op -> [status : Status, before : Content \cup {None},
                           after : Content \cup {None}]]
    /\ pc \in [Op -> {"idle", "locked", "recovered", "copying", "backed-up", "rebuilding",
                      "rebuilt", "built", "prepared", "checkpointed", "replaced", "over"}]
    /\ target \in [Op -> Op \cup {None}]
    /\ exclusive \in Op \cup {None}
    /\ serving \subseteq Service
    /\ image \in Image
    /\ installed \subseteq Op
    /\ disturbed \subseteq Op

(* However operations fail and whenever they are killed, at most one        *)
(* receipt is ever open: recovery runs before an operation writes its own,  *)
(* and lets nothing pass that it could not settle                           *)
(* (_recover_prepared_receipts).                                            *)
OnePending == \A p, q \in OpenReceipts : p = q

(* A receipt never says what did not happen: one settled as committed or    *)
(* restored is of an operation that replaced the database, an abandoned one *)
(* of an operation that did not, although recovery has only the files to    *)
(* tell the two apart by.                                                   *)
ReceiptsTruthful ==
    \A p \in Op :
        /\ receipt[p].status \in {"committed", "restored"} => p \in installed
        /\ receipt[p].status \in {"abandoned-before-replacement",
                                  "restore-abandoned-before-replacement"} => p \notin installed

(* A crash between any two steps leaves a state recovery can settle: as     *)
(* long as no program has changed the database and no other image was       *)
(* deployed since, an open receipt matches the source as the candidate it   *)
(* names or as the original it replaces.                                    *)
RecoveryDecides == \A p \in OpenReceipts \ disturbed : ~Undecided(p)

(* The bootstrap implements DatabasePromise: the database is replaced only  *)
(* while no program has it open and no job of it is active, by its own rows *)
(* migrated or by a database replaced before, and whatever was replaced is  *)
(* kept as the backup of the operation that replaced it.                    *)
Promise == INSTANCE DatabasePromise WITH
    db <- source,
    kept <- {backup[o] : o \in installed},
    serving <- serving

DatabasePromised == Promise!Spec
==============================================================================
