--------------------------- MODULE DatabasePromise ---------------------------
(***************************************************************************)
(* What the schema bootstrap promises about the one SQLite database.       *)
(*                                                                         *)
(* The database is a single value.  Programs write to it; while none of    *)
(* them has it open and none of its jobs is active it may be replaced, by  *)
(* its own rows in a newer schema or by a database that was replaced       *)
(* before, and whatever is replaced is kept.  SchemaBootstrap implements   *)
(* this in ten steps of which any may fail or be the last.                 *)
(***************************************************************************)
EXTENDS DatabaseContent

CONSTANT Service

VARIABLES db,       \* the database in place
          kept,     \* the databases it replaced
          serving   \* the programs that have it open

vars == <<db, kept, serving>>

Init ==
    /\ db \in FirstContent
    /\ kept = {}
    /\ serving = {}

Open(s) ==
    /\ s \notin serving
    /\ \E i \in Image : Current(db, i)
    /\ serving' = serving \cup {s}
    /\ UNCHANGED <<db, kept>>

Close(s) ==
    /\ s \in serving
    /\ serving' = serving \ {s}
    /\ UNCHANGED <<db, kept>>

(* Rows are added, jobs become active and end; the schema stays.  The image *)
(* from before the bootstrap does this to a legacy database unseen.         *)
Write ==
    /\ serving # {} \/ db.profile = Legacy
    /\ \E more, busy \in SUBSET Row :
          db' = [db EXCEPT !.rows = @ \cup more, !.active = busy]
    /\ UNCHANGED <<kept, serving>>

Replace ==
    /\ serving = {}
    /\ db.active = {}
    /\ db' \in {Migrated(db, i) : i \in Image} \cup kept
    /\ kept' = kept \cup {db}
    /\ UNCHANGED serving

Next == Write \/ Replace \/ \E s \in Service : Open(s) \/ Close(s)

Spec == Init /\ [][Next]_vars
==============================================================================
