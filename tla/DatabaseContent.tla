--------------------------- MODULE DatabaseContent ---------------------------
(***************************************************************************)
(* A SQLite database of this system, as far as its bootstrap tells one     *)
(* from another: the profile its schema is recognised as, whether the      *)
(* separately versioned SQLModel tables are recorded, its rows, and which  *)
(* of them are jobs in an active status.                                   *)
(***************************************************************************)
EXTENDS Naturals

CONSTANTS Row, LastImage

ASSUME ImageAssumption == LastImage \in Nat \ {0}

Image == 1 .. LastImage

Fresh == 0            \* no table at all
Legacy == 1           \* unversioned, one of the reviewed layouts
Head(i) == i + 1      \* the Alembic head that image i migrates to

Content == [profile: 0 .. Head(LastImage), component: BOOLEAN,
            rows: SUBSET Row, active: SUBSET Row]

(* inspect_schema_profile knows the heads of this image and before *)
Known(d, i) == d.profile <= Head(i)

(* assert_schema_current *)
Current(d, i) == d.profile = Head(i) /\ d.component

(* stamp, upgrade heads, create the SQLModel tables; no row is lost or made *)
Migrated(d, i) == [d EXCEPT !.profile = Head(i), !.component = TRUE]

(* What a bootstrap may find: nothing, a reviewed legacy layout, or a head  *)
(* of the first image without the SQLModel record.                          *)
FirstContent == {[profile |-> p, component |-> FALSE, rows |-> {}, active |-> {}] :
                    p \in {Fresh, Legacy, Head(1)}}
==============================================================================
