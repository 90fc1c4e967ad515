---------------------------- MODULE RegisterRows ----------------------------
(***************************************************************************)
(* What becomes of a row of a file of the register: the csv mappers and    *)
(* the geometry mappers of etl/transformers/address_mapper.py, the loop    *)
(* around them (_import_addresses, _build_point_lookup of full_import.py)  *)
(* and the NOT NULL columns of the tables.                                 *)
(***************************************************************************)
EXTENDS Naturals, Sequences, SequencesExt

\* A cell of a csv row: a number, another text, nothing between the separators,
\* None because the row is too short, or of a column the file does not have.
Cell == {"number", "text", "blank", "short", "missing"}

\* How a mapper reads a cell.  "int": int(row[c]).  "text", "any": row[c], for a
\* column that is NOT NULL and for one that is not.  "code": row.get(c, "").strip()
\* and int() of it unless empty.  "nonblank": the same strip(), where an empty text
\* means no row.  "get": row.get(c) or None.
Read(how, column) == [how |-> how, column |-> column]

Reads ==
  [counties |->
     <<Read("int", "ADM_KODAS"), Read("text", "VARDAS_K")>>,
   municipalities |->
     <<Read("int", "SAV_KODAS"), Read("int", "ADM_KODAS"), Read("text", "VARDAS_K"),
       Read("text", "TIPAS")>>,
   localities |->
     <<Read("int", "GYV_KODAS"), Read("int", "SAV_KODAS"), Read("text", "VARDAS"),
       Read("any", "VARDAS_K"), Read("text", "TIPAS"), Read("get", "TIPO_SANTRUMPA")>>,
   streets |->
     <<Read("int", "GAT_KODAS"), Read("int", "GYV_KODAS"), Read("text", "VARDAS_K"),
       Read("get", "TIPO_SANTRUMPA")>>,
   addresses |->
     <<Read("nonblank", "NR"), Read("int", "AOB_KODAS"), Read("code", "GAT_KODAS"),
       Read("int", "GYV_KODAS"), Read("text", "NR"), Read("get", "KORPUSO_NR"),
       Read("get", "PASTO_KODAS")>>]

CsvTable == DOMAIN Reads
Columns(t) == {Reads[t][i].column : i \in DOMAIN Reads[t]}

\* What reading a cell raises, "skip" for a row to leave out.
Error(how, cell) ==
  CASE how \in {"int", "text", "any"} /\ cell = "missing" -> "KeyError"
    [] how = "int" /\ cell = "short" -> "TypeError"
    [] how = "int" /\ cell \in {"text", "blank"} -> "ValueError"
    [] how = "code" /\ cell = "text" -> "ValueError"
    [] how \in {"code", "nonblank"} /\ cell = "short" -> "AttributeError"
    [] how = "nonblank" /\ cell \in {"blank", "missing"} -> "skip"
    [] OTHER -> "none"

\* Mutant: only a missing column is malformed.
CaughtKeys == {"KeyError"}

Caught == {"KeyError", "ValueError"}

\* The first error decides; a None in a NOT NULL column fails the statement.
RowOutcome(t, row) ==
  LET Raised(i) == Error(Reads[t][i].how, row[Reads[t][i].column])
      failing == {i \in DOMAIN Reads[t] : Raised(i) # "none"}
      null == \E i \in DOMAIN Reads[t] :
                Reads[t][i].how = "text" /\ row[Reads[t][i].column] = "short"
  IN
  IF failing = {} THEN (IF null THEN "aborts" ELSE "written")
  ELSE IF Raised(Min(failing)) \in Caught \cup {"skip"} THEN "skipped"
  ELSE "aborts"

\* What the last row of a file that was cut off may do: the cells after the cut
\* are short, and the file ends between two rows at best.
ReadsOfCut(t) ==
  {"written"} \cup
  {RowOutcome(t, [c \in Columns(t) |-> IF c \in gone THEN "short" ELSE "number"]) :
     gone \in SUBSET Columns(t)}

\* A GeoJSON feature: its properties and a code among them.
Properties == {"object", "null", "missing"}

FeatureError(properties, code) ==
  CASE properties = "missing" -> "KeyError"
    [] properties = "null" -> "TypeError"
    [] code = "missing" -> "KeyError"
    [] code = "short" -> "TypeError"
    [] code \in {"text", "blank"} -> "ValueError"
    [] OTHER -> "none"

\* map_locality_boundary, map_street_axis
GeometryOutcome(properties, code) ==
  IF FeatureError(properties, code) = "none" THEN "written"
  ELSE IF FeatureError(properties, code) \in Caught \cup {"TypeError"} THEN "skipped"
  ELSE "aborts"

\* _build_point_lookup reads the code with props.get(), which null does not have.
PointOutcome(properties, code) ==
  IF properties = "null" THEN "aborts"
  ELSE IF properties = "object" /\ code = "number" THEN "written"
  ELSE "skipped"

\* What may become of the rows of a file in which every row has all its columns,
\* whatever is in them: of a csv table, of a geometry table, of the points.
RowsOf(t) == {RowOutcome(t, row) : row \in [Columns(t) -> Cell \ {"short"}]}
CsvOutcomes == [t \in CsvTable |-> RowsOf(t)]
GeometryOutcomes == {GeometryOutcome(p, code) : p \in Properties, code \in Cell}
PointOutcomes == {PointOutcome(p, code) : p \in Properties \ {"null"}, code \in Cell}
=============================================================================
