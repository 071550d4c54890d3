---------------------------- MODULE ResultMasking ----------------------------
(***************************************************************************)
(* How a value that a rule calls PII is kept from leaving the database     *)
(* proxy: the guard looks at the statement and at a snapshot of the        *)
(* schema, refuses what could not be masked, and the result is masked      *)
(* column by column, with the snapshot as it is by then.  The schema       *)
(* changes while the snapshot is in use.                                   *)
(*                                                                         *)
(* A statement is what the guard tells apart: the relations it touches and *)
(* one item of its select list, which may name the column as a derived     *)
(* table or a CTE renames it.  A string of several statements is one       *)
(* statement that touches them all, for that is how it is judged.          *)
(* PostgreSQL is external: it gives a result column the relation it came   *)
(* from, unless it was computed or went through a set operation.           *)
(***************************************************************************)
EXTENDS FiniteSets

CONSTANT Aliases   \* names a select list may give its columns

VARIABLES
  schema,     \* the columns of each relation, none if it does not exist
  snapshot,   \* catalogs[conn]: is there one, its schema, its age, was it kept on an error
  settings,   \* the connection's rules, StrictAll and SafeRelations
  query       \* the statement: its text, where it is, what the guard and the mask said

maskingVars == <<schema, snapshot, settings, query>>

Relations == {"users", "orders", "recent"}   \* a table, a table, a view
Columns == {"id", "email"}
Views == {"recent"}

Masks == [table : Relations \cup {"any"}, column : Columns, masks : BOOLEAN]
Forms == {"column", "star", "row", "count", "lower", "json", "subquery", "constant"}
Ages == {"under 5 s", "under 1 min", "older"}

\* `derived`: what a derived table or a CTE calls the column, if it is read through one,
\* and `name`: what the result calls it; the other forms come out the same with either.
Texts ==
  {q \in [from : Relations, others : SUBSET {"users"}, form : Forms, column : Columns,
          derived : {"no"} \cup Columns \cup Aliases, name : {"own"} \cup Aliases, setOp : BOOLEAN,
          node : {"plain", "trips", "blocked", "custom function"}] :
     /\ q.from \notin q.others
     /\ q.derived # "no" \/ q.name # "own" => q.form \in {"column", "lower"}
     /\ q.form \in {"column", "lower", "json", "subquery"} \/ q.column = "id"
     /\ q.node # "plain" => q.form = "constant"}

\* The name a select list reads the column by.
Written(q) == IF q.derived = "no" THEN q.column ELSE q.derived

NoQuery == [at |-> "none", excused |-> {}, masked |-> {}]

MaskingTypeOK ==
  /\ schema \in [Relations -> SUBSET Columns]
  /\ snapshot \in [known : BOOLEAN, schema : [Relations -> SUBSET Columns], age : Ages, kept : BOOLEAN]
  /\ settings \in [rules : SUBSET Masks, strictAll : BOOLEAN, safe : SUBSET Relations, gated : BOOLEAN]
  /\ query.at \in {"none", "checking", "allowed", "sent"}

Empty == [r \in Relations |-> {}]
NoSnapshot == [known |-> FALSE, schema |-> Empty, age |-> "older", kept |-> FALSE]

Mask(t, m) == [table |-> t, column |-> "email", masks |-> m]

MaskingInit ==
  /\ schema \in {[users |-> Columns, orders |-> {"id"}, recent |-> {}],
                 [users |-> Columns, orders |-> {"id"}, recent |-> Columns]}
  /\ snapshot = NoSnapshot
  /\ settings \in [rules : {{Mask("any", TRUE)}, {Mask("users", TRUE)},
                            {Mask("any", TRUE), Mask("orders", FALSE)}},
                   strictAll : BOOLEAN, safe : {{}, {"orders"}}, gated : BOOLEAN]
  /\ query = NoQuery

----------------------------------------------------------------------------
(* policy.Policy *)

RulesFor(t, c) == {m \in settings.rules : m.table = t /\ m.column = c}

\* A rule for the table decides; else one for the column in every table.
ActionForOrigin(r, c) ==
  IF RulesFor(r, c) # {} THEN \E m \in RulesFor(r, c) : m.masks
  ELSE \E m \in RulesFor("any", c) : m.masks

\* The most restrictive rule by the name of a column, whatever its table.
ActionFor(name) == \E m \in settings.rules : m.column = name /\ m.masks

----------------------------------------------------------------------------
(* guard.Check, with the catalog cat *)

relationIsStrict(cat, r) ==
  /\ r \notin settings.safe
  /\ settings.strictAll \/ r \in Views \/ \E c \in cat.schema[r] : ActionForOrigin(r, c)

Touched(q) == {q.from} \cup q.others
Unknown(cat, q) == {r \in Touched(q) : cat.known /\ cat.schema[r] = {}}

Strict(cat, q) == ~cat.known \/ \E r \in Touched(q) \ Unknown(cat, q) : relationIsStrict(cat, r)

protected(cat, q) ==
  {c \in Columns : ActionFor(c)}
    \cup {c \in Columns : \E r \in Touched(q) : c \in cat.schema[r] /\ ActionForOrigin(r, c)}

\* Mutant: a plain column may go through a set operation.
TargetComputed(cat, q) ==
  CASE q.form \in {"column", "constant", "count"} -> FALSE
    [] q.form = "star"  -> q.setOp
    [] q.form = "lower" -> Written(q) \in protected(cat, q)
    [] OTHER            -> TRUE

\* strictChecks: whole rows, what a set operation would hide, and computed results.
\* isProtectedRef looks at the name as written, not at the column behind it.
TargetRefused(cat, q) ==
  CASE q.form = "column"                 -> q.setOp /\ Written(q) \in protected(cat, q)
    [] q.form = "star"                   -> q.setOp
    [] q.form \in {"constant", "count"}  -> FALSE
    [] q.form = "lower"                  -> Written(q) \in protected(cat, q)
    [] OTHER                             -> TRUE

Severity(cat, q) ==
  CASE q.node = "trips" -> "trip"
    [] q.node = "blocked" -> "block"
    [] Strict(cat, q) /\ (TargetRefused(cat, q) \/ q.node = "custom function") -> "block"
    [] ~Strict(cat, q) /\ q.node = "custom function" /\ ~settings.gated -> "block"
    [] OTHER -> "allow"

----------------------------------------------------------------------------
(* The schema cache *)

Fresh == [known |-> TRUE, schema |-> schema, age |-> "under 5 s", kept |-> FALSE]

\* catalogFor: a young snapshot, a new one, or the old one if the schema cannot be read.
CatalogFor(young) ==
  IF snapshot.known /\ snapshot.age \in young THEN {snapshot}
  ELSE {Fresh, IF snapshot.known THEN [snapshot EXCEPT !.kept = TRUE] ELSE NoSnapshot}

\* Relations whose schema the snapshot has wrong in a way the guard does not look for:
\* a relation it does not know sends it back unless the snapshot is new or was kept.
Excused(cat) == {r \in Relations : cat.known /\ cat.schema[r] # schema[r]
                   /\ (cat.schema[r] # {} \/ cat.age = "under 5 s" \/ cat.kept)}

----------------------------------------------------------------------------
(* A statement *)

SendStatement ==
  /\ query.at = "none"
  /\ \E q \in Texts :
       /\ schema[q.from] # {}
       /\ query' = [at |-> "checking", text |-> q, excused |-> {}, masked |-> {}]
  /\ UNCHANGED <<schema, snapshot, settings>>

\* check and allowed: a relation the snapshot does not know sends it back to the schema.
CheckStatement ==
  /\ query.at = "checking"
  /\ \E first \in CatalogFor({"under 5 s", "under 1 min"}) :
       LET stored == IF first.known THEN first ELSE snapshot
       IN \E cat \in IF Unknown(first, query.text) = {} \/ first.age = "under 5 s" THEN {first}
                     ELSE {Fresh, [first EXCEPT !.kept = TRUE]} :
            /\ snapshot' = IF cat.known THEN cat ELSE stored
            /\ query' = IF Severity(cat, query.text) = "allow"
                        THEN [query EXCEPT !.at = "allowed", !.excused = Excused(cat)]
                        ELSE NoQuery
  /\ UNCHANGED <<schema, settings>>

\* The columns of the result: where PostgreSQL says each came from, through a derived
\* table too, its name, and the column whose values it shows, if any.
Output(q, r, c, name) ==
  [origin |-> IF q.setOp THEN {} ELSE {<<r, c>>}, name |-> name, shows |-> {c}]

Computed(q, own, shows) ==
  {[origin |-> {}, name |-> IF q.name = "own" THEN own ELSE q.name, shows |-> shows]}

Result(q) ==
  CASE q.form = "column" -> IF q.column \notin schema[q.from] THEN {}
                            ELSE {Output(q, q.from, q.column, IF q.name = "own" THEN Written(q) ELSE q.name)}
    [] q.form = "star"   -> {Output(q, q.from, c, c) : c \in schema[q.from]}
    [] q.form = "row"    -> Computed(q, q.from, schema[q.from])
    [] q.form \in {"count", "constant"} -> Computed(q, q.form, {})
    [] OTHER -> Computed(q, q.form, {q.column} \cap schema[q.from])

\* actionForField: by the origin if the snapshot has it, else by the name.
actionForField(cat, out) ==
  LET known == {o \in out.origin : o[2] \in cat.schema[o[1]]}
  IN IF known # {} THEN \E o \in known : ActionForOrigin(o[1], o[2]) ELSE ActionFor(out.name)

\* streamResult: the statement runs, and every column is masked or not.
StreamResult ==
  /\ query.at = "allowed"
  /\ \E cat \in CatalogFor({"under 5 s", "under 1 min"}) :
       /\ snapshot' = IF cat.known THEN cat ELSE snapshot
       /\ query' = [query EXCEPT !.at = "sent",
                      !.excused = IF cat.known THEN @ ELSE Relations,
                      !.masked = {out \in Result(query.text) : actionForField(cat, out)}]
  /\ UNCHANGED <<schema, settings>>

NextStatement ==
  /\ query.at = "sent"
  /\ query' = NoQuery
  /\ UNCHANGED <<schema, snapshot, settings>>

----------------------------------------------------------------------------
(* Meanwhile *)

\* A migration creates the view, or adds the column; a result is not being sent.
ChangeSchema(r) ==
  /\ query.at # "sent"
  /\ schema[r] # Columns
  /\ schema' = [schema EXCEPT ![r] = Columns]
  /\ query' = [query EXCEPT !.excused = IF query.at = "allowed" THEN @ \cup {r} ELSE @]
  /\ UNCHANGED <<snapshot, settings>>

SnapshotAges ==
  /\ snapshot.known /\ snapshot.age # "older"
  /\ snapshot' = [snapshot EXCEPT !.age = IF @ = "under 5 s" THEN "under 1 min" ELSE "older"]
  /\ UNCHANGED <<schema, settings, query>>

MaskingNext ==
  \/ SendStatement \/ CheckStatement \/ StreamResult \/ NextStatement
  \/ \E r \in Relations : ChangeSchema(r)
  \/ SnapshotAges

MaskingSpec == MaskingInit /\ [][MaskingNext]_maskingVars

----------------------------------------------------------------------------
\* What the guard cannot see, though the package says that values "can only leave as
\* plain columns the proxy can mask": a column that a derived table has renamed to
\* something no rule names, then computed on or sent through a set operation.
RenamedAway(q) ==
  /\ q.derived \notin {"no", q.column} /\ ~ActionFor(q.derived)
  /\ q.setOp \/ q.form = "lower"

\* Whatever else the select list does with a column a rule masks, renamed plain columns
\* included, a result the agent receives shows it masked, with a snapshot as old as the
\* cache allows, unless the operator called the relation safe, its schema changed under
\* a snapshot that still covers it, or there was no schema to tell an alias by when the
\* result came.
PIILeavesMasked ==
  query.at = "sent" /\ query.text.from \notin settings.safe \cup query.excused
      /\ ~RenamedAway(query.text) =>
    \A out \in Result(query.text) \ query.masked :
      \A c \in out.shows : ~ActionForOrigin(query.text.from, c)
=============================================================================
