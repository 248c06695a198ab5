----------------------------- MODULE MCPgSchema -----------------------------
(* Values for the model checking of PgSchema: a parent and a child table. *)
EXTENDS PgSchema

CONSTANTS parent, child

MCTables == {parent, child}

MCGone == [gone |-> TRUE]

MCSchemas == <<"public", "sales">>

MCObjects == [views |-> {"totals"}, sequences |-> {"numbers"}, functions |-> {"stamp"}]

\* An enum type of the schema, and one of a schema outside the search path.
MCEnums ==
    "mood" :> [schema |-> "public", name |-> "mood", onPath |-> TRUE, qualified |-> "public.mood"]
    @@ "stage" :> [schema |-> "sales", name |-> "stage", onPath |-> FALSE, qualified |-> "sales.stage"]

\* The parent has a unique constraint, and a second definition without it.
Parent == [Blank EXCEPT
    !.columns = [id |-> "identity", code |-> "mood"], !.pk = {"id"},
    !.uniques = {[name |-> "code_uq", columns |-> {"code"}]},
    !.comment = {"a parent"}]

\* The child references the parent and itself, in its own unique constraint.
Child == [Blank EXCEPT
    !.columns = [id |-> "required", parent_id |-> "plain", twin |-> "plain", stage |-> "stage"],
    !.pk = {"id"},
    !.uniques = {[name |-> "twin_uq", columns |-> {"twin"}]},
    !.indexes = {[name |-> "parent_ix", columns |-> {"parent_id"}, unique |-> FALSE]},
    !.fks = {[name |-> "parent_fk", columns |-> {"parent_id"}, table |-> parent, refs |-> {"id"}],
             [name |-> "twin_fk", columns |-> {"id"}, table |-> child, refs |-> {"twin"}]},
    !.checks = {[name |-> "twin_ck", columns |-> {"twin"}]},
    !.triggers = {"audit"}]

MCDefinitions == [t \in MCTables |->
    IF t = parent THEN {Parent, [Parent EXCEPT !.uniques = {}], Gone}
                  ELSE {Child, [Child EXCEPT !.fks = {}, !.checks = {}], Gone}]

\* A unique index that is not a constraint, referenced by a foreign key.
Indexed == [Blank EXCEPT
    !.columns = [id |-> "required", code |-> "plain"], !.pk = {"id"},
    !.indexes = {[name |-> "code_ix", columns |-> {"code"}, unique |-> TRUE]}]

Referrer == [Blank EXCEPT
    !.columns = [code |-> "plain"],
    !.fks = {[name |-> "code_fk", columns |-> {"code"}, table |-> parent, refs |-> {"code"}]}]

MCIndexed == [t \in MCTables |-> IF t = parent THEN {Indexed} ELSE {Referrer, Gone}]
=============================================================================
