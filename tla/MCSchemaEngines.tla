-------------------------- MODULE MCSchemaEngines --------------------------
(* Values for the model checking of SchemaEngines. *)
EXTENDS SchemaEngines, MCPgSchema

\* On MySQL one foreign key of the child has an index of its own, the other has
\* not, and the identity column needs its key.
MyParent == [Parent EXCEPT !.columns = [id |-> "identity", code |-> "plain"]]

MyChild == [Blank EXCEPT
    !.columns = [id |-> "required", parent_id |-> "plain", twin |-> "required", other |-> "plain"],
    !.pk = {"id"},
    !.uniques = {[name |-> "twin_uq", columns |-> {"twin"}]},
    !.indexes = {[name |-> "parent_ix", columns |-> {"parent_id"}, unique |-> FALSE]},
    !.fks = {[name |-> "parent_fk", columns |-> {"parent_id"}, table |-> parent, refs |-> {"id"}],
             [name |-> "twin_fk", columns |-> {"other"}, table |-> child, refs |-> {"twin"}]},
    !.checks = {[name |-> "twin_ck", columns |-> {"twin"}]},
    !.triggers = {"audit"}]

MCMyDefinitions == [t \in MCTables |->
    IF t = parent THEN {MyParent, [MyParent EXCEPT !.uniques = {}], Gone}
                  ELSE {MyChild, [MyChild EXCEPT !.fks = {}, !.checks = {}], Gone}]
=============================================================================
