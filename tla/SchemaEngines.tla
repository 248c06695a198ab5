--------------------------- MODULE SchemaEngines ---------------------------
(***************************************************************************)
(* The reflection and the copy of a table on either engine, under the same *)
(* interference: what the caller of an adapter is promised "regardless of  *)
(* which engine is behind it" (ddbcore/adapter.rs 197-199).                *)
(***************************************************************************)
EXTENDS PgSchema

CONSTANT MyDefinitions    \* Definitions for the tables on MySQL

ASSUME MyDefinitionsAssumption ==
    /\ DOMAIN MyDefinitions = Tables
    /\ \A t \in Tables : \A d \in MyDefinitions[t] \ {Gone} : IsDefinition(d)

VARIABLES
    engine,       \* the engine behind the connection: "pg" or "my"
    comments

My == INSTANCE MySqlSchema WITH Definitions <- MyDefinitions, KeyedIdentity <- TRUE

engineVars == <<vars, comments, engine>>

OnPg == engine = "pg" /\ UNCHANGED <<comments, engine>>
OnMy == engine = "my" /\ UNCHANGED <<pgVars, engine>>

EnginesInit ==
    \/ engine = "pg" /\ Init /\ comments = <<>>
    \/ engine = "my" /\ My!Init /\ labels = <<>> /\ pending = <<>>

EnginesNext ==
    \/ OnPg /\ Next
    \/ OnMy /\ My!Next

\* The runtime drives the call; nothing is assumed of other callers.
EnginesSpec ==
    /\ EnginesInit /\ [][EnginesNext]_engineVars
    /\ WF_engineVars(OnPg /\ Reflect) /\ WF_engineVars(OnMy /\ My!Reflect)

-----------------------------------------------------------------------------

EnginesTypeOK ==
    /\ engine = "pg" => TypeOK
    /\ engine = "my" => My!TypeOK

\* What nobody changes during the call is reflected exactly on both engines,
\* but for enum types outside the search path (Postgres) and for checks and
\* sequences whose query fails (MySQL).
EitherIsExact ==
    /\ engine = "pg" => UntouchedIsExact
    /\ engine = "my" => My!UntouchedIsExact

\* The rendered statements are accepted by the engine they are for, and make
\* the table that was reflected.
EitherCopyIsIdentical ==
    /\ engine = "pg" => CopyIsIdentical
    /\ engine = "my" => My!CopyIsIdentical

\* A reflection ends on both engines, whatever is changed while it runs.
EitherReflectionEnds == (pc \in {"schemas", "enums", "list"}) ~> Ended
=============================================================================
