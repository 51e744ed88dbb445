------------------------------ MODULE SyncRules ------------------------------
(***************************************************************************)
(* sync-rules.toml in pes-rules: parser.rs, validator.rs, template.rs and   *)
(* the pure parts of assigner.rs.  A query is what its text determines: a   *)
(* parameter query is the set of its $N placeholders, a data query the set *)
(* of its equality tests <<column, parameter>>.  A database value is        *)
(* [type, text]: "text" and "int8" columns can be read as a parameter,      *)
(* others cannot.                                                           *)
(***************************************************************************)
EXTENDS Integers, Sequences, FiniteSets

CONSTANTS
  BucketIds,    \* the names that match [a-z][a-z0-9_-]*
  SafeTexts     \* the texts that match [a-zA-Z0-9_-]{1,128}

Field(table, name, default) == IF name \in DOMAIN table THEN table[name] ELSE default

-----------------------------------------------------------------------------
(* Faulty variants of definitions below, named Bad...: each one is what an *)
(* easy mistake in the code would make of it, and breaks a property.       *)

\* The references of data queries are not checked.
BadValidDataReferences(rule) == TRUE

\* The partition is named by the rule alone.
BadParameterKey(parameters) == <<>>

\* Strict equality of JSON values.
BadScalarsEqual(a, b) == a = b

-----------------------------------------------------------------------------
(* parser.rs.                                                              *)

\* parse_sync_rules_str: a table that is left out is empty.
ParseSyncRules(doc) ==
  [id \in DOMAIN doc |->
     [id |-> id,
      parameters |-> Field(doc[id], "parameters", <<>>),
      parameter_queries |-> Field(doc[id], "parameter_queries", <<>>),
      data_queries |-> Field(doc[id], "data", <<>>)]]

-----------------------------------------------------------------------------
(* validator.rs.                                                           *)

Declared(rule) == {rule.parameters[i] : i \in DOMAIN rule.parameters}

\* Every {bucket_parameters.X} of a data query.
References(query) == {test[2] : test \in query}

ValidParametersHaveQueries(rule) == Declared(rule) \subseteq DOMAIN rule.parameter_queries
ValidPlaceholders(rule) ==
  \A p \in DOMAIN rule.parameter_queries : rule.parameter_queries[p] = {1}
ValidDataReferences(rule) ==
  \A q \in DOMAIN rule.data_queries : References(rule.data_queries[q]) \subseteq Declared(rule)

Validate(rules) ==
  \A id \in DOMAIN rules :
    /\ id \in BucketIds
    /\ ValidParametersHaveQueries(rules[id])
    /\ ValidPlaceholders(rules[id])
    /\ ValidDataReferences(rules[id])

-----------------------------------------------------------------------------
(* template.rs and resolve_rule.                                           *)

ValidateSafeValue(text) == text \in SafeTexts

\* resolved_parameters.insert(): the value of one more parameter.
WithParameter(parameters, name, text) ==
  [p \in {name} \cup DOMAIN parameters |-> IF p = name THEN text ELSE parameters[p]]

\* What substitute() makes of a data query: its tests with the parameters'
\* values as text literals.  An unresolved reference or a value outside the
\* allowlist is an error.
CanSubstitute(query, parameters) ==
  \A p \in References(query) : p \in DOMAIN parameters /\ ValidateSafeValue(parameters[p])
Substitute(query, parameters) == {<<test[1], parameters[test[2]]>> : test \in query}

\* parameter_key: name=value pairs in the order of the names, which are those
\* of the rule; an allowlisted value holds no separator.
ParameterKey(parameters) == {<<p, parameters[p]>> : p \in DOMAIN parameters}

BucketAssignment(rule, parameters) ==
  [bucket_id |-> <<rule.id, ParameterKey(parameters)>>,
   rule_id |-> rule.id,
   parameters |-> parameters,
   data_queries |-> [q \in DOMAIN rule.data_queries |->
                       Substitute(rule.data_queries[q], parameters)]]

-----------------------------------------------------------------------------
(* find_affected_buckets.                                                  *)

\* json_scalars_equal: parameters are strings, a column may be a number.
ScalarsEqual(a, b) == a = b \/ ({a.type, b.type} = {"text", "int8"} /\ a.text = b.text)

\* row_matches_assignment: any parameter equals any column.
RowMatches(row, assignment) ==
  \E p \in DOMAIN assignment.parameters, c \in DOMAIN row :
    ScalarsEqual([type |-> "text", text |-> assignment.parameters[p]], row[c])

\* What Postgres makes of a rendered data query, for the values of the columns
\* that it tests.
QuerySelects(query, columns) ==
  \A test \in query : test[1] \in DOMAIN columns /\ columns[test[1]].text = test[2]
=============================================================================
