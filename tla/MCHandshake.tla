---------------------------- MODULE MCHandshake ------------------------------
(***************************************************************************)
(* The instance of Handshake for TLC: two rule sets that validate, with    *)
(* rules of no, one and two parameters, and one that does not for each     *)
(* check of the validator.                                                 *)
(***************************************************************************)
EXTENDS Handshake

CONSTANTS s1, s2, k1, k2

Text(x) == [type |-> "text", text |-> x]
Int8(x) == [type |-> "int8", text |-> x]

MCTokens == { [kid |-> k1, sub |-> s1, exp |-> 9, signed |-> TRUE],
              [kid |-> k2, sub |-> s2, exp |-> 1, signed |-> TRUE],
              [kid |-> None, sub |-> s2, exp |-> 9, signed |-> FALSE] }

MCValues == {Text("7"), Int8("8"), Text("unsafe")}
MCUsers == {[s \in Subs |-> [p \in Params |-> Text("7")]]}
Row(columns, refers) == [columns |-> columns, refers |-> refers]
MCRows == { Row([owner |-> Int8("7")], <<>>), Row([owner |-> Text("7")], <<>>),
            Row([owner |-> Int8("8")], <<>>),
            Row([entity |-> Text("3")], [entity_owner |-> Text("7")]) }

Own == [parameters |-> <<"user">>, parameter_queries |-> [user |-> {1}],
        data |-> [entities |-> {<<"owner", "user">>}, tags |-> {<<"entity_owner", "user">>}]]
Team == [parameters |-> <<"user", "team">>, parameter_queries |-> [user |-> {1}, team |-> {1}],
         data |-> [shared |-> {<<"owner", "team">>}]]

MCDocs == { [own |-> Own, public |-> [data |-> [entities |-> {}]]],
            [team |-> Team],
            [Own |-> Own],
            [own |-> [Own EXCEPT !.parameters = <<>>]],
            [own |-> [Own EXCEPT !.parameter_queries = [team |-> {1}]]],
            [own |-> [Own EXCEPT !.parameter_queries = [user |-> {1, 2}]]] }
=============================================================================
