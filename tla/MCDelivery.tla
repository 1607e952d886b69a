------------------------------ MODULE MCDelivery ------------------------------
(* Delivery on a small instance: a name, one below it, a local one, a public  *)
(* and a private address.                                                     *)
EXTENDS Delivery

CONSTANTS a, b

MCNames == {<<"hooks", "com">>, <<"api", "hooks", "com">>, <<"localhost">>}
MCLocalNames == {<<"localhost">>}
MCAnswers == {<<>>, <<a>>, <<a, b>>}
MCLists ==
    LET exact == [wildcard |-> FALSE, name |-> <<"hooks", "com">>]
        below == [wildcard |-> TRUE, name |-> <<"hooks", "com">>]
    IN  {{exact}, {exact, below}}
=============================================================================
