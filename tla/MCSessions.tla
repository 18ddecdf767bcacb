------------------------------ MODULE MCSessions ------------------------------
(***************************************************************************)
(* An instance of Sessions for TLC: three sets of SNMP values, one of them *)
(* with an OID that a rule may have and an answer cannot hold.             *)
(***************************************************************************)
EXTENDS Sessions

System == {<<1, 3, 1>>, <<1, 3, 3>>}

MCValues == {System, System \cup {<<1, 3>>, <<2, 1>>}, System \cup {<<1, 3, 1, 0>>, <<1, 40>>}}

MCQuestions == {<<0, 0>>, <<1, 3>>, <<1, 3, 1>>}
=============================================================================
