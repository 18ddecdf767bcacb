-------------------------- MODULE MCEngineSupervisor --------------------------
(***************************************************************************)
(* An instance of EngineSupervisor for TLC: the endpoints of the protocol  *)
(* descriptors (HTTP; a stream protocol; SNMP; DNS over TCP and UDP).      *)
(***************************************************************************)
EXTENDS EngineSupervisor

MCLaunches == {<<"http">>, <<"stream">>, <<"datagram">>, <<"stream", "datagram">>}
=============================================================================
