---------------------------- MODULE MCWsSession ----------------------------
(* Instances of WsSession: what a login reports, and the symmetry of the   *)
(* reporting tasks.                                                        *)
EXTENDS WsSession, TLC

TwoReports == <<"power", "mode">>
OneReport  == <<"power">>

Interchangeable == Permutations(Reporter)

=============================================================================
