---------------------------- MODULE MCMigrations ----------------------------
(* Values for the constants of Migrations.                                 *)
EXTENDS Migrations

CONSTANTS p1, p2, r1, r2, none

TwoProcesses == {p1, p2}
TheService == {p1}
TwoRows == {r1, r2}

=============================================================================
