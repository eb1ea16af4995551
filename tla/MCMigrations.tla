---------------------------- MODULE MCMigrations ----------------------------
(* Small instances of Migrations for TLC.                                   *)
EXTENDS Migrations
=============================================================================
