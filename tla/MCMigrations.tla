---------------------------- MODULE MCMigrations ----------------------------
(* Migrations needs no definitions of its own to be checked.               *)
EXTENDS Migrations
=============================================================================
