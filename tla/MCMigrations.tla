---------------------------- MODULE MCMigrations ----------------------------
(***************************************************************************)
(* Rows in the tables that a revision alters or gives a required column.   *)
(***************************************************************************)
EXTENDS Migrations

MCFilled == {"user", "app", "users", "apps", "transfers", "app_covers",
             "app_archives", "user_profile_pictures", "carts"}
=============================================================================
