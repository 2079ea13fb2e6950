---------------------------- MODULE MCMigrations ----------------------------
(***************************************************************************)
(* Small instances of Migrations for TLC: a release, its successor, and one *)
(* in which the second file was edited.                                    *)
(***************************************************************************)
EXTENDS Migrations

CONSTANTS f0, f1, f2, edited

ThreeReleases == {<<f0, f1>>, <<f0, f1, f2>>, <<f0, edited>>}
AllFiles == {f0, f1, f2, edited}
=============================================================================
