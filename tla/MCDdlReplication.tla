-------------------------- MODULE MCDdlReplication --------------------------
(* Model-checking instance of DdlReplication: two schemas, one table      *)
(* name, so that an unqualified CREATE lands in a schema chosen by the    *)
(* search_path.                                                           *)
EXTENDS DdlReplication

CONSTANTS s1, s2, t

(* search_paths with at most one user schema: empty (only pg_catalog),    *)
(* or one of the two schemas.                                             *)
MCSingleSchemaPaths == {<<>>, <<s1>>, <<s2>>}

(* Adds a search_path naming both schemas, e.g. SET search_path = s1, s2. *)
MCTwoSchemaPaths == MCSingleSchemaPaths \cup {<<s1, s2>>}

(* Table s1.t carries a user AFTER TRUNCATE trigger whose body runs       *)
(* TRUNCATE s2.t; its name sorts before pgactive's truncate_trigger.      *)
MCEarlyTruncateTrigger ==
    {[on |-> [schema |-> s1, name |-> t], target |-> [schema |-> s2, name |-> t],
      late |-> FALSE]}

(* The same trigger named so that it fires after pgactive's.              *)
MCLateTruncateTrigger ==
    {[on |-> [schema |-> s1, name |-> t], target |-> [schema |-> s2, name |-> t],
      late |-> TRUE]}

(* CREATE TABLE as typed by users: permanent only, or UNLOGGED as well.  *)
MCPermanent == {"permanent"}
MCWithUnlogged == {"permanent", "unlogged"}

=============================================================================
