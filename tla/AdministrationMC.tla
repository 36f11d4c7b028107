-------------------------- MODULE AdministrationMC --------------------------
(***************************************************************************)
(* Two handlers and three requests about routes, about what is compiled,   *)
(* or about schemas.                                                       *)
(***************************************************************************)
EXTENDS Administration

Journey(name, realm, type, active, env) ==
    [rev |-> 0, name |-> name, realm |-> realm, type |-> type, active |-> active,
     confidential |-> FALSE, env |-> env]
At(rev, journey) == [journey EXCEPT !.rev = rev]

Save(id, journey) == [op |-> "save", id |-> id, journey |-> journey]
OnId(op, id) == [op |-> op, id |-> id]
InRealm(op, id, realm) == [op |-> op, id |-> id, realm |-> realm]
Route(name) == [op |-> "route", name |-> name]

Shop == Journey("shop", "a", "resource", TRUE, FALSE)
NoSchemas == [i \in Ids |-> None]

Routes ==
    [requests |-> {Save(0, Shop), Save(1, [Shop EXCEPT !.name = "a"]), Save(2, Shop),
                   Save(1, [Shop EXCEPT !.type = "auth"]), Save(2, [Shop EXCEPT !.realm = "b"]),
                   Save(1, [Shop EXCEPT !.confidential = TRUE]),
                   InRealm("delete", 1, "a"), InRealm("get", 2, "a"), Route("shop")},
     journeys |-> [i \in Ids |-> IF i = 1 THEN At(1, Shop)
                                 ELSE IF i = 2 THEN At(1, [Shop EXCEPT !.realm = "b"]) ELSE Absent],
     schemas |-> NoSchemas]

Login == Journey("login", "a", "auth", TRUE, TRUE)
Compiling ==
    [requests |-> {Save(1, Login), Save(1, [Login EXCEPT !.active = FALSE]), InRealm("invoke", 1, "a"),
                   InRealm("invoke", 2, "a"), InRealm("invoke", 1, "b"),
                   Save(1, [Login EXCEPT !.confidential = TRUE])},
     journeys |-> [i \in Ids |-> IF i = 1 THEN At(1, Login)
                                 ELSE IF i = 2 THEN At(1, [Login EXCEPT !.name = "a"]) ELSE Absent],
     schemas |-> NoSchemas]

Schemas ==
    [requests |-> {[op |-> "saveSchema", id |-> 1, body |-> 1], [op |-> "saveSchema", id |-> 1, body |-> 2],
                   [op |-> "saveSchema", id |-> 0, body |-> 2],
                   OnId("deleteSchema", 1), OnId("validate", 1)},
     journeys |-> [i \in Ids |-> Absent],
     schemas |-> [i \in Ids |-> IF i = 1 THEN 3 ELSE None]]

MCClients == {11, 12}
MCNames == {"shop", "a", "b", "login"}
\* Bodies 1 and 3 are versions of one schema.
MCSchemaName(body) == body % 2
MCMenus == {Routes, Compiling, Schemas}
=============================================================================
