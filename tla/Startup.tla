------------------------------- MODULE Startup -------------------------------
(***************************************************************************)
(* A container of the service from its start to its first answer: the      *)
(* entry-point scripts (src/docker-entrypoint.sh for the profile, staging  *)
(* and production images, src/docker-entrypoint.dev.sh for development),   *)
(* the seed (src/prisma/seed/seed.ts) and bootstrap (src/src/main.ts).     *)
(* Both scripts have set -e.  A container that exited may be started again; *)
(* the compose files have Docker do it, but run docker-entrypoint.sh: for  *)
(* the development script nothing in the repository does.                  *)
(***************************************************************************)
EXTENDS Integers

CONSTANTS
  Images,     \* "dev" and "prod"
  RoleNames,  \* the roles of the seed
  WaitRounds,    \* rounds of the wait for the database: 30, of 2 seconds
  MaxFaults   \* BOUND: failed commands and stops of the container

ASSUME StartupAssumption ==
  /\ Images \subseteq {"dev", "prod"} /\ WaitRounds \in Nat \ {0} /\ MaxFaults \in Nat

VARIABLES
  image,       \* what the container runs
  boot,        \* the command the script is at
  rounds,      \* counter / 2
  db,          \* the database takes connections
  migrations,  \* its _prisma_migrations table
  roleTable,   \* names in the roles table
  todo,        \* roles the running seed has still to insert
  came,        \* history: the last message of success in this boot
  faults       \* history: failed commands and stops

startupVars == <<image, boot, rounds, db, migrations, roleTable, todo, came, faults>>
tables == <<migrations, roleTable>>

Commands == {"wait", "migrate", "generate", "seed", "proto", "app"}

StartupInit ==
  /\ image \in Images /\ boot = "off" /\ rounds = 0
  /\ db \in BOOLEAN /\ migrations = "pending" /\ roleTable = {} /\ todo = {}
  /\ came = "nothing" /\ faults = 0

Goto(command, message) == boot' = command /\ came' = message

(* docker compose up, or run.                                              *)
Boot(from) ==
  /\ boot = from
  /\ Goto("wait", "nothing")
  /\ rounds' = 0 /\ todo' = {}
  /\ UNCHANGED <<image, db, tables, faults>>

(* The restart policy of the compose files, or somebody.                   *)
Restart == Boot("exited")

(* Postgres, which the container does not wait for, and which stays.       *)
DatabaseUp ==
  /\ ~db /\ db' = TRUE
  /\ UNCHANGED <<image, boot, rounds, tables, todo, came, faults>>

(* until check_db || [ $counter -eq $timeout ]: a check that succeeds in   *)
(* the last round is taken for a timeout.                                  *)
CheckDb ==
  /\ boot = "wait"
  /\ IF db /\ rounds < WaitRounds THEN Goto("migrate", "database") /\ UNCHANGED rounds
     ELSE IF rounds < WaitRounds THEN rounds' = rounds + 1 /\ UNCHANGED <<boot, came>>
     ELSE Goto("exited", "timeout") /\ UNCHANGED rounds
  /\ UNCHANGED <<image, db, tables, todo, faults>>

(* prisma migrate deploy (external): a migration is noted as begun, then   *)
(* as finished; one that was left begun is not tried again, the command    *)
(* fails until somebody resolves it.                                       *)
MigrateBegin ==
  /\ boot = "migrate" /\ migrations = "pending"
  /\ migrations' = "begun"
  /\ boot' = "migrating"
  /\ UNCHANGED <<image, rounds, db, roleTable, todo, came, faults>>

Migrated == IF image = "dev" THEN "generate" ELSE "seed"

MigrateDone ==
  /\ \/ boot = "migrating"
     \/ boot = "migrate" /\ migrations = "done"
  /\ migrations' = "done"
  /\ Goto(Migrated, "migrations")
  /\ todo' = IF Migrated = "seed" THEN RoleNames ELSE todo
  /\ UNCHANGED <<image, rounds, db, roleTable, faults>>

MigrateRefused ==
  /\ boot = "migrate" /\ migrations = "begun"
  /\ Goto("exited", came)
  /\ UNCHANGED <<image, rounds, db, tables, todo, faults>>

Generate ==
  /\ boot = "generate"
  /\ Goto("seed", "client")
  /\ todo' = RoleNames
  /\ UNCHANGED <<image, rounds, db, tables, faults>>

Seeded == IF image = "dev" THEN "app" ELSE "proto"

(* Mutation: the seed stops after a role that is there already. *)
SeedRoleKnown(name) ==
  /\ boot = "seed" /\ name \in todo
  /\ roleTable' = roleTable \cup {name}
  /\ todo' = IF name \in roleTable THEN {} ELSE todo \ {name}
  /\ IF todo' = {} THEN Goto(Seeded, "seed") ELSE UNCHANGED <<boot, came>>
  /\ UNCHANGED <<image, rounds, db, migrations, faults>>

(* Mutation: create instead of upsert. *)
SeedRoleCreate(name) ==
  /\ boot = "seed" /\ name \in todo
  /\ IF name \in roleTable THEN Goto("exited", came) /\ UNCHANGED <<roleTable, todo>>
     ELSE /\ roleTable' = roleTable \cup {name} /\ todo' = todo \ {name}
          /\ IF todo' = {} THEN Goto(Seeded, "seed") ELSE UNCHANGED <<boot, came>>
  /\ UNCHANGED <<image, rounds, db, migrations, faults>>

(* One upsert per role, which leaves a role that is there as it is.        *)
SeedRole(name) ==
  /\ boot = "seed" /\ name \in todo
  /\ roleTable' = roleTable \cup {name} /\ todo' = todo \ {name}
  /\ IF todo' = {} THEN Goto(Seeded, "seed") ELSE UNCHANGED <<boot, came>>
  /\ UNCHANGED <<image, rounds, db, migrations, faults>>

(* "RUN npm run proto:build-all": RUN is no command of the shell, and      *)
(* nothing of the script after this line is ever reached.                  *)
ProtoUpdate ==
  /\ boot = "proto"
  /\ Goto("exited", came)
  /\ UNCHANGED <<image, rounds, db, tables, todo, faults>>

(* bootstrap connects to the database and listens.                         *)
StartApp ==
  /\ boot = "app"
  /\ Goto("serving", "listening")
  /\ UNCHANGED <<image, rounds, db, tables, todo, faults>>

(* A command fails, or the container stops.  "nest start --watch" outlives *)
(* an application that fails, and waits for a file to change.              *)
Fault ==
  /\ boot \in Commands \cup {"migrating", "serving"} /\ faults < MaxFaults
  /\ faults' = faults + 1
  /\ \/ Goto("exited", came)
     \/ boot \in {"app", "serving"} /\ image = "dev" /\ Goto("watching", came)
  /\ UNCHANGED <<image, rounds, db, tables, todo>>

StartupStep ==
  \/ CheckDb \/ MigrateBegin \/ MigrateDone \/ MigrateRefused \/ Generate
  \/ (\E name \in RoleNames : SeedRole(name)) \/ ProtoUpdate \/ StartApp

StartupNext == StartupStep \/ Boot("off") \/ Restart \/ DatabaseUp \/ Fault

(* The script that runs goes on: it is one process.  Nothing says that the *)
(* container is started again, or that the database ever comes up.         *)
StartupSpec ==
  StartupInit /\ [][StartupNext]_startupVars /\ WF_startupVars(StartupStep)

-----------------------------------------------------------------------------
(* Properties *)

(* The script never gets past the wait without a database.                 *)
StartupTypeOK ==
  /\ image \in Images /\ rounds \in 0..WaitRounds /\ db \in BOOLEAN /\ faults \in 0..MaxFaults
  /\ boot \in Commands \cup {"off", "migrating", "serving", "watching", "exited"}
  /\ migrations \in {"pending", "begun", "done"}
  /\ roleTable \subseteq RoleNames /\ todo \subseteq RoleNames
  /\ came \in {"nothing", "timeout", "database", "migrations", "client", "seed", "listening"}
  /\ boot \notin {"off", "wait", "exited"} => db

(* Whatever failed and was restarted before, a container that serves has a *)
(* migrated database and every role of the seed: register looks its role   *)
(* up by name, and refuses whoever asks for one that is not in the table.  *)
ServesPrepared ==
  boot = "serving" => migrations = "done" /\ roleTable = RoleNames

Booting == boot \in Commands \cup {"migrating"}

(* A boot of the development script that the database answers in time, and *)
(* that no migration cut short by an earlier one stands in the way of.     *)
Unimpeded ==
  /\ image = "dev" /\ Booting /\ db /\ rounds < WaitRounds
  /\ migrations = "begun" => boot = "migrating"

(* No boot hangs, with or without a database; and an unimpeded one comes   *)
(* to serve unless one of its own commands fails, wherever in the script   *)
(* the boots before it were stopped: migrations that were deployed and     *)
(* roles that were seeded, some or all, are no obstacle to it.             *)
BootCompletes ==
  /\ [](Booting => <>(boot \in {"serving", "watching", "exited"}))
  /\ \A n \in 0..MaxFaults :
       [](Unimpeded /\ faults = n => <>(boot = "serving" \/ faults > n))

(* "4. Start Service - Launches the NestJS application" (SETUP.md:14) is   *)
(* what docker-entrypoint.sh does after the seed: a container in which     *)
(* nothing failed does not exit then.                                      *)
StartsAfterSeed == boot = "exited" /\ came = "seed" => faults > 0
=============================================================================
