------------------------------ MODULE Migrations ------------------------------
(***************************************************************************)
(* Bringing the database up to date before an app starts                   *)
(* (scripts/db-migrate.mjs, scripts/lib/migrations.mjs): any number of     *)
(* containers, of older and newer images, do it at the same time, are      *)
(* killed, and lose their connections.  A session of PostgreSQL outlives   *)
(* its client until the server has worked off what it was sent and notices;*)
(* then its transaction and its advisory lock are gone.                    *)
(***************************************************************************)
EXTENDS Naturals, Sequences, FiniteSets

CONSTANTS
  Migrator,    \* processes of the script
  Image,       \* what images ship: sequences of migrations
  NoMigrator,
  MaxStarts,   \* bound: how often the script is started
  MaxBreaks    \* bound: crashes, lost connections, failing statements

\* loadMigrations: [version, checksum], sorted by version.
ASSUME MigrationsAssumption ==
  /\ NoMigrator \notin Migrator
  /\ \A list \in Image :
       /\ Len(list) \in Nat /\ DOMAIN list = 1 .. Len(list)
       /\ \A i \in 1 .. Len(list) : list[i].version \in Nat
       /\ \A i, j \in 1 .. Len(list) : i < j => list[i].version < list[j].version
  /\ MaxStarts \in Nat /\ MaxBreaks \in Nat

VARIABLES
  migrations,      \* schema_migrations
  executed,    \* the versions whose SQL was committed, in that order
  lock,        \* whose session holds the advisory lock
  migrator,    \* the processes and their sessions
  starts, breaks

schemaVars == <<migrations, executed, lock, migrator, starts, breaks>>

\* applied are the rows that were read, at is the place in the image's list, and
\* broken says that something outside the script has interfered.
NotStarted ==
  [pc |-> "idle", image |-> << >>, applied |-> {}, at |-> 1, broken |-> FALSE]

SchemaInit ==
  /\ migrations = {} /\ executed = << >>
  /\ lock = NoMigrator
  /\ migrator = [m \in Migrator |-> NotStarted]
  /\ starts = 0 /\ breaks = 0

Versions(rows) == {row.version : row \in rows}
Shipped(m) == {migrator[m].image[i] : i \in DOMAIN migrator[m].image}
AtEnd(m) == migrator[m].at > Len(migrator[m].image)
Upcoming(m) == migrator[m].image[migrator[m].at]

Moves(m, pc) == migrator' = [migrator EXCEPT ![m].pc = pc]

\* The script gives the lock back in its finally block; a session that ends
\* loses it anyway.
Unlocked(m) == lock' = IF lock = m THEN NoMigrator ELSE lock
Ends(m, pc) == Moves(m, pc) /\ Unlocked(m)

----------------------------------------------------------------------------
(* runMigrations *)

StartMigrator(m, image) ==
  /\ migrator[m].pc \in {"idle", "done", "failed"}
  /\ starts < MaxStarts /\ starts' = starts + 1
  /\ migrator' = [migrator EXCEPT ![m] =
       [NotStarted EXCEPT !.pc = "locking", !.image = image]]
  /\ UNCHANGED <<migrations, executed, lock, breaks>>

\* Faulty variant: the lock excludes nobody.
FaultyAvailable == TRUE

\* What pg_advisory_lock waits for.
Available == lock = NoMigrator

TakeLock(m) ==
  /\ migrator[m].pc = "locking" /\ Available
  /\ lock' = m
  /\ Moves(m, "reading")
  /\ UNCHANGED <<migrations, executed, starts, breaks>>

\* A database that has more than the image is refused.
ReadLedger(m) ==
  /\ migrator[m].pc = "reading"
  /\ IF Versions(migrations) \subseteq Versions(Shipped(m))
     THEN /\ migrator' = [migrator EXCEPT ![m].applied = migrations, ![m].pc = "next"]
          /\ UNCHANGED lock
     ELSE Ends(m, "failed")
  /\ UNCHANGED <<migrations, executed, starts, breaks>>

\* Done before, and refused if it was something else.
SkipApplied(m) ==
  /\ migrator[m].pc = "next" /\ ~AtEnd(m)
  /\ Upcoming(m).version \in Versions(migrator[m].applied)
  /\ IF Upcoming(m) \in migrator[m].applied
     THEN migrator' = [migrator EXCEPT ![m].at = @ + 1] /\ UNCHANGED lock
     ELSE Ends(m, "failed")
  /\ UNCHANGED <<migrations, executed, starts, breaks>>

\* BEGIN, the SQL of the migration, and its row.  A row of the same version in
\* an open transaction makes the insertion wait, one in the table makes it fail.
Execute(m) ==
  /\ migrator[m].pc = "next" /\ ~AtEnd(m)
  /\ Upcoming(m).version \notin Versions(migrator[m].applied)
  /\ \A n \in Migrator \ {m} :
       migrator[n].pc \in {"committing", "severed"} =>
         Upcoming(n).version # Upcoming(m).version
  /\ IF Upcoming(m).version \in Versions(migrations)
     THEN Ends(m, "failed")
     ELSE Moves(m, "committing") /\ UNCHANGED lock
  /\ UNCHANGED <<migrations, executed, starts, breaks>>

Committed(m) ==
  /\ migrations' = migrations \cup {Upcoming(m)}
  /\ executed' = Append(executed, Upcoming(m).version)

Commit(m) ==
  /\ migrator[m].pc = "committing"
  /\ Committed(m)
  /\ migrator' = [migrator EXCEPT ![m].pc = "next", ![m].at = @ + 1]
  /\ UNCHANGED <<lock, starts, breaks>>

FinishMigrations(m) ==
  /\ migrator[m].pc = "next" /\ AtEnd(m)
  /\ Ends(m, "done")
  /\ UNCHANGED <<migrations, executed, starts, breaks>>

----------------------------------------------------------------------------
(* What may happen to it. *)

Running(m) == migrator[m].pc \in {"locking", "reading", "next", "committing"}

Break == breaks < MaxBreaks /\ breaks' = breaks + 1

\* The connection cannot be made, or a statement fails: the transaction is
\* rolled back, the lock given back.
StatementFails(m) ==
  /\ Running(m)
  /\ Break
  /\ migrator' = [migrator EXCEPT ![m].pc = "failed", ![m].broken = TRUE]
  /\ Unlocked(m)
  /\ UNCHANGED <<migrations, executed, starts>>

\* The process is killed or its connection lost, while a COMMIT may be on its
\* way.  Its session keeps the lock for now.
Severed(m) ==
  /\ Running(m)
  /\ Break
  /\ migrator' = [migrator EXCEPT
       ![m].pc = IF @ = "committing" THEN "severed" ELSE "orphaned",
       ![m].broken = TRUE]
  /\ UNCHANGED <<migrations, executed, lock, starts>>

\* The server gets to the COMMIT, or not, and closes the session.
SessionClosed(m) ==
  /\ migrator[m].pc \in {"severed", "orphaned"}
  /\ \/ migrator[m].pc = "severed" /\ Committed(m)
     \/ UNCHANGED <<migrations, executed>>
  /\ Ends(m, "failed")
  /\ UNCHANGED <<starts, breaks>>

----------------------------------------------------------------------------
SchemaNext ==
  \E m \in Migrator :
    \/ \E image \in Image : StartMigrator(m, image)
    \/ TakeLock(m) \/ ReadLedger(m) \/ SkipApplied(m) \/ Execute(m) \/ Commit(m)
    \/ FinishMigrations(m) \/ StatementFails(m) \/ Severed(m) \/ SessionClosed(m)

SchemaSpec == SchemaInit /\ [][SchemaNext]_schemaVars

----------------------------------------------------------------------------
\* "It serializes concurrent runners [...] and can safely be repeated"
\* (README.md): no migration is executed twice or without its row, and a run
\* that nothing has interfered with is refused only where the database holds
\* what its image does not ship: never because of another run.  A run that
\* reports success leaves everything that it ships.
MigrationsSerialized ==
  /\ Len(executed) = Cardinality(migrations)
  /\ Versions(migrations) = {executed[i] : i \in DOMAIN executed}
  /\ \A m \in Migrator :
       /\ migrator[m].pc = "failed" /\ ~migrator[m].broken => ~(migrations \subseteq Shipped(m))
       /\ migrator[m].pc = "done" => Shipped(m) \subseteq migrations
=============================================================================
