----------------------------- MODULE RuntimeDb ------------------------------
(***************************************************************************)
(* Opening a runtime database (runtime_db.py, runtime_db_migrate.py) with  *)
(* the migrations of the statistics schema (runtime_stats_schema.py).  The *)
(* version is read first, and the migrations after it are applied in one   *)
(* transaction, by processes that open the database at the same time and   *)
(* may be of different releases.                                           *)
(*                                                                         *)
(* SQLite (external) in WAL mode: the transaction sees the database as of  *)
(* its first statement, and its first write needs the write lock, which it *)
(* is refused at once when another has committed since.                    *)
(***************************************************************************)
EXTENDS Naturals

CONSTANTS Openers,   \* processes that open the database
          Latest,    \* opener -> last migration its release knows
          Founded    \* versions an earlier release may have left behind

Top == 3
Migrations == 1 .. Top

ASSUME RuntimeDbConstants ==
    /\ Latest \in [Openers -> Migrations]
    /\ Founded \subseteq 0 .. Top

VARIABLES schema,  \* the committed version, what of the schema there is
                   \* (piece n comes with migration n), and the commits so far
          opening  \* opener -> where it is and its transaction

dbVars == <<schema, opening>>

Closed == [pc |-> "closed"]

DbInit ==
    /\ \E v \in Founded : schema = [version |-> v, pieces |-> 1 .. v, commits |-> 0]
    /\ opening = [p \in Openers |-> Closed]

MoveTo(p, o) == opening' = [opening EXCEPT ![p] = o]

(* The transaction of p, by what it has seen and done.                     *)
Locked == \E q \in Openers : opening[q].pc = "migrate" /\ opening[q].wrote
Fails(p) == MoveTo(p, [pc |-> "failed"]) /\ UNCHANGED schema

-----------------------------------------------------------------------------
(* get_runtime_db_schema_version, in a transaction of its own.             *)
ReadVersion(p) ==
    /\ opening[p].pc \in {"closed", "failed"}
    /\ MoveTo(p, IF schema.version < Latest[p]
                 THEN [pc |-> "begin", next |-> schema.version + 1]
                 ELSE [pc |-> "open"])
    /\ UNCHANGED schema

(* BEGIN, and the first statement.  CREATE TABLE IF NOT EXISTS takes the   *)
(* write lock with it where there is no table, and waits for the lock;     *)
(* what only reads takes a snapshot.                                       *)
BeginMigrating(p) ==
    /\ opening[p].pc = "begin"
    /\ LET creates == opening[p].next = 1 /\ schema.pieces = {}
       IN  /\ creates => ~Locked
           /\ MoveTo(p, [pc |-> "migrate", next |-> opening[p].next, wrote |-> creates,
                         seen |-> schema.commits, version |-> schema.version,
                         pieces |-> schema.pieces])
    /\ UNCHANGED schema

(* The lock is not had for as long as another holds it, or at all.         *)
GiveUpLock(p) ==
    /\ opening[p].pc = "begin" \/ (opening[p].pc = "migrate" /\ ~opening[p].wrote)
    /\ Locked
    /\ Fails(p)

Stale(p) == ~opening[p].wrote /\ opening[p].seen # schema.commits

(* Migration 1 creates the tables as the release knows them, columns of    *)
(* later migrations included; tables of an older release are left as they  *)
(* are, and an index on a column they lack fails.  The others add what is  *)
(* not there.                                                              *)
Lacking(p) ==
    /\ opening[p].next = 1
    /\ opening[p].pieces # {}
    /\ Latest[p] >= 2
    /\ 2 \notin opening[p].pieces

Added(p) ==
    IF opening[p].next = 1
    THEN IF opening[p].pieces = {} THEN 1 .. Latest[p] ELSE {}
    ELSE {opening[p].next}

(* Mutant: each statement is committed by itself, the version before the   *)
(* migration.                                                              *)
ApplyUnprotected(p) ==
    /\ opening[p].pc = "migrate"
    /\ opening[p].next <= Latest[p]
    /\ ~Lacking(p)
    /\ schema' = [schema EXCEPT !.version = opening[p].next,
                                !.pieces = @ \cup opening[p].pieces]
    /\ MoveTo(p, [opening[p] EXCEPT !.next = @ + 1, !.version = opening[p].next,
                                    !.pieces = @ \cup Added(p)])

Apply(p) ==
    /\ opening[p].pc = "migrate"
    /\ opening[p].next <= Latest[p]
    /\ ~Locked \/ opening[p].wrote
    /\ ~Stale(p)
    /\ ~Lacking(p)
    /\ MoveTo(p, [opening[p] EXCEPT !.next = @ + 1, !.wrote = TRUE,
                                    !.version = opening[p].next,
                                    !.pieces = @ \cup Added(p)])
    /\ UNCHANGED schema

Refused(p) ==
    /\ opening[p].pc = "migrate"
    /\ Stale(p) \/ Lacking(p)
    /\ Fails(p)

CommitMigrations(p) ==
    /\ opening[p].pc = "migrate"
    /\ opening[p].next > Latest[p]
    /\ schema' = [version |-> opening[p].version, pieces |-> opening[p].pieces,
                  commits |-> schema.commits + 1]
    /\ MoveTo(p, [pc |-> "open"])

(* The transaction of a killed process is never committed.                 *)
KillOpener(p) ==
    /\ opening[p].pc \in {"begin", "migrate", "open"}
    /\ MoveTo(p, Closed)
    /\ UNCHANGED schema

DbNext ==
    \E p \in Openers :
        \/ ReadVersion(p)
        \/ BeginMigrating(p)
        \/ GiveUpLock(p)
        \/ Apply(p)
        \/ Refused(p)
        \/ CommitMigrations(p)
        \/ KillOpener(p)

DbSpec == DbInit /\ [][DbNext]_dbVars

-----------------------------------------------------------------------------
(* The version never says more than the schema has, and a process whose    *)
(* open succeeded finds everything its release knows of, whatever others   *)
(* of older and newer releases have migrated since it read the version,    *)
(* and although an older one may set the version back.                     *)
SchemaUsable ==
    /\ 1 .. schema.version \subseteq schema.pieces
    /\ \A p \in Openers :
          opening[p].pc = "open" => 1 .. Latest[p] \subseteq schema.pieces
=============================================================================
