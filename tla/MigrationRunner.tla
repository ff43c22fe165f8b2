---------------------------- MODULE MigrationRunner ----------------------------
(***************************************************************************)
(* The migration runner of the backend (database/migration-runner.ts): a   *)
(* process that takes an advisory lock, compares the checksum of each      *)
(* script with the ledger, and executes and records those that are new.    *)
(*                                                                         *)
(* Several deploys may run at once, be killed, or lose their connection.   *)
(* A script is one transaction (docs/database/migrations); a checksum is   *)
(* the script's content.                                                   *)
(***************************************************************************)
EXTENDS Naturals, Sequences

CONSTANTS
  Runner,
  LastScript,      \* how many scripts there are; 1 is 001_foundation
  MaxScriptEdits,  \* bound: how often a script is edited
  MaxTroubles,     \* bound: how many runs are killed or lose their connection
  Absent,          \* there is no such row
  Unset            \* the NULL of the row a script itself inserts

VARIABLES
  scripts, \* scripts[v]: the content of the file
  runner,  \* runner[p]: a call of runMigrations
  ledger,  \* ledger[v]: the checksum column of its row in schema_migrations
  applied, \* applied[v]: the contents that were executed and committed
  scriptEdits, troubles

migrationVars == <<scripts, runner, ledger, applied, scriptEdits, troubles>>

Version == 1..LastScript
First   == 1
Content == 0..MaxScriptEdits

ASSUME MigrationAssumption ==
  /\ LastScript \in Nat \ {0} /\ MaxScriptEdits \in Nat
  /\ Absent \notin Content /\ Unset \notin Content /\ Absent # Unset

NoRun == [pc |-> "idle", at |-> First, loaded |-> [v \in Version |-> 0], locked |-> FALSE]
Outcomes == {"done", "failed"}

Goes(p, pc) == runner' = [runner EXCEPT ![p].pc = pc]
Database == <<ledger, applied>>
World    == <<scripts, scriptEdits, troubles>>

-----------------------------------------------------------------------------
Start(p) == runner[p].pc = "idle" /\ Goes(p, "lock") /\ UNCHANGED <<Database, World>>

\* pg_advisory_lock, and loadMigrations behind it.
Lock(p) ==
  /\ runner[p].pc = "lock" /\ \A q \in Runner : ~runner[q].locked
  /\ runner' = [runner EXCEPT ![p] = [pc |-> "check", at |-> First, loaded |-> scripts, locked |-> TRUE]]
  /\ UNCHANGED <<Database, World>>

OnTo(p) == IF runner[p].at = LastScript THEN Goes(p, "done")
           ELSE runner' = [runner EXCEPT ![p].pc = "check", ![p].at = @ + 1]

\* The SELECT, and what its answer leads to.
Check(p) ==
  /\ runner[p].pc = "check"
  /\ LET row == ledger[runner[p].at]
     IN  CASE row = Absent                         -> Goes(p, "apply")
           [] row = runner[p].loaded[runner[p].at]       -> OnTo(p)
           [] OTHER                                -> Goes(p, "failed")
  /\ UNCHANGED <<Database, World>>

\* Mutant of Tolerates: every script is written like the first.
TolerateAll(v) == TRUE
\* 001 says IF NOT EXISTS and ON CONFLICT DO NOTHING; the others fail on what exists.
Tolerates(v) == v = First \/ ledger[v] = Absent

\* The script's transaction commits; it leaves a row that is there as it is.
Commit(v, content) ==
  /\ Tolerates(v)
  /\ ledger' = [ledger EXCEPT ![v] = IF @ = Absent THEN Unset ELSE @]
  /\ applied' = [applied EXCEPT ![v] = Append(@, content)]

\* sql.unsafe; a script may also fail by itself, and is rolled back.
ApplyScript(p) ==
  /\ runner[p].pc = "apply"
  /\ \/ Commit(runner[p].at, runner[p].loaded[runner[p].at]) /\ Goes(p, "record")
     \/ Goes(p, "failed") /\ UNCHANGED Database
  /\ UNCHANGED World

UpdateChecksum(v, content) == ledger' = [ledger EXCEPT ![v] = content] /\ UNCHANGED applied

Record(p) ==
  /\ runner[p].pc = "record"
  /\ UpdateChecksum(runner[p].at, runner[p].loaded[runner[p].at])
  /\ OnTo(p)
  /\ UNCHANGED World

\* finally: the lock is released and the connection closed.
EndRun(p) ==
  /\ runner[p].pc \in Outcomes
  /\ runner' = [runner EXCEPT ![p] = NoRun]
  /\ UNCHANGED <<Database, World>>

\* What the server makes of the statement that was under way when the session ended.
Severed(p) ==
  LET v == runner[p].at  content == runner[p].loaded[v]
  IN  \/ runner[p].pc = "apply"  /\ Commit(v, content)
      \/ runner[p].pc = "record" /\ UpdateChecksum(v, content)
      \/ UNCHANGED Database

Trouble == troubles < MaxTroubles /\ troubles' = troubles + 1 /\ UNCHANGED <<scripts, scriptEdits>>

KillRunner(p) ==
  /\ Trouble /\ runner[p].pc \notin Outcomes \cup {"idle"}
  /\ Severed(p)
  /\ runner' = [runner EXCEPT ![p] = NoRun]

\* The connection is lost, and with it the lock; the next statement opens another one.  Between
\* statements nobody notices.  One under way rejects, and the SELECT of 001 takes that for a
\* table that is not there.
Disconnected(p) ==
  /\ Trouble /\ runner[p].pc \notin Outcomes \cup {"idle"}
  /\ \/ runner' = [runner EXCEPT ![p].locked = FALSE] /\ UNCHANGED Database
     \/ /\ Severed(p)
        /\ runner' = [runner EXCEPT ![p].locked = FALSE,
                              ![p].pc = IF @ = "check" /\ runner[p].at = First THEN "apply" ELSE "failed"]

\* Somebody scriptEdits a script.
EditScript(v) ==
  /\ scriptEdits < MaxScriptEdits /\ scriptEdits' = scriptEdits + 1
  /\ scripts' = [scripts EXCEPT ![v] = scriptEdits + 1]
  /\ UNCHANGED <<runner, Database, troubles>>

MigrationInit ==
  /\ scripts = [v \in Version |-> 0]
  /\ runner = [p \in Runner |-> NoRun]
  /\ ledger = [v \in Version |-> Absent]
  /\ applied = [v \in Version |-> <<>>]
  /\ scriptEdits = 0 /\ troubles = 0

MigrationNext ==
  \/ \E p \in Runner : Start(p) \/ Lock(p) \/ Check(p) \/ ApplyScript(p) \/ Record(p) \/ EndRun(p)
                         \/ KillRunner(p) \/ Disconnected(p)
  \/ \E v \in Version : EditScript(v)

MigrationSpec == MigrationInit /\ [][MigrationNext]_migrationVars

-----------------------------------------------------------------------------
\* The contents with which v was executed.
Executed(v) == {applied[v][i] : i \in DOMAIN applied[v]}

\* Every variable holds a value of its kind.
MigrationTypeOK ==
  /\ scripts \in [Version -> Content]
  /\ runner \in [Runner -> [pc : {"idle", "lock", "check", "apply", "record"} \cup Outcomes, at : Version,
                         loaded : [Version -> Content], locked : BOOLEAN]]
  /\ \A v \in Version : ledger[v] \in Content \cup {Absent, Unset} /\ Executed(v) \subseteq Content

\* However runs are killed, lose their lock or race, no script but the tolerant first one is
\* executed twice, and none before those it builds on.
EachOnceInOrder ==
  /\ \A v \in Version \ {First} : Len(applied[v]) <= 1
  /\ \A v, w \in Version : v < w /\ applied[w] # <<>> => applied[v] # <<>>

\* A checksum in the ledger is that of a script that was executed, for all but the first of
\* the one script that was; a row has none only while it is being recorded, or when a run
\* was cut off there.
ChecksumsAreTrue ==
  \A v \in Version :
    /\ ledger[v] \in Content => ledger[v] \in Executed(v)
    /\ ledger[v] = Unset =>
         troubles > 0 \/ \E p \in Runner : runner[p].pc = "record" /\ runner[p].at = v

\* "up to date": every script as it was read has been executed and recorded.  The first
\* is excepted once a connection was lost: another run may then have recorded its own.
DoneIsUpToDate ==
  \A p \in Runner : runner[p].pc = "done" =>
    \A v \in Version : ledger[v] = runner[p].loaded[v] \/ (v = First /\ troubles > 0)

\* What the ledger says of the database.
LedgerIsTrue == EachOnceInOrder /\ ChecksumsAreTrue /\ DoneIsUpToDate
=============================================================================
