------------------------------ MODULE SystemSetup ------------------------------
(***************************************************************************)
(* The first setup of the system (completeSetup): it creates the super     *)
(* administrator and the default storage backend in the database that was  *)
(* chosen, and makes the server use that database.  A remote database is   *)
(* filled through a client of its own before the env file names it and the *)
(* server restarts; for SQLite the server changes over first.              *)
(*                                                                         *)
(* The server may stop between any two awaits, and comes back with what    *)
(* the env file says.                                                      *)
(***************************************************************************)
EXTENDS Naturals

CONSTANTS
  Database, Remote,   \* Remote: those that are not SQLite files
  Applicant,          \* setup requests that may be under way at a time
  MaxStops            \* bound

ASSUME SetupAssumption == Remote \subseteq Database /\ MaxStops \in Nat

VARIABLES
  envFile,     \* the database the env file names, and whether a setup wrote it
  inUse,       \* the database the server's client is connected to
  reachable,   \* the databases that can be connected to
  synced,      \* the databases with the schema
  founded,     \* the databases with super administrator and default backend
  applying,    \* what each request is doing
  stops        \* history: how often the server stopped

setupVars == <<envFile, inUse, reachable, synced, founded, applying, stops>>

Waiting == [at |-> "waiting", into |-> "none"]
AtStep(r, place) == applying[r].at = place
Advance(r, place) == applying' = [applying EXCEPT ![r].at = place]
GiveUp(r) == applying' = [applying EXCEPT ![r] = Waiting]

SetupTypeOK ==
  /\ envFile \in [names : Database, written : BOOLEAN]
  /\ inUse \in Database
  /\ reachable \subseteq Database /\ synced \subseteq Database /\ founded \subseteq synced
  /\ \A r \in Applicant :
       AtStep(r, "waiting") \/ applying[r].into \in Database
  /\ stops \in 0 .. MaxStops

SetupInit ==
  /\ envFile \in [names : Database, written : {FALSE}]
  /\ inUse = envFile.names
  /\ reachable = Database
  /\ synced = {inUse} /\ founded = {}   \* the start-up pushes the schema
  /\ applying = [r \in Applicant |-> Waiting]
  /\ stops = 0

-----------------------------------------------------------------------------
\* getSetupStatus: a database that does not answer counts as not initialized.
Initialized(d) == d \in reachable /\ d \in founded

\* The guard before any side effect.
MayBegin == ~Initialized(inUse)

BeginSetup(r, d) ==
  /\ AtStep(r, "waiting") /\ MayBegin
  /\ applying' = [applying EXCEPT ![r] = [at |-> "sync", into |-> d]]
  /\ UNCHANGED <<envFile, inUse, reachable, synced, founded, stops>>

AfterSyncMutant(d) == IF d \in Remote THEN "restart" ELSE "change over"

\* A remote database is asked and filled first.
AfterSync(d) == IF d \in Remote THEN "ask" ELSE "change over"

\* The storage was tried and found good, and the schema is pushed; or not.
SyncSchema(r) ==
  LET d == applying[r].into IN
  /\ AtStep(r, "sync")
  /\ \/ /\ d \in reachable
        /\ synced' = synced \cup {d}
        /\ Advance(r, AfterSync(d))
     \/ GiveUp(r) /\ UNCHANGED synced
  /\ UNCHANGED <<envFile, inUse, reachable, founded, stops>>

\* The remote database through the temporary client.
AskRemote(r) ==
  LET d == applying[r].into IN
  /\ AtStep(r, "ask")
  /\ IF d \in reachable /\ d \notin founded THEN Advance(r, "fill") ELSE GiveUp(r)
  /\ UNCHANGED <<envFile, inUse, reachable, synced, founded, stops>>

\* One transaction; super_admin_marker is unique.
CreateRemoteRecords(r) ==
  LET d == applying[r].into IN
  /\ AtStep(r, "fill")
  /\ IF d \in reachable /\ d \notin founded
       THEN founded' = founded \cup {d} /\ Advance(r, "restart")
       ELSE GiveUp(r) /\ UNCHANGED founded
  /\ UNCHANGED <<envFile, inUse, reachable, synced, stops>>

\* The env file, then scheduleServerRestart.
NameRemote(r) ==
  /\ AtStep(r, "restart")
  /\ envFile' = [names |-> applying[r].into, written |-> TRUE]
  /\ GiveUp(r)
  /\ UNCHANGED <<inUse, reachable, synced, founded, stops>>

\* SQLite: the env file and the JWT secret, then configurePrisma.
NameSqlite(r) ==
  /\ AtStep(r, "change over")
  /\ envFile' = [names |-> applying[r].into, written |-> TRUE]
  /\ Advance(r, "configure")
  /\ UNCHANGED <<inUse, reachable, synced, founded, stops>>

ConfigurePrisma(r) ==
  /\ AtStep(r, "configure")
  /\ inUse' = applying[r].into
  /\ Advance(r, "second check")
  /\ UNCHANGED <<envFile, reachable, synced, founded, stops>>

SecondCheck(r) ==
  /\ AtStep(r, "second check")
  /\ IF Initialized(inUse) THEN GiveUp(r) ELSE Advance(r, "create")
  /\ UNCHANGED <<envFile, inUse, reachable, synced, founded, stops>>

\* Into whatever database the server uses by now.
CreateRecords(r) ==
  /\ AtStep(r, "create")
  /\ IF inUse \in reachable \cap synced /\ inUse \notin founded
       THEN founded' = founded \cup {inUse} ELSE UNCHANGED founded
  /\ GiveUp(r)
  /\ UNCHANGED <<envFile, inUse, reachable, synced, stops>>

\* A crash, or the restart that was scheduled; the start-up syncs the schema.
Restart ==
  /\ stops < MaxStops
  /\ stops' = stops + 1
  /\ inUse' = envFile.names
  /\ synced' = synced \cup (reachable \cap {envFile.names})
  /\ applying' = [r \in Applicant |-> Waiting]
  /\ UNCHANGED <<envFile, reachable, founded>>

DatabaseFails(d) ==
  /\ d \in reachable /\ d \in Remote
  /\ reachable' = reachable \ {d}
  /\ UNCHANGED <<envFile, inUse, synced, founded, applying, stops>>

DatabaseReturns(d) ==
  /\ d \notin reachable
  /\ reachable' = reachable \cup {d}
  /\ UNCHANGED <<envFile, inUse, synced, founded, applying, stops>>

SetupStep(r) ==
  \/ SyncSchema(r) \/ AskRemote(r) \/ CreateRemoteRecords(r) \/ NameRemote(r)
  \/ NameSqlite(r) \/ ConfigurePrisma(r) \/ SecondCheck(r) \/ CreateRecords(r)

SetupNext ==
  \/ \E r \in Applicant : (\E d \in Database : BeginSetup(r, d)) \/ SetupStep(r)
  \/ Restart
  \/ \E d \in Database : DatabaseFails(d) \/ DatabaseReturns(d)

SetupSpec == SetupInit /\ [][SetupNext]_setupVars

-----------------------------------------------------------------------------
(* What the setup promises                                                 *)

\* A remote database that a setup has put into the env file already has its
\* administrator and its storage, wherever the server stops and whichever
\* setups overlap: a restart never comes up in a half-made system.
RemoteIsReady == (envFile.written /\ envFile.names \in Remote) => envFile.names \in founded
=============================================================================
