---------------------------- MODULE StorageBackends ----------------------------
(***************************************************************************)
(* The versions of one file on the storage backends: uploads through the   *)
(* server and straight to S3, the removal of versions by the clean-up      *)
(* jobs, and the management of the backends, with the bytes each is        *)
(* believed to hold and the adapters the server keeps.                     *)
(*                                                                         *)
(* Every await is a step.  A version has no backend of its own: it is      *)
(* looked for on the backend its file names.                               *)
(***************************************************************************)
EXTENDS Integers, FiniteSets

CONSTANTS
  Backend, Upload,
  Local,      \* the backends on the server's own disk
  Binding,    \* the backend the project is bound to, or NoBackend
  NoBackend,
  Size,       \* the bytes of each upload
  Quota,      \* the quotas an admin may set, 0: none
  Overlap,    \* whether requests and jobs run at the same time
  MaxConfig   \* bound on how often a configuration is changed

ASSUME StorageAssumption ==
  /\ IsFiniteSet(Upload) /\ Upload \cap {"cleanup", "admin"} = {}
  /\ Local \subseteq Backend /\ Binding \in Backend \cup {NoBackend} /\ NoBackend \notin Backend
  /\ Size \in [Upload -> Nat \ {0}] /\ Quota \subseteq Nat /\ Overlap \in BOOLEAN /\ MaxConfig \in Nat \ {0}

VARIABLES
  backend,   \* the StorageBackend rows; config counts its changes, 0: no row
  cache,     \* adapterCache: the config an adapter was made of, 0: none
  object,    \* where the object of each upload is
  version,   \* the uploads with a FileVersion row
  fileOn,    \* storage_backend_id of the file
  task,      \* what the request of each upload, the clean-up and the admin do
  late       \* history: direct uploads undone although their version was recorded

storageVars == <<backend, cache, object, version, fileOn, task, late>>

Actor == Upload \cup {"cleanup", "admin"}
Resting == [at |-> "rest"]
Is(a, place) == task[a].at = place
Then(a, next) == task' = [task EXCEPT ![a] = next]
Move(a, place) == Then(a, IF place = "done" THEN [at |-> "done"] ELSE [task[a] EXCEPT !.at = place])
NobodyWorks == \A a \in Actor : Is(a, "rest") \/ Is(a, "done")
MayStart(a) == Is(a, "rest") /\ (Overlap \/ NobodyWorks)

HasRow(b) == backend[b].config > 0
Active(b) == HasRow(b) /\ backend[b].active
\* The bytes of some uploads, counted one by one.
Bytes(uploads) == Cardinality(UNION {{u} \X (1 .. Size[u]) : u \in uploads})

StorageTypeOK ==
  /\ backend \in [Backend -> [active : BOOLEAN, isDefault : BOOLEAN, quota : Quota \cup {0},
                              config : 0 .. MaxConfig, used : 0 .. Bytes(Upload)]]
  /\ cache \in [Backend -> 0 .. MaxConfig]
  /\ object \in [Upload -> Backend \cup {NoBackend}]
  /\ version \subseteq Upload /\ late \subseteq Upload
  /\ fileOn \in Backend \cup {NoBackend}
  /\ DOMAIN task = Actor

\* The first backend is the one the setup created: active, the default, unlimited.
StorageInit ==
  /\ \E first \in Backend :
       /\ Binding \in {first, NoBackend}
       /\ backend = [b \in Backend |->
            [active |-> b = first, isDefault |-> b = first, quota |-> 0,
             config |-> IF b = first THEN 1 ELSE 0, used |-> 0]]
  /\ cache = [b \in Backend |-> 0]
  /\ object = [u \in Upload |-> NoBackend]
  /\ version = {} /\ late = {} /\ fileOn = NoBackend
  /\ task = [a \in Actor |-> Resting]

-----------------------------------------------------------------------------
(* What every request does on a backend                                    *)

\* getDefaultBackend: an active default, else any active backend.
Defaults ==
  LET active == {b \in Backend : Active(b)}
      default == {b \in active : backend[b].isDefault}
  IN IF default # {} THEN default ELSE active

\* Where an upload for a task goes.
Targets == IF Binding # NoBackend THEN {Binding} ELSE Defaults

\* Where a failing request goes on.
Failed(a) == IF a = "cleanup" THEN "drop" ELSE "done"

\* initAdapterForBackend: the cached adapter, or one of the row, which is read
\* before it is cached.
LoadAdapter(a, next) ==
  LET b == task[a].on IN
  /\ Is(a, "load")
  /\ Then(a, IF cache[b] # 0 THEN [task[a] EXCEPT !.at = next]
             ELSE IF ~HasRow(b) THEN [task[a] EXCEPT !.at = Failed(a)]
             ELSE [task[a] EXCEPT !.at = "keep", !.config = backend[b].config])
  /\ UNCHANGED <<backend, cache, object, version, fileOn, late>>

KeepAdapter(a, next) ==
  /\ Is(a, "keep")
  /\ cache' = [cache EXCEPT ![task[a].on] = task[a].config]
  /\ Move(a, next)
  /\ UNCHANGED <<backend, object, version, fileOn, late>>

\* updateUsage reads the row and writes the sum back.
ReadUsage(a, place, next) ==
  LET b == task[a].on IN
  /\ Is(a, place)
  /\ Then(a, IF HasRow(b) THEN [task[a] EXCEPT !.at = next, !.used = backend[b].used]
             ELSE [task[a] EXCEPT !.at = Failed(a)])
  /\ UNCHANGED <<backend, cache, object, version, fileOn, late>>

WriteUsage(a, place, used, next) ==
  /\ Is(a, place)
  /\ backend' = [backend EXCEPT ![task[a].on].used = used]
  /\ Move(a, next)
  /\ UNCHANGED <<cache, object, version, fileOn, late>>

Added(a) == task[a].used + Size[task[a].of]

SubtractedMutant(a) == task[a].used - Size[task[a].of]

\* Never below zero.
Subtracted(a) == IF task[a].used > Size[task[a].of] THEN task[a].used - Size[task[a].of] ELSE 0

-----------------------------------------------------------------------------
(* Uploads                                                                 *)

\* As a task's file, or in place of the file as it is.
StartUpload(u, b, direct) ==
  /\ MayStart(u)
  /\ b \in Targets \/ b = fileOn
  /\ Active(b) /\ (direct => b \notin Local)
  /\ Then(u, [at |-> "quota", on |-> b, of |-> u, direct |-> direct, config |-> 0, used |-> 0])
  /\ UNCHANGED <<backend, cache, object, version, fileOn, late>>

Fits(u) == LET b == backend[task[u].on] IN b.quota = 0 \/ b.used + Size[u] <= b.quota

CheckQuota(u) ==
  /\ Is(u, "quota")
  /\ Move(u, IF ~Fits(u) THEN "done" ELSE IF task[u].direct THEN "put" ELSE "load")
  /\ UNCHANGED <<backend, cache, object, version, fileOn, late>>

\* The server writes the object, or completes the parts S3 holds.
Put(u) ==
  /\ Is(u, "put")
  /\ object' = [object EXCEPT ![u] = task[u].on]
  /\ Move(u, "count")
  /\ UNCHANGED <<backend, cache, version, fileOn, late>>

AfterFailureMutant(u) == IF task[u].direct THEN "erase" ELSE "done"

\* What a direct upload has done is undone; the server's leaves its object.
AfterFailure(u) == IF task[u].direct THEN "undo" ELSE "done"

RecordVersion(u) ==
  /\ Is(u, "record")
  /\ version' = version \cup {u} /\ fileOn' = task[u].on
  /\ Move(u, "done")
  /\ UNCHANGED <<backend, cache, object, late>>

\* The file service refuses, or fails before it has written the version.
RefuseVersion(u) ==
  /\ Is(u, "record")
  /\ Move(u, AfterFailure(u))
  /\ UNCHANGED <<backend, cache, object, version, fileOn, late>>

\* It fails after that: the timeline or the episode's length is not written.
FailAfterRecord(u) ==
  /\ Is(u, "record")
  /\ version' = version \cup {u} /\ fileOn' = task[u].on
  /\ Move(u, AfterFailure(u))
  /\ late' = late \cup {u}
  /\ UNCHANGED <<backend, cache, object>>

Erase(u) ==
  /\ Is(u, "erase")
  /\ object' = [object EXCEPT ![u] = IF Active(task[u].on) THEN NoBackend ELSE @]
  /\ Move(u, "done")
  /\ UNCHANGED <<backend, cache, version, fileOn, late>>

UploadStep(u) ==
  \/ \E b \in Backend, direct \in BOOLEAN : StartUpload(u, b, direct)
  \/ CheckQuota(u) \/ LoadAdapter(u, "put") \/ KeepAdapter(u, "put") \/ Put(u)
  \/ ReadUsage(u, "count", "add") \/ WriteUsage(u, "add", Added(u), "record")
  \/ RecordVersion(u) \/ RefuseVersion(u) \/ FailAfterRecord(u)
  \/ ReadUsage(u, "undo", "subtract") \/ WriteUsage(u, "subtract", Subtracted(u), "erase")
  \/ Erase(u)

-----------------------------------------------------------------------------
(* The clean-up of an archived project keeps one version                   *)

StartRemoval(u) ==
  /\ MayStart("cleanup") /\ u \in version /\ Cardinality(version) > 1
  /\ Then("cleanup", [at |-> "load", on |-> fileOn, of |-> u, direct |-> FALSE,
                      config |-> 0, used |-> 0])
  /\ UNCHANGED <<backend, cache, object, version, fileOn, late>>

\* Neither S3 nor the disk minds that there is no such object.
RemoveObject ==
  LET u == task["cleanup"].of IN
  /\ Is("cleanup", "remove")
  /\ object' = [object EXCEPT ![u] = IF @ = task["cleanup"].on THEN NoBackend ELSE @]
  /\ Move("cleanup", "uncount")
  /\ UNCHANGED <<backend, cache, version, fileOn, late>>

\* What goes wrong is logged, and the version goes all the same.
RemovalFails ==
  /\ Is("cleanup", "remove")
  /\ Move("cleanup", "drop")
  /\ UNCHANGED <<backend, cache, object, version, fileOn, late>>

DropVersion ==
  /\ Is("cleanup", "drop")
  /\ version' = version \ {task["cleanup"].of}
  /\ Then("cleanup", Resting)
  /\ UNCHANGED <<backend, cache, object, fileOn, late>>

CleanupStep ==
  \/ \E u \in Upload : StartRemoval(u)
  \/ LoadAdapter("cleanup", "remove") \/ KeepAdapter("cleanup", "remove")
  \/ RemoveObject \/ RemovalFails
  \/ ReadUsage("cleanup", "uncount", "take")
  \/ WriteUsage("cleanup", "take", Subtracted("cleanup"), "drop")
  \/ DropVersion

-----------------------------------------------------------------------------
(* The management of the backends                                          *)

Administer(place, b, change, quota) ==
  /\ MayStart("admin")
  /\ Then("admin", [at |-> place, on |-> b, change |-> change, quota |-> quota])
  /\ UNCHANGED <<backend, cache, object, version, fileOn, late>>

\* Ids are new.
Unknown(b) == /\ ~HasRow(b) /\ cache[b] = 0 /\ b \notin {Binding, fileOn}
              /\ \A u \in Upload : object[u] # b

StartCreation(b, isDefault, quota) ==
  /\ Unknown(b)
  /\ IF isDefault THEN Administer("clear", b, "new default", quota)
     ELSE Administer("write", b, "new", quota)

StartUpdate(b, change, quota) ==
  /\ HasRow(b)
  /\ Administer(IF change = "default" THEN "clear" ELSE "write", b, change, quota)

\* Only projects are asked; those with no backend of their own do not count.
StartDeletion(b) ==
  /\ HasRow(b) /\ Binding # b
  /\ Administer("write", b, "delete", 0)

ClearDefaults ==
  /\ Is("admin", "clear")
  /\ backend' = [b \in Backend |-> [backend[b] EXCEPT !.isDefault = FALSE]]
  /\ Move("admin", "write")
  /\ UNCHANGED <<cache, object, version, fileOn, late>>

Changed(row, change, quota) ==
  CASE change \in {"new", "new default"} ->
         [active |-> TRUE, isDefault |-> change = "new default", quota |-> quota, config |-> 1, used |-> 0]
    [] change = "config"  -> [row EXCEPT !.config = @ + 1]
    [] change = "default" -> [row EXCEPT !.isDefault = TRUE]
    [] change = "active"  -> [row EXCEPT !.active = ~@]
    [] change = "quota"   -> [row EXCEPT !.quota = quota]
    [] change = "delete"  -> [row EXCEPT !.config = 0]

WriteBackend ==
  LET b == task["admin"].on
      row == Changed(backend[b], task["admin"].change, task["admin"].quota) IN
  /\ Is("admin", "write") /\ row.config <= MaxConfig
  /\ backend' = [backend EXCEPT ![b] = row]
  /\ Move("admin", "forget")
  /\ UNCHANGED <<cache, object, version, fileOn, late>>

ForgottenMutant(b) == IF backend[b].config = 0 THEN [cache EXCEPT ![b] = 0] ELSE cache

\* clearAdapterCache
Forgotten(b) == [cache EXCEPT ![b] = 0]

ForgetAdapter ==
  /\ Is("admin", "forget")
  /\ cache' = Forgotten(task["admin"].on)
  /\ Then("admin", Resting)
  /\ UNCHANGED <<backend, object, version, fileOn, late>>

AdminBackendStep ==
  \/ \E b \in Backend, isDefault \in BOOLEAN, quota \in Quota : StartCreation(b, isDefault, quota)
  \/ \E b \in Backend, change \in {"config", "default", "active"} : StartUpdate(b, change, 0)
  \/ \E b \in Backend, quota \in Quota : StartUpdate(b, "quota", quota)
  \/ \E b \in Backend : StartDeletion(b)
  \/ ClearDefaults \/ WriteBackend \/ ForgetAdapter

StorageNext == (\E u \in Upload : UploadStep(u)) \/ CleanupStep \/ AdminBackendStep

StorageSpec == StorageInit /\ [][StorageNext]_storageVars

-----------------------------------------------------------------------------
(* What the storage promises when requests do not overlap                  *)

\* The bytes a backend is believed to hold are those of the objects on it, so
\* its quota bounds what it holds, whichever uploads were refused or undone and
\* whichever versions the clean-up removed or failed to.  (While no direct upload
\* was undone after its version was recorded: the clean-up counts it off again.)
UsageCounts ==
  (~Overlap /\ NobodyWorks /\ late = {}) =>
    \A b \in Backend : HasRow(b) => backend[b].used = Bytes({u \in Upload : object[u] = b})

\* Every version has its object where its file says, and adapters talk to
\* it with the configuration the admin saved last.  (But for those uploads.)
VersionsReachable ==
  (~Overlap /\ NobodyWorks) =>
    /\ \A u \in version \ late : object[u] = fileOn
    /\ \A b \in Backend : cache[b] \in {0, backend[b].config}

\* The bytes a backend counts are those it holds, and every version is where
\* its row says, though requests fail half-way and backends are reconfigured
\* (storage.service).
StorageAddsUp == UsageCounts /\ VersionsReachable
=============================================================================
