----------------------------- MODULE BrowserUpload -----------------------------
(***************************************************************************)
(* A large file goes from the browser to the object store in parts, past   *)
(* the server: it opens the upload, signs the address of every part, and   *)
(* at the end has the store compose the object and records the version.    *)
(* Workers in the browser share a counter; the browser gives up on the     *)
(* first failure, or when the last answer takes too long, and asks for an  *)
(* abort.  Any call may fail, before or after it took effect.              *)
(***************************************************************************)
EXTENDS Naturals, SequencesExt

CONSTANTS
  PartCount,   \* parts of the file
  PartWorker,      \* as many as run at a time
  MaxFaults    \* bound on calls that fail

ASSUME UploadAssumption == PartCount \in Nat \ {0} /\ MaxFaults \in Nat /\ PartWorker # {}

VARIABLES
  browser,          \* "parts", "complete", "abort", "done" or "failed", after "initiate"
  nextPartNumber,
  worker,           \* what each worker is doing, and with which part
  completedParts,   \* the parts answered by the store, in the order of the answers
  upload,           \* the upload at the store: "none", "open", "object", "gone"
  stored,           \* the parts it holds
  server,           \* where completeMultipartUpload is, and the parts it was told
  recorded,         \* the version is on record
  faults

uploadVars == <<browser, nextPartNumber, worker, completedParts, upload, stored, server, recorded, faults>>

Part == 1 .. PartCount
NoRequest == [at |-> "none", parts |-> <<>>]

UploadTypeOK ==
  /\ browser \in {"initiate", "parts", "complete", "abort", "done", "failed"}
  /\ nextPartNumber \in 1 .. PartCount + 1
  /\ \A w \in PartWorker : worker[w].at \in {"none", "idle", "sign", "put", "over", "failed"}
  /\ upload \in {"none", "open", "object", "gone"} /\ stored \subseteq Part
  /\ server.at \in {"none", "asked", "composed", "counted", "failing", "fine", "refused"}
  /\ recorded \in BOOLEAN /\ faults \in 0 .. MaxFaults

UploadInit ==
  /\ browser = "initiate" /\ nextPartNumber = 1
  /\ worker = [w \in PartWorker |-> [at |-> "none", part |-> 0]]
  /\ completedParts = <<>> /\ upload = "none" /\ stored = {}
  /\ server = NoRequest /\ recorded = FALSE /\ faults = 0

Fault == faults < MaxFaults /\ faults' = faults + 1

-----------------------------------------------------------------------------
(* The browser and its workers                                             *)

\* The upload is opened and the workers start; if the answer is lost nobody will
\* abort it.
Initiate ==
  /\ browser = "initiate"
  /\ \/ /\ browser' = "parts" /\ upload' = "open" /\ UNCHANGED faults
        /\ worker' = [w \in PartWorker |-> [at |-> "idle", part |-> 0]]
     \/ browser' = "failed" /\ upload' \in {"none", "open"} /\ Fault /\ UNCHANGED worker
  /\ UNCHANGED <<nextPartNumber, completedParts, stored, server, recorded>>

Set(w, at) == worker' = [worker EXCEPT ![w].at = at]

\* A worker takes the next number before it awaits anything.
Claim(w) ==
  /\ worker[w].at = "idle"
  /\ IF nextPartNumber > PartCount THEN Set(w, "over") /\ UNCHANGED nextPartNumber
     ELSE /\ worker' = [worker EXCEPT ![w] = [at |-> "sign", part |-> nextPartNumber]]
          /\ nextPartNumber' = nextPartNumber + 1
  /\ UNCHANGED <<browser, completedParts, upload, stored, server, recorded, faults>>

SignPart(w) ==
  /\ worker[w].at = "sign"
  /\ \/ Set(w, "put") /\ UNCHANGED faults
     \/ Set(w, "failed") /\ Fault
  /\ UNCHANGED <<browser, nextPartNumber, completedParts, upload, stored, server, recorded>>

\* The store takes parts while the upload is open.
PutPart(w) ==
  /\ worker[w].at = "put"
  /\ \/ /\ upload = "open" /\ stored' = stored \cup {worker[w].part}
        /\ \/ /\ Set(w, "idle") /\ completedParts' = Append(completedParts, worker[w].part)
              /\ UNCHANGED faults
           \/ Set(w, "failed") /\ Fault /\ UNCHANGED completedParts
     \/ /\ Set(w, "failed") /\ UNCHANGED <<stored, completedParts>>
        /\ IF upload = "open" THEN Fault ELSE UNCHANGED faults
  /\ UNCHANGED <<browser, nextPartNumber, upload, server, recorded>>

\* sort by partNumber
InPartOrder(parts) ==
  LET turn == CHOOSE q \in Bijection(DOMAIN parts, DOMAIN parts) :
                \A i, j \in DOMAIN parts : i < j => parts[q[i]] <= parts[q[j]]
  IN [i \in DOMAIN parts |-> parts[turn[i]]]

\* Mutant: the parts are named in the order of the answers.
AskCompleteMutant ==
  /\ browser = "parts" /\ \A w \in PartWorker : worker[w].at = "over"
  /\ browser' = "complete"
  /\ server' = [at |-> "asked", parts |-> completedParts]
  /\ UNCHANGED <<nextPartNumber, worker, completedParts, upload, stored, recorded, faults>>

\* All workers are through: the parts are sorted and the server is asked to complete.
AskComplete ==
  /\ browser = "parts" /\ \A w \in PartWorker : worker[w].at = "over"
  /\ browser' = "complete"
  /\ server' = [at |-> "asked", parts |-> InPartOrder(completedParts)]
  /\ UNCHANGED <<nextPartNumber, worker, completedParts, upload, stored, recorded, faults>>

\* One worker failed: the browser does not wait for the others, who go on.
GiveUpParts ==
  /\ browser = "parts" /\ \E w \in PartWorker : worker[w].at = "failed"
  /\ browser' = "abort"
  /\ UNCHANGED <<nextPartNumber, worker, completedParts, upload, stored, server, recorded, faults>>

\* The answer is an error, or it does not come in time; the server goes on then.
CompletionFails ==
  /\ browser = "complete"
  /\ \/ server.at = "refused" /\ UNCHANGED faults
     \/ Fault
  /\ browser' = "abort"
  /\ UNCHANGED <<nextPartNumber, worker, completedParts, upload, stored, server, recorded>>

CompletionSucceeds ==
  /\ browser = "complete" /\ server.at = "fine" /\ browser' = "done"
  /\ UNCHANGED <<nextPartNumber, worker, completedParts, upload, stored, server, recorded, faults>>

\* The abort's own failure is swallowed, and the upload's error is reported.
Abort ==
  /\ browser = "abort" /\ browser' = "failed"
  /\ \/ /\ upload = "open" /\ upload' = "gone" /\ stored' = {} /\ UNCHANGED faults
     \/ /\ UNCHANGED <<upload, stored>>
        /\ IF upload = "open" THEN Fault ELSE UNCHANGED faults
  /\ UNCHANGED <<nextPartNumber, worker, completedParts, server, recorded>>

-----------------------------------------------------------------------------
(* completeMultipartUpload                                                 *)

Serve(from, to) == server.at = from /\ server' = [server EXCEPT !.at = to]
BrowserRests == UNCHANGED <<browser, nextPartNumber, worker, completedParts>>

\* The checks and the quota: a full backend aborts the upload.
Refuse ==
  /\ Serve("asked", "refused") /\ Fault
  /\ \/ UNCHANGED <<upload, stored>>
     \/ upload = "open" /\ upload' = "gone" /\ stored' = {}
  /\ BrowserRests /\ UNCHANGED recorded

\* The store composes the object of the parts it is told, if it holds them all.
Compose ==
  /\ server.at = "asked"
  /\ IF upload = "open" /\ ToSet(server.parts) \subseteq stored
     THEN /\ upload' = "object" /\ stored' = ToSet(server.parts)
          /\ \/ Serve("asked", "composed") /\ UNCHANGED faults
             \/ Serve("asked", "refused") /\ Fault    \* the answer is lost
     ELSE Serve("asked", "refused") /\ UNCHANGED <<upload, stored, faults>>
  /\ BrowserRests /\ UNCHANGED recorded

\* An object of another size than announced is deleted.
CheckSize ==
  /\ \/ Serve("composed", "counted") /\ stored = Part /\ UNCHANGED <<upload, stored, faults>>
     \/ Serve("composed", "refused") /\ upload' = "gone" /\ stored' = {}
        /\ IF stored = Part THEN Fault ELSE UNCHANGED faults
  /\ BrowserRests /\ UNCHANGED recorded

RecordUpload ==
  /\ \/ Serve("counted", "fine") /\ recorded' = TRUE /\ UNCHANGED faults
     \/ Serve("counted", "failing") /\ Fault /\ UNCHANGED recorded
  /\ BrowserRests /\ UNCHANGED <<upload, stored>>

\* The object of an upload that could not be recorded is deleted, if that works.
EraseObject ==
  /\ Serve("failing", "refused")
  /\ \/ upload' = "gone" /\ stored' = {} /\ UNCHANGED faults
     \/ Fault /\ UNCHANGED <<upload, stored>>
  /\ BrowserRests /\ UNCHANGED recorded

WorkerStep(w) == Claim(w) \/ SignPart(w) \/ PutPart(w)
BrowserStep == Initiate \/ AskComplete \/ GiveUpParts \/ CompletionFails \/ CompletionSucceeds \/ Abort
ServerStep == Refuse \/ Compose \/ CheckSize \/ RecordUpload \/ EraseObject

UploadNext == BrowserStep \/ ServerStep \/ \E w \in PartWorker : WorkerStep(w)

UploadSpec == UploadInit /\ [][UploadNext]_uploadVars

-----------------------------------------------------------------------------
\* When the server is asked to complete an upload it is told every part, each
\* once and in order, and the store holds them all, however the workers took turns.
CompleteNamesEveryPart ==
  server.at # "none" =>
    /\ server.parts = [i \in Part |-> i]
    /\ upload # "gone" => stored = Part

\* An upload the browser reports as failed leaves no version behind.
FailedLeavesNothing == browser = "failed" /\ server.at \in {"none", "fine", "refused"} => ~recorded
=============================================================================
