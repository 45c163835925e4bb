------------------------------- MODULE Models -------------------------------
(***************************************************************************)
(* The AI models (internal/ai: registry.go, service.go; internal/web:      *)
(* api.go): requests upload, delete and activate models while the service  *)
(* runs the active one, and the process may be killed and start again.     *)
(* The registry's lock and the service's lock are each held for one step   *)
(* of a request only.                                                      *)
(***************************************************************************)
EXTENDS Naturals, FiniteSets

CONSTANTS Clients,          \* requests in flight at a time
          Uploads,          \* ids that may be uploaded
          MaxModelRequests, MaxModelFaults, MaxKills

Builtin == "builtin"
Disabled == "disabled"

ASSUME ModelsAssumption ==
    /\ {Builtin, Disabled} \intersect Uploads = {}
    /\ {MaxModelRequests, MaxModelFaults, MaxKills} \subseteq Nat

VARIABLES entries,      \* regEntries: how many entries each uploaded id has
          manifest,     \* what uploaded.json lists: nothing, if it cannot be read
          torn,         \* a write of uploaded.json was cut short and none came after it
          forgotten,    \* the process started with such a file
          modelFiles,   \* ids whose <id>.onnx exists
          active,       \* Service.modelID, or Disabled
          saved,        \* ai.model in config.yaml
          slot,         \* Service.detector
          built,        \* detectors built so far
          opened,       \* those whose session is not destroyed
          validated,    \* those that only validated an upload
          detecting,    \* the detector inside Detect, or 0
          client,       \* the requests
          raced,        \* ids for which requests overlapped
          unsavedChoice,\* a choice could not be written to config.yaml
          modelRequests, modelFaults, kills

modelVars == <<entries, manifest, torn, forgotten, modelFiles, active, saved, slot, built, opened,
               validated, detecting, client, raced, unsavedChoice,
               modelRequests, modelFaults, kills>>
lists == <<entries, manifest, torn, forgotten>>
registry == <<lists, modelFiles>>
service == <<active, slot, built, opened, validated, detecting>>
choice == <<saved, unsavedChoice>>
bounds == <<modelRequests, kills>>

Ids == Uploads \union {Builtin}
NoRequest == [kind |-> "none", id |-> Builtin, pc |-> "idle", det |-> 0]

ModelsInit ==
    /\ entries = [i \in Uploads |-> 0] /\ manifest = entries /\ modelFiles = {}
    /\ torn = FALSE /\ forgotten = FALSE
    /\ active = Builtin /\ saved = Builtin
    /\ slot = 1 /\ built = 1 /\ opened = {1} /\ validated = {} /\ detecting = 0
    /\ client = [c \in Clients |-> NoRequest]
    /\ raced = {} /\ unsavedChoice = FALSE
    /\ modelRequests = 0 /\ modelFaults = 0 /\ kills = 0

Found(id) == id \in {Builtin} \union {i \in Uploads : entries[i] > 0}    \* ai.Find
OnDevice(id) == id \in {Builtin} \union modelFiles
ModelFault == modelFaults < MaxModelFaults /\ modelFaults' = modelFaults + 1
NoModelFault == UNCHANGED modelFaults

Step(c, pc) == client' = [client EXCEPT ![c].pc = pc]
Answered(c) == client' = [client EXCEPT ![c] = NoRequest]

(* What a request is about: an activation also takes the active model out of
   use, and leaves its file and entry to anybody's delete. *)
About(kind, id) == IF kind = "activate" THEN {id, active, saved} ELSE {id}
InProgress == UNION {About(client[c].kind, client[c].id) :
                       c \in {d \in Clients : client[d].pc # "idle"}}

BeginRequest(c, kind, id) ==
    /\ client[c].pc = "idle" /\ modelRequests < MaxModelRequests
    /\ kind = "upload" => id # Builtin
    /\ client' = [client EXCEPT ![c] = [kind |-> kind, id |-> id, pc |-> kind, det |-> 0]]
    /\ raced' = IF About(kind, id) \intersect InProgress = {} THEN raced
                ELSE raced \union About(kind, id) \union InProgress
    /\ modelRequests' = modelRequests + 1
    /\ UNCHANGED <<registry, service, choice, modelFaults, kills>>

(* Every answer with an error before anything has changed. *)
Refuse(c) ==
    /\ \/ client[c].pc \in {"upload", "validate", "activate", "build"} /\ ModelFault
       \/ client[c].pc = "upload" /\ Found(client[c].id) /\ NoModelFault
       \/ client[c].pc = "validate" /\ active = Disabled /\ NoModelFault
       \/ client[c].pc = "delete" /\ NoModelFault
          /\ \/ active = client[c].id
             \/ client[c].id = Builtin
       \/ client[c].pc = "remove" /\ NoModelFault /\ ~Found(client[c].id)
       \/ client[c].pc = "activate" /\ NoModelFault
          /\ ~(active # Disabled /\ Found(client[c].id) /\ OnDevice(client[c].id))
    /\ Answered(c)
    /\ UNCHANGED <<registry, service, choice, raced, bounds>>

-----------------------------------------------------------------------------
(* handleAIModelUpload.  The session ValidateModel loads is not closed. *)
UploadChecked(c) ==
    /\ client[c].pc = "upload" /\ ~Found(client[c].id)
    /\ Step(c, "validate")
    /\ UNCHANGED <<registry, service, choice, raced, modelFaults, bounds>>

Validated(c) ==
    /\ client[c].pc = "validate" /\ active # Disabled
    /\ built' = built + 1
    /\ opened' = opened \union {built'} /\ validated' = validated \union {built'}
    /\ Step(c, "rename")
    /\ UNCHANGED <<registry, active, slot, detecting, choice, raced, modelFaults, bounds>>

Renamed(c) ==
    /\ client[c].pc = "rename"
    /\ \/ modelFiles' = modelFiles \union {client[c].id} /\ Step(c, "register") /\ NoModelFault
       \/ ModelFault /\ Answered(c) /\ UNCHANGED modelFiles
    /\ UNCHANGED <<lists, service, choice, raced, bounds>>

(* writeManifest: os.WriteFile empties the file, writes the whole list of the
   memory and closes it.  One that fails at the first, second or third of these
   leaves the old list, a document that does not parse, or the new list. *)
Unreadable == [i \in Uploads |-> 0]

ManifestWritten(list) == manifest' = list /\ torn' = FALSE /\ NoModelFault

ManifestFails(list) ==
    /\ ModelFault
    /\ \/ UNCHANGED <<manifest, torn>>
       \/ manifest' = Unreadable /\ torn' = TRUE
       \/ manifest' = list /\ torn' = FALSE

(* RegisterUploaded: the manifest first; a write that fails takes the model file
   away again. *)
Registered(c) ==
    /\ client[c].pc = "register"
    /\ LET id == client[c].id
           added == [entries EXCEPT ![id] = @ + 1]
       IN  \/ ManifestWritten(added) /\ entries' = added /\ UNCHANGED modelFiles
           \/ ManifestFails(added) /\ modelFiles' = modelFiles \ {id} /\ UNCHANGED entries
    /\ Answered(c)
    /\ UNCHANGED <<forgotten, service, choice, raced, bounds>>

(* handleAIModelDelete: the active model is refused, then the entry goes (an
   error of the manifest is ignored), then the file. *)
DeleteChecked(c) ==
    /\ client[c].pc = "delete" /\ active # client[c].id /\ client[c].id # Builtin
    /\ Step(c, "remove")
    /\ UNCHANGED <<registry, service, choice, raced, modelFaults, bounds>>

RemoveUploaded(c) ==
    /\ client[c].pc = "remove" /\ Found(client[c].id)
    /\ entries' = [entries EXCEPT ![client[c].id] = @ - 1]
    /\ ManifestWritten(entries') \/ ManifestFails(entries')
    /\ Step(c, "unlink")
    /\ UNCHANGED <<forgotten, modelFiles, service, choice, raced, bounds>>

Unlinked(c) ==
    /\ client[c].pc = "unlink"
    /\ modelFiles' = modelFiles \ {client[c].id}
    /\ Answered(c)
    /\ UNCHANGED <<lists, service, choice, raced, modelFaults, bounds>>

-----------------------------------------------------------------------------
(* handleAIModelActivate, ActivateModel. *)
ActivateFinds(c) ==
    /\ client[c].pc = "activate" /\ active # Disabled
    /\ Found(client[c].id) /\ OnDevice(client[c].id)
    /\ Step(c, "build")
    /\ UNCHANGED <<registry, service, choice, raced, modelFaults, bounds>>

Builds(c) ==
    /\ client[c].pc = "build"
    /\ IF OnDevice(client[c].id)
       THEN /\ built' = built + 1 /\ opened' = opened \union {built'}
            /\ client' = [client EXCEPT ![c].pc = "swap", ![c].det = built']
       ELSE Answered(c) /\ UNCHANGED <<built, opened>>
    /\ UNCHANGED <<registry, active, slot, validated, detecting, choice, raced, modelFaults, bounds>>

(* Mutant of Swaps: the detector to close is the one there was at first. *)
SwapsFirst(c) ==
    /\ client[c].pc = "swap"
    /\ slot' = client[c].det /\ active' = client[c].id
    /\ client' = [client EXCEPT ![c].pc = "close", ![c].det = 1]
    /\ UNCHANGED <<registry, built, opened, validated, detecting, choice, raced, modelFaults, bounds>>

Swaps(c) ==
    /\ client[c].pc = "swap"
    /\ slot' = client[c].det /\ active' = client[c].id
    /\ client' = [client EXCEPT ![c].pc = "close", ![c].det = slot]
    /\ UNCHANGED <<registry, built, opened, validated, detecting, choice, raced, modelFaults, bounds>>

(* Close waits for the inference that runs in this detector. *)
Closes(c) ==
    /\ client[c].pc = "close" /\ detecting # client[c].det
    /\ opened' = opened \ {client[c].det}
    /\ client' = [client EXCEPT ![c].pc = "persist", ![c].det = 0]
    /\ UNCHANGED <<registry, active, slot, built, validated, detecting, choice, raced, modelFaults, bounds>>

Persists(c) ==
    /\ client[c].pc = "persist"
    /\ \/ saved' = client[c].id /\ NoModelFault /\ UNCHANGED unsavedChoice
       \/ ModelFault /\ unsavedChoice' = TRUE /\ UNCHANGED saved
    /\ Answered(c)
    /\ UNCHANGED <<registry, service, raced, bounds>>

(* The service loop reads the slot, then runs Detect without the lock.  A
   detector that was closed in between answers with an error, which changes
   nothing here. *)
LoopDetects ==
    /\ active # Disabled
    /\ detecting' \in IF detecting = 0 THEN {slot} \intersect opened ELSE {0}
    /\ UNCHANGED <<registry, active, slot, built, opened, validated, client, choice, raced, modelFaults, bounds>>

-----------------------------------------------------------------------------
(* The process is killed, maybe in the middle of a write of uploaded.json. *)
WritesManifest ==
    \E c \in Clients : \/ client[c].pc = "register"
                       \/ client[c].pc = "remove" /\ Found(client[c].id)
CutShort(list) == IF WritesManifest THEN {list, Unreadable} ELSE {list}

(* InitRegistry keeps the entries that have their file, and writes the list
   again if there are others; it loads none from a file that does not parse, and
   leaves that as it is. *)
Kept(list) == [i \in Uploads |-> IF i \in modelFiles THEN list[i] ELSE 0]

InitRegistry(list, unread) ==
    /\ entries' = Kept(list)
    /\ forgotten' = (forgotten \/ unread)
    /\ \/ manifest' = Kept(list) /\ torn' = unread /\ NoModelFault
       \/ Kept(list) # list /\ ManifestFails(Kept(list))

(* The next process: InitRegistry, then Resolve of the configured model.  If that
   is not there, the service stays disabled. *)
Restarts ==
    /\ kills < MaxKills /\ kills' = kills + 1
    /\ \E list \in CutShort(manifest) : InitRegistry(list, torn \/ list # manifest)
    /\ client' = [c \in Clients |-> NoRequest]
    /\ validated' = {} /\ detecting' = 0
    /\ IF saved = Builtin \/ entries'[saved] > 0
       THEN active' = saved /\ built' = built + 1 /\ slot' = built' /\ opened' = {built'}
       ELSE active' = Disabled /\ slot' = 0 /\ opened' = {} /\ UNCHANGED built
    /\ UNCHANGED <<modelFiles, choice, raced, modelRequests>>

ModelsNext ==
    \/ \E c \in Clients :
         \/ \E kind \in {"upload", "delete", "activate"}, id \in Ids : BeginRequest(c, kind, id)
         \/ Refuse(c) \/ UploadChecked(c) \/ Validated(c) \/ Renamed(c) \/ Registered(c)
         \/ DeleteChecked(c) \/ RemoveUploaded(c) \/ Unlinked(c)
         \/ ActivateFinds(c) \/ Builds(c) \/ Swaps(c) \/ Closes(c) \/ Persists(c)
    \/ LoopDetects \/ Restarts

ModelsSpec == ModelsInit /\ [][ModelsNext]_modelVars

-----------------------------------------------------------------------------
(* Sessions do not pile up in a small memory (service.go: ActivateModel,
   ort_detector.go: Close): whatever activations overlap, the open ones are
   the one in use, those an activation is about to install or to close, and
   those that validated an upload since the process started, which stay. *)
DetectorsReleased ==
    opened \ validated =
        (IF active = Disabled THEN {} ELSE {slot})
        \union ({client[c].det : c \in Clients} \ {0})

(* Every uploaded entry is there once and has its file, unless requests about
   that id overlapped (api.go checks, registers and removes in separate steps).
   And the model in config.yaml is found, unless requests about it overlapped, a
   choice could not be saved, or the process started with an uploaded.json whose
   last write was cut short, which costs every upload (registry.go:73); as long as
   it is not cut short, the next start finds that model too, whatever failed or
   was killed before. *)
RegistrySound ==
    /\ \A id \in Uploads \ raced : entries[id] <= 1 /\ (entries[id] = 1 => id \in modelFiles)
    /\ saved # Builtin => \/ saved \in raced \/ unsavedChoice \/ forgotten
                          \/ entries[saved] > 0 /\ (torn \/ Kept(manifest)[saved] > 0)

(* Both, over every overlap of requests, inference and restarts. *)
ModelsSound == DetectorsReleased /\ RegistrySound

=============================================================================
