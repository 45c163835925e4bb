------------------------------ MODULE WebConfig ------------------------------
(***************************************************************************)
(* The requests of the web server that write config.yaml (internal/web:    *)
(* handlers.go, api.go, auth.go, web.go) and what they apply at once: PUT  *)
(* /api/config, a flip, the activation of an AI model, setup and reset of  *)
(* the password.  Each reads the file, merges its change and replaces the  *)
(* file, and no lock is held from the read to the rename.  A change then   *)
(* takes effect in memory, by a restart of the camera in place, or by a    *)
(* restart of the process, which drops every request in flight.            *)
(***************************************************************************)
EXTENDS WebSessions

CONSTANTS Handlers,       \* requests in flight at a time
          MaxRequests, MaxFaults, MaxBoots

ASSUME WebAssumption == {MaxRequests, MaxFaults, MaxBoots} \subseteq Nat

VARIABLES file,         \* config.yaml
          boot,         \* the configuration the process was started with
          camera,       \* rotation of the camera that runs
          memory,       \* what requests change in memory: user, pass, hflip, model
          req,          \* the requests
          restarting,   \* selfRestart was called: SIGTERM is on its way
          up,           \* the process runs; FALSE: its start fails for ever
          excused,      \* see SavedIsRunning
          requests, faults, boots, kinds, numeric

webVars == <<sessionVars, file, boot, camera, memory, req, restarting, up,
             excused, requests, faults, boots, kinds, numeric>>
counters == <<boots, kinds, up>>

(* One key for each way a setting takes effect.  "gb" is any setting of a
   section that only the start of the process reads, "origins" a setting of
   the web section beside the credentials. *)
Keys == {"rotation", "hflip", "gb", "origins", "user", "pass", "model"}
InMemory == {"user", "pass", "hflip", "model"}

Original == [rotation |-> 0, hflip |-> "false", gb |-> 0, origins |-> 1,
             user |-> 0, pass |-> 1, model |-> 0]

(* config.Load: the YAML decoder refuses a number for a bool field, Validate
   refuses a rotation that is no quarter turn. *)
Loads(config) == config.hflip \in {"false", "true"} /\ config.rotation \in {0, 90, 180, 270}

AsBool(flip) == flip \in {"true", "1"}
Portrait(rotation) == rotation \in {90, 270}    \* RotatedDims
InMemoryOf(config) == [user |-> config.user, pass |-> config.pass,
                       hflip |-> AsBool(config.hflip), model |-> config.model]

Idle == [kind |-> "none", pc |-> "idle", change |-> <<>>, copy |-> Original]

(* What the clients ask for.  "1" is a flip posted as a number, which Validate
   of the parameter manager accepts; 45 a value that config.Validate refuses. *)
Puts == {[rotation |-> 90], [rotation |-> 180], [rotation |-> 45],
         [rotation |-> 0, gb |-> 1], [user |-> 1, pass |-> 2]}
Requests ==
    [kind : {"put"}, change : Puts]
    \union [kind : {"flip"}, change : {[hflip |-> f] : f \in {"true", "false", "1"}}]
    \union [kind : {"model"}, change : {[model |-> 1]}]
    \union [kind : {"reset"}, change : {[user |-> 0, pass |-> p, origins |-> 0] : p \in {2, 3}}]
    \union [kind : {"setup"}, change : {[user |-> 1, pass |-> 2, origins |-> 0]}]

WebInit ==
    /\ SessionsInit
    /\ \E pass \in {0, 1} : file = [Original EXCEPT !.pass = pass]
    /\ boot = file /\ camera = file.rotation /\ memory = InMemoryOf(file)
    /\ req = [h \in Handlers |-> Idle]
    /\ restarting = FALSE /\ up = TRUE /\ excused = {} /\ numeric = FALSE
    /\ requests = 0 /\ faults = 0 /\ boots = 0

-----------------------------------------------------------------------------
Goto(h, pc) == req' = [req EXCEPT ![h].pc = pc]
Answer(h) == req' = [req EXCEPT ![h] = Idle]
Fault == faults < MaxFaults /\ faults' = faults + 1

InFlight(h) == {g \in Handlers \ {h} : req[g].pc # "idle"}
Changing(h) == DOMAIN req[h].change

(* A request past authRequired, or a setup while there is no password, in the
   goroutine net/http starts for it.  Two that change one key at a time leave
   it to chance which of memory and file gets which value. *)
Begin(h, r) ==
    /\ req[h].pc = "idle" /\ requests < MaxRequests /\ r.kind \in kinds
    /\ r.kind = "setup" => memory.pass = 0
    /\ requests' = requests + 1
    /\ req' = [req EXCEPT ![h] = [kind |-> r.kind, change |-> r.change, copy |-> file,
                                  pc |-> IF r.kind = "put" THEN "read" ELSE "set"]]
    /\ excused' = excused \union
                    UNION {Changing(g) \intersect DOMAIN r.change : g \in InFlight(h)}
    /\ UNCHANGED <<sessionVars, file, boot, camera, memory, restarting, faults, numeric, counters>>

(* handlePostCameraParam: nothing to do for a flip that the live parameters
   show already; else ParamManager.Set, which may fail, then the file.
   handleAIModelActivate: ActivateModel, which may fail, then the file.
   handleReset and handleSetup: the credentials in memory, then the file; a
   reset writes the user name there is at that time. *)
FlipUnchanged(h) == req[h].kind = "flip" /\ memory.hflip = AsBool(req[h].change.hflip)

SetInMemory(h) ==
    /\ req[h].pc = "set" /\ ~FlipUnchanged(h)
    /\ memory' = CASE req[h].kind = "flip" -> [memory EXCEPT !.hflip = AsBool(req[h].change.hflip)]
                   [] req[h].kind = "model" -> [memory EXCEPT !.model = req[h].change.model]
                   [] req[h].kind = "setup" ->
                        [memory EXCEPT !.user = req[h].change.user, !.pass = req[h].change.pass]
                   [] OTHER -> [memory EXCEPT !.pass = req[h].change.pass]
    /\ req' = [req EXCEPT ![h].pc = "read",
                          ![h].change = IF req[h].kind = "reset"
                                        THEN [@ EXCEPT !.user = memory.user] ELSE @]
    /\ UNCHANGED <<sessionVars, file, boot, camera, restarting, excused, requests, faults, numeric, counters>>

(* Set fails before the camera stored the flip (it is not started), or after
   that (RPiCamera.SetParam, when the pipe to mtxrpicam breaks).  The answer is
   an error and nothing is saved, and the same flip sent again finds nothing to
   do. *)
FlipFails(h) ==
    /\ req[h].pc = "set" /\ req[h].kind = "flip" /\ ~FlipUnchanged(h) /\ Fault
    /\ \/ UNCHANGED <<memory, excused>>
       \/ /\ memory' = [memory EXCEPT !.hflip = AsBool(req[h].change.hflip)]
          /\ excused' = excused \union {"hflip"}
    /\ Answer(h)
    /\ UNCHANGED <<sessionVars, file, boot, camera, restarting, requests, numeric, counters>>

NothingToSet(h) ==
    /\ req[h].pc = "set"
    /\ \/ FlipUnchanged(h) /\ UNCHANGED faults
       \/ req[h].kind = "model" /\ Fault       \* ErrUnknownModel, ErrModelUnavailable, the factory
       \/ req[h].kind = "reset" /\ UNCHANGED faults    \* another old password than memory's
    /\ Answer(h)
    /\ UNCHANGED <<sessionVars, file, boot, camera, memory, restarting, excused, requests, numeric, counters>>

(* os.ReadFile and yaml.Unmarshal; PUT also decodes the old file into a Config. *)
Read(h) ==
    /\ req[h].pc = "read"
    /\ req[h].kind = "put" => file.hflip # "1"
    /\ req' = [req EXCEPT ![h].copy = file, ![h].pc = "write"]
    /\ UNCHANGED <<sessionVars, file, boot, camera, memory, restarting, excused, requests, faults, numeric, counters>>

(* Mutant of Merged: the change is merged into what the process booted with. *)
MergedOnBoot(h) == [k \in Keys |-> IF k \in Changing(h) THEN req[h].change[k] ELSE boot[k]]

Merged(h) == [k \in Keys |-> IF k \in Changing(h) THEN req[h].change[k] ELSE req[h].copy[k]]
Rejected(h) == req[h].kind = "put" /\ ~Loads(Merged(h))    \* PUT alone validates

AfterSave(h) == CASE req[h].kind \in {"put", "flip"} -> "apply"
                  [] req[h].kind = "reset" -> "clear"
                  [] req[h].kind = "setup" -> "create"
                  [] OTHER -> "done"

(* atomicWrite.  The keys that somebody wrote since the read go back. *)
Write(h) ==
    /\ req[h].pc = "write" /\ ~Rejected(h)
    /\ file' = Merged(h)
    /\ numeric' = (numeric \/ req[h].change = [hflip |-> "1"])
    /\ excused' = excused
                    \union {k \in Keys \ Changing(h) : file[k] # req[h].copy[k]}
                    \union (Changing(h) \intersect {"origins"})
    /\ Goto(h, AfterSave(h))
    /\ UNCHANGED <<sessionVars, boot, camera, memory, restarting, requests, faults, counters>>

(* A read or a write that fails, or a rejected document, is answered with an
   error, after what was set in memory; setup and reset go on without the file. *)
NotSaved(h) ==
    /\ \/ req[h].pc = "read" /\ (IF req[h].kind = "put" /\ file.hflip = "1"
                                 THEN UNCHANGED faults ELSE Fault)
       \/ req[h].pc = "write" /\ IF Rejected(h) THEN UNCHANGED faults ELSE Fault
    /\ IF req[h].kind \in {"reset", "setup"} THEN Goto(h, AfterSave(h)) ELSE Answer(h)
    /\ excused' = IF req[h].kind = "put" THEN excused ELSE excused \union Changing(h)
    /\ UNCHANGED <<sessionVars, file, boot, camera, memory, restarting, requests, numeric, counters>>

-----------------------------------------------------------------------------
(* Mutant of CameraRestartEligible: every camera change is applied in place. *)
EligibleForAnyRotation(old, new) == TRUE

(* cameraRestartEligible looks at the camera sections, before and after. *)
CameraRestartEligible(old, new) == Portrait(old.rotation) = Portrait(new.rotation)

TouchesCamera(h) == Changing(h) \intersect {"rotation", "hflip"} # {}
InPlace(h) == TouchesCamera(h)
              /\ (req[h].kind = "put" => CameraRestartEligible(req[h].copy, Merged(h)))

NewUser(h) == IF "user" \in Changing(h) THEN [memory EXCEPT !.user = req[h].change.user]
              ELSE memory

(* restr.Restart: the factory loads the file again, and its flips with it.
   Settings of other sections in the same PUT wait for a start of the process. *)
ApplyInPlace(h) ==
    /\ req[h].pc = "apply" /\ InPlace(h) /\ Loads(file)
    /\ camera' = file.rotation
    /\ memory' = [NewUser(h) EXCEPT !.hflip = AsBool(file.hflip)]
    /\ excused' = (excused \union (Changing(h) \ {"rotation", "hflip", "user"}))
    /\ Answer(h)
    /\ UNCHANGED <<sessionVars, file, boot, restarting, requests, faults, numeric, counters>>

(* The SIGTERM of selfRestart comes half a second later. *)
ApplyByRestart(h) ==
    /\ req[h].pc = "apply"
    /\ IF InPlace(h) /\ Loads(file) THEN Fault ELSE UNCHANGED faults
    /\ restarting' = TRUE
    /\ memory' = NewUser(h)
    /\ Answer(h)
    /\ UNCHANGED <<sessionVars, file, boot, camera, excused, requests, numeric, counters>>

ResetSessions(h) ==
    /\ \/ req[h].pc = "clear" /\ Goto(h, "create")
          /\ \/ Clear(TRUE) /\ UNCHANGED faults
             \/ Fault /\ Clear(FALSE)
       \/ req[h].pc = "create" /\ Answer(h) /\ UNCHANGED faults
          /\ IF issued < MaxTokens THEN Create(TRUE) ELSE UNCHANGED sessionVars
    /\ UNCHANGED <<file, boot, camera, memory, restarting, excused, requests, numeric, counters>>

(* The broadcast of ai_model_changed, and the answer. *)
Done(h) ==
    /\ req[h].pc = "done" /\ Answer(h)
    /\ UNCHANGED <<sessionVars, file, boot, camera, memory, restarting, excused, requests, faults, numeric, counters>>

Handle(h) == SetInMemory(h) \/ FlipFails(h) \/ NothingToSet(h) \/ Read(h) \/ Write(h) \/ NotSaved(h)
             \/ ApplyInPlace(h) \/ ApplyByRestart(h) \/ ResetSessions(h) \/ Done(h)

(* Logins (past the limiter and the comparison) and logouts only touch the
   store. *)
SessionRequest ==
    /\ "session" \in kinds
    /\ \/ \E token \in Tokens : Logout(token, TRUE) /\ UNCHANGED faults
       \/ \E token \in Tokens : Fault /\ Logout(token, FALSE)
       \/ Create(TRUE) /\ UNCHANGED faults
       \/ Fault /\ Create(FALSE)
       \/ SessionsAge /\ UNCHANGED faults
    /\ UNCHANGED <<file, boot, camera, memory, req, restarting, excused, requests, numeric, counters>>

(* POST /api/system/restart. *)
SystemRestart ==
    /\ requests < MaxRequests /\ requests' = requests + 1
    /\ restarting' = TRUE
    /\ UNCHANGED <<sessionVars, file, boot, camera, memory, req, excused, faults, numeric, counters>>

(* The process ends, whatever the requests were doing, and systemd starts it
   again; a file that does not load ends it each time. *)
Reboot ==
    /\ restarting /\ boots < MaxBoots
    /\ boots' = boots + 1
    /\ up' = Loads(file)
    /\ req' = [h \in Handlers |-> Idle]
    /\ boot' = file /\ camera' = file.rotation /\ memory' = InMemoryOf(file)
    /\ LoadSessions
    /\ restarting' = FALSE /\ excused' = {}
    /\ UNCHANGED <<file, requests, faults, kinds, numeric>>

WebNext ==
    /\ up
    /\ \/ \E h \in Handlers, r \in Requests : Begin(h, r)
       \/ \E h \in Handlers : Handle(h)
       \/ SessionRequest \/ SystemRestart \/ Reboot

WebSpec == WebInit /\ [][WebNext]_webVars

-----------------------------------------------------------------------------
Settled == ~restarting /\ \A h \in Handlers : req[h].pc = "idle"

Running == [rotation |-> camera, hflip |-> memory.hflip, gb |-> boot.gb,
            origins |-> boot.origins, user |-> memory.user, pass |-> memory.pass,
            model |-> memory.model]
Saved == [file EXCEPT !.hflip = AsBool(@)]

(* Once no request is in flight and no restart is due, the process runs with
   what config.yaml says, setting by setting (handlers.go: handlePutConfig,
   handlePostCameraParam; api.go: handleAIModelActivate; auth.go: handleReset).
   Excused are the settings for which the code does not see to it: two
   requests for one setting overlapped; a write put back what another request
   had written since the read; the file could not be written after memory was
   changed; the camera stored a flip and could not pass it on, so that it was
   never saved, not even when it was sent again; a PUT changed another section
   together with the camera's and was applied in place; a reset replaced the
   other settings of the web section.
   And no request but a flip posted as a number leaves a file that the next
   start of the process would refuse (handlers.go:151-172). *)
SavedIsRunning ==
    /\ up /\ Settled => \A k \in Keys \ excused : Running[k] = Saved[k]
    /\ numeric \/ Loads(file)

(* The camera has the shape that RTSP, ONVIF and GB28181 announced when the
   process started, unless the process is about to restart
   (config_apply.go, cameraRestartEligible; handlers.go:183-203). *)
GeometryAnnounced ==
    up /\ Portrait(camera) # Portrait(boot.rotation) =>
        restarting \/ \E h \in Handlers : req[h].pc = "apply" /\ ~InPlace(h)

(* handlers.go:151-154 wants a document to be valid before it reaches the file,
   so that the next start does not end the process. *)
FileLoads == Loads(file)

(* Sessions survive the restarts of the process, and revoked ones do not come
   back with them (auth.go:20-23), as long as the store could be written. *)
SessionsAsPromised ==
    ~unsaved => live \ expired = (1 .. issued) \ (revoked \union expired)

===============================================================================
