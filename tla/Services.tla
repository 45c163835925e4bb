------------------------------- MODULE Services -------------------------------
(***************************************************************************)
(* What the process offers beside its streams: the web interface, which    *)
(* changes the configuration and what runs, its sessions and its login     *)
(* limit (internal/web), and AI detection with its models and its alarms   *)
(* (internal/ai, internal/gbalarm).  Web configuration and sessions act on *)
(* each other (WebConfig EXTENDS WebSessions).  The other parts keep locks *)
(* and state of their own, so each is explored by itself.                  *)
(***************************************************************************)
EXTENDS WebConfig, LoginLimiter, Models, Detection

CONSTANTS KindSets,         \* the kinds of web requests explored together
          Parts             \* the parts to explore

ASSUME KindSetsAssumption == KindSets # {}
ASSUME PartsAssumption == Parts \subseteq {"web", "limiter", "models", "detection"}

VARIABLE part

vars == <<webVars, limiterVars, modelVars, detectionVars, part>>

Init ==
    /\ part \in Parts
    /\ WebInit /\ LimiterInit /\ ModelsInit /\ DetectionInit
    /\ kinds \in KindSets
    /\ part # "web" => kinds = CHOOSE set \in KindSets : TRUE
    /\ part # "detection" => tap /\ webRuns /\ reporting

WebStep == part = "web" /\ WebNext /\ UNCHANGED <<limiterVars, modelVars, detectionVars, part>>
LimiterStep == part = "limiter" /\ LimiterNext /\ UNCHANGED <<webVars, modelVars, detectionVars, part>>
ModelsStep == part = "models" /\ ModelsNext /\ UNCHANGED <<webVars, limiterVars, detectionVars, part>>
DetectionStep == part = "detection" /\ DetectionNext /\ UNCHANGED <<webVars, limiterVars, modelVars, part>>

Next == WebStep \/ LimiterStep \/ ModelsStep \/ DetectionStep

Spec == Init /\ [][Next]_vars

===============================================================================
