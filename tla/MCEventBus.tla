----------------------------- MODULE MCEventBus -----------------------------
(* usage: the usage-event consumer, whose handler throws; consent: a       *)
(* consumer of event-consumers.service.ts, whose handler catches; trigger: *)
(* a rule of event-trigger.service.ts, as it subscribes.                   *)
EXTENDS EventBus

MCEventType ==
  [e \in Events |-> IF e = "consentRevoked" THEN <<"consent", "revoked">>
                    ELSE IF e = "retentionTriggered" THEN <<"retention", "policy", "triggered">>
                    ELSE <<"usage", "recorded">>]

MCPattern ==
  [d \in Durables |-> IF d = "consent" THEN <<"consent", "revoked">>
                      ELSE IF d = "trigger"
                           THEN <<"privacyops", "retention", "policy", "triggered">>
                      ELSE <<"usage", "recorded">>]

TriggersFire ==
  TriggersRun({"trigger"} \intersect Durables,
              [d \in {"trigger"} |-> <<"retention", "policy", "triggered">>])
=============================================================================
