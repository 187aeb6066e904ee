SPECIFICATION Spec
CONSTANT Scenes <- MCScenes
INVARIANTS WritableWasAsked SecretsArrive BindsOutlast FilterExact
CHECK_DEADLOCK FALSE
