SPECIFICATION Spec
CONSTANT Scenes <- MCScenes
INVARIANT BindsArrive
CHECK_DEADLOCK FALSE
