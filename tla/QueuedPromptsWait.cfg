SPECIFICATION Spec
CONSTANTS
    Sessions = {"s1", "s2"}
    MaxDepth = 1
    MaxPrompts = 2
CHECK_DEADLOCK FALSE
PROPERTY QueuedPromptsWait
