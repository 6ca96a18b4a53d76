SPECIFICATION Spec
CONSTANTS
    Sessions = {s1, s2}
    MaxHeight = 2
    MaxTick = 1
    MaxPolls = 2
INVARIANT
    NewBlockRetiresOldTemplates
