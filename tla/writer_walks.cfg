SPECIFICATION Spec
CONSTANTS
    Objects = 4
    MaxReferences = 4
    MaxKids = 2
    Kinds = {"str", "set"}
    Heads <- SomeHeads
    Ident = {"a"}
    TextBefore <- Earlier
    Limit = 11
    HookFrames = 4
INVARIANTS ConvertedOnce
