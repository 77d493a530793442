SPECIFICATION Spec
CONSTANTS
    Objects = 4
    MaxReferences = 4
    MaxKids = 2
    Kinds = {"null", "str", "unspellable", "alien", "stray", "enum", "tagged", "array", "list", "dict", "class"}
    Heads <- SomeHeads
    Ident = {"a"}
    TextBefore <- Earlier
    Limit = 6
    HookFrames = 0
INVARIANTS TypeOK WritesTheValue WrittenIsReadable PathLeadsToFault
