SPECIFICATION Spec
CONSTANTS
    Objects = 4
    MaxReferences = 4
    MaxKids = 2
    Kinds = {"str", "alien", "crash", "overlong", "carrier", "array", "set", "run", "class"}
    Heads <- SomeHeads
    Ident = {"a"}
    TextBefore <- Earlier
    Limit = 11
    HookFrames = 4
INVARIANTS NoBlankWritten AnswersAsSpellable WritesTheValue PathLeadsToFault
