SPECIFICATION Spec
CONSTANTS
    Ident = {"a", "null"}
    Text = {"a"}
    Number = {"0"}
    MaxTokens = 9
    Limit = 4
INVARIANTS TypeOK NeverPastEnd TagTakesNoSymbol ReadsTheGrammar RefusesOnlyNonsense TooDeepIsDeep
