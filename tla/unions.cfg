SPECIFICATION Spec
CONSTANTS
    red = red
    blue = blue
    order = order
    SetTag = SetTag
    Whole = Whole
    Name = {red, blue, order, SetTag}
    Shapes <- AllShapes
    MaxMembers = 3
INVARIANTS TypeOK DispatchesToReader RefusedIsAmbiguous
PROPERTIES FillNeverCollides
CHECK_DEADLOCK FALSE
