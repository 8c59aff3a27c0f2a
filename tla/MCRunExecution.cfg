SPECIFICATION Spec
CONSTANTS
    Requests = {r1, r2}
    Customers = {"alice"}
    Agents = {"support"}
    Plans = {"starter"}
    LimitChoices <- MovingLimits
    MaxMessages = 2
    MaxTokenCap = 6
    MessageLengths = {5}
    OutputLengths = {3, 20}
    MaxMonth = 1
SYMMETRY Symmetry
INVARIANTS TypeOK MessagesBound TokensBound RunsAreEntitled
