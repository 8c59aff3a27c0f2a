SPECIFICATION Spec
CONSTANTS
    Admins = {m1, m2}
    Agents = {a1, a2, a3}
    NoAgent = NoAgent
    Plans = {"starter", "growth"}
    LimitChoices = {0, 1}
    MaxAgents = 1
SYMMETRY Symmetry
INVARIANTS TypeOK ActiveBound
