SPECIFICATION ConsoleSpec
CONSTANTS
    first = first
    second = second
    food = food
    tools = tools
    paper = paper
    box = box
    rate = rate
    cap = cap
    Sessions = {first, second}
    Original = {food, tools}
    Added = {paper}
    Keywords = {box}
    Settings = {rate, cap}
    Values = {1, 2}
    DefaultConfig <- MCDefaultConfig
    MaxRows = 3
    MaxPatches = 2
    MaxRequests = 3
SYMMETRY Either
INVARIANTS
    InterventionsChain
    KeywordsStayApart
PROPERTIES
    ChangesWhatWasAsked
CHECK_DEADLOCK FALSE
