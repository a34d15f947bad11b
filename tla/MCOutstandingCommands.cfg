\* Two connections, two keys, three commands; feedback is arbitrary.
SPECIFICATION OCFairSpec
CONSTANTS
    Conns = {c1, c2}
    Keys = {k1, k2}
    CmdExecTimeout = 1
    MaxCmds = 3
    MaxAnswers = 2
INVARIANTS
    OCTypeOK
    ActTermIsFinal
    SelectAnsweredOnce
PROPERTIES
    ListDrains
