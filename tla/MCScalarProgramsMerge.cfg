CONSTANTS
    MaxFinite = 7
    MaxInteger = 7
    MaxRegisters = 24
    MaxInstructions = 48
    MaxFunctions = 4
    MaxModuleFunctions = 4
    MaxBlocks = 8
    Sources <- MCMergeSources
    Limits <- MCLimits
SPECIFICATION Spec
INVARIANTS
    ModuleComputesSource
