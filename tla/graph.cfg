SPECIFICATION GraphSpec
CONSTANTS
    x = x
    y = y
    Synth = {x, y}
    Defs <- AllDefs
    WorldBlock = 2
    MaxWireBufs = 6
    MaxUnitOutputs = 2
    MaxDemandState = 8
    MaxDemandDepth = 2
    MetaBytes = 20
    MaxBlocks = 2
    MaxSets = 1
SYMMETRY Interchangeable
INVARIANTS SynthsApart TrigOneTick PlansSound
