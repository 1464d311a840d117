SPECIFICATION FairSpec
CONSTANTS
    p1 = p1
    p2 = p2
    w1 = w1
    w2 = w2
    c1 = c1
    npu = npu
    dsp = dsp
    NoContext = NoContext
    NoResource = NoResource
    Packets = {p1, p2}
    Idx <- PacketIdx
    N = 4
    Children <- SideBranch
    Workers = {w1, w2}
    ResourceTypes = {npu, dsp}
    NodeResource <- UnregisteredDsp
    Contexts = {c1}
    ContextType <- OneContext
    TimedTypes = {npu}
    MayFail = {1}
    MayEscape = {}
PROPERTIES
    Delivery
