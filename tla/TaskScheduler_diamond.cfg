SPECIFICATION Spec
CONSTANTS
    p1 = p1
    p2 = p2
    w1 = w1
    w2 = w2
    c1 = c1
    npu = npu
    dsp = dsp
    NoContext = NoContext
    NoResource = NoResource
    Packets = {p1, p2}
    Idx <- PacketIdx
    N = 5
    Children <- Diamond
    Workers = {w1, w2}
    ResourceTypes = {npu, dsp}
    NodeResource <- BranchesOnNpu
    Contexts = {c1}
    ContextType <- OneContext
    TimedTypes = {npu}
    MayFail = {1, 4}
    MayEscape = {1}
CHECK_DEADLOCK FALSE
SYMMETRY WorkerSymmetry
INVARIANTS
    DependencyOrder
    InputsProduced
    HandoverSafe
    ResultComplete
    ContextsConserved
PROPERTIES
    ExactlyOnce
    ImplementsExecution
