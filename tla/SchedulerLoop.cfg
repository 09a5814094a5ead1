CONSTANTS
    n1 = n1
    n2 = n2
    Nodes <- MCNodes
    RootUser <- MCRoot
    Pods <- PodsDistinct
    IsBoot = FALSE
    RpcMayFail = TRUE
    MaxSteps = 3
SPECIFICATION Spec
INVARIANTS
    RoutesMatchInstances
