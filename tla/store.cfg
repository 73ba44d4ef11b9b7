CONSTANTS
    None = None
    c1 = c1  l1 = l1  n1 = n1  h1 = h1  h2 = h2  o1 = o1  o2 = o2  o3 = o3  p1 = p1  p2 = p2
    CreateIds = {c1}
    ResumeIds = {n1}
    LegacyIds = {l1}
    HostIds = {h1, h2}
    OpIds = {o1, o2, o3}
    Targets = {"Starting", "Cancelled", "Interrupted"}
    Reconcilers = {p1, p2}
    Parented = {TRUE, FALSE}
    Resumable = {TRUE, FALSE}
    MaxRevision = 4
SPECIFICATION MCSpec
SYMMETRY StoreSymmetry
CHECK_DEADLOCK FALSE
INVARIANTS TypeOK FenceMonotone ReconciledOwnersGone ReferencesResolve EventLogComplete OperationAppliedOnce AttemptsFollowTerminal NoLostNotification
PROPERTIES TerminalImmutable DeliveryForward
