\* Two waiters, commits of this and of another process.  A run may have ended, and
\* everyone have returned: then nothing happens any more.
CONSTANTS
    None = None
    permission = permission
    authentication = authentication
    WaitCodes = {permission, authentication}
    MaxQueued = 5
    MaxRevision = 12
    MaxErrors = 1
    Waiters = {t1, t2}
    Processes = {"own", "other"}
    WaitRevisions = 2
SPECIFICATION MCSpec
CHECK_DEADLOCK FALSE
INVARIANTS CancelLands EndAgrees
PROPERTIES StartLeaves WaiterReturns
