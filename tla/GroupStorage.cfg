SPECIFICATION Spec
CONSTANTS
    p1 = p1
    a1 = a1
    a2 = a2
    Pids = {p1}
    Addrs = {a1}
    Pid <- MCPid
    MaxTs = 4
    Encoded <- MCEncodedTwoNodes
    Bucket <- MCBucketTwoNodes
    Versions = 2
    MaxOps = 3
INVARIANTS
    DigestExact
    NewestRetained
