\* A machine may be online under two names; ec2.list: "Online" may be more than "Total".
\* Both invariants are violated, each on its own.
CONSTANTS
    m1 = m1
    m2 = m2
    i1 = i1
    h1 = h1
    Machines = {m1, m2}
    Ids = {i1, h1}
    None = None
    NodeId <- MCNodeId
    Instance <- MCInstance
    Host <- MCHost
    PartOf <- MCPartOf
    OnlineThreshold = 1
SPECIFICATION FleetSpec
INVARIANTS OneEntryPerMachine ListFits
