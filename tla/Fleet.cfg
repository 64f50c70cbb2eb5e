\* Two machines that share a host name; the metadata service of one of them may not answer.
CONSTANTS
    m1 = m1
    m2 = m2
    i1 = i1
    h1 = h1
    Machines = {m1, m2}
    Ids = {i1, h1}
    None = None
    NodeId <- MCNodeId
    Instance <- MCInstance
    Host <- MCHost
    PartOf <- MCPartOf
    OnlineThreshold = 1
SPECIFICATION FleetFairSpec
INVARIANTS OneEntryPerRun AnswerIsAsked StatusFits
PROPERTIES FleetSettles AlarmComes RefinesReports
