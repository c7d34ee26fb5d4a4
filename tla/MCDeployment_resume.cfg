SPECIFICATION DeploySpec
CONSTANTS
    MaxInstances = 5
    MaxProposals = 2
    MaxMachines = 2
INVARIANTS DeployTypeOK FileIsTrue KeysStillTheirs CompleteIsWired
PROPERTY RecordStays
