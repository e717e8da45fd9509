CONSTANTS
    Tasks <- EveryTask
    MaxAttempts = 6
SPECIFICATION GovernanceSpec
INVARIANTS
    AuditPasses
    
