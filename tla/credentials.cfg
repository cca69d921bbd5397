SPECIFICATION Spec
CONSTANTS
    Grants = {g1}
    Requests = {q1, q2}
    AdminValues = {a1, a2}
    EngineValues = {e1}
    MaxBoots = 2
    Unset = Unset
    Absent = Absent
SYMMETRY Interchangeable
INVARIANTS TypeOK AdmittedWasLive RefusedWasDead GatewayErrorsJustified OneKeyForTheOwner EngineInStep GrantsOutliveRestarts
