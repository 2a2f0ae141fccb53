CONSTANTS
    Replicas = {r1, r2}
    CUs = {u1, u2}
    Units <- MCUnits
    Catalogs <- MCCatalogs
    SOCs = {0, 50, 90}
    Rules <- MCRules
    Cooldowns = {2}
    TTL = 1
    MaxAge = 2
    MaxNow = 3
    MaxVersion = 3
SYMMETRY MCSymmetry
SPECIFICATION Spec
INVARIANTS
    OnePlanPerWindow
    PlansAreCurrent
    AllocationIsFair
CHECK_DEADLOCK FALSE
