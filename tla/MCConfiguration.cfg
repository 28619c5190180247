SPECIFICATION Spec
CONSTANTS
    Groups = {"g"}
    Members = {"m"}
    Types = {"known", "unknown"}
    Available = {"known"}
    Routes <- MCRoutes
    MaxElements = 4
    MaxRoutes = 2
INVARIANTS
    TypeOK
    RoutesLeadSomewhere
    FullNamesAreExact
CHECK_DEADLOCK FALSE
