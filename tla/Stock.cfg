CONSTANTS
    Locations = {"bar", "store"}
    Items = {"beans", "syrup"}
    Documents = {1, 2, 41, 42, 51, 52, 61}
    Manual = 0
    Opening <- MCOpening
    Counts = {71}
    MaxQuantity = 2
    Budgets <- MCBudgets
    Lines <- MCLines
    Quantity <- MCQuantity
    WithModifier = {2}
    TicketLines <- MCTickets
    Policies <- MCPolicies
    RecipeVersions <- MCRecipes
    RouteVersions <- MCRoutes
    EffectVersions <- MCEffects
    PoliciesFirst <- MCPoliciesFirst
    VersionsFirst <- MCVersionsFirst
    MaxTime = 1
    OrderLines <- MCOrderLines
    Receipts = {41, 42}
    Returns = {51, 52}
    Batches = {61}
    Output = "syrup"
    Inputs <- MCInputs
    Yield = 2
SPECIFICATION Spec
CHECK_DEADLOCK FALSE
INVARIANTS TypeOK ShortageIsAuthorised ReversedIsNeutral CancelledIsPutBack PurchaseWithinOrder
PROPERTY ImplementsLineStock
