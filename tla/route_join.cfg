SPECIFICATION CSpec
CONSTANTS
    None = None Empty = Empty Invoke = Invoke C = C show = show store = store
    Fqcns = {C} Methods = {show, store, Invoke} Ids = {1, 2, 3}
    KeyOrder <- MCKeyOrder Requests <- MCRequests Statics <- MCStatics
    Scenarios <- MCScenarios
INVARIANTS StatusExplained RoutesExplained ControllersMatchRoutes ExitTellsOutput RootIsAgreed
