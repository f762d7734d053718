SPECIFICATION Spec
CONSTANTS
    None = None Data = Data
    Actions <- MCActions Rank <- MCRank DataFieldsOf <- DataFieldsOfAction
    PayloadSchemaOf <- PayloadSchemaOfAction UsageSchemaOf <- UsageSchemaOfAction
INVARIANTS FieldsFitShapes DataFieldsComplete RouteOrderIrrelevant RouteGuardsShown FailuresAnswered SuccessAnswered ModelsShownAlike
PROPERTY FirstSourceWins
