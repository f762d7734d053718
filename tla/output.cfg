SPECIFICATION Spec
CONSTANTS
    None = None F1 = F1 F2 = F2 F3 = F3 F4 = F4 A = A B = B C = C
    AController = AController BController = BController
    a = a b = b x = x y = y z = z img = img
    Morphs <- MCMorphs Root <- MCRoot Rank <- MCRank Projects <- MCProjects
INVARIANTS NothingLost RoutedMethodsShown MethodsFollowRoutes RootsFirst ChannelsFound ModesAgree
PROPERTY Ends
