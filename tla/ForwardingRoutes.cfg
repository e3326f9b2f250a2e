SPECIFICATION FairSpec
CONSTANTS
    Nodes <- ThreeNodes
    Profile <- Profiles
    Unset = ""
    Nobody = "nobody"
    Shapes <- AllShapes
    MaxRules = 2
    MaxAttempts = 4
    ForwardTimeout = 3
    GatewayTimeout = 2
    WriteTimeout = 1
    MaxChanges = 1
    MaxFaults = 1
INVARIANT TypeOK
INVARIANT WorkedOnOnce
 
PROPERTY RoutedByRules
PROPERTY Decided
\* One message is handled.
CHECK_DEADLOCK FALSE
