SPECIFICATION Spec
CONSTANTS
    Users <- MCUsers
    Admin = "admin"
    Custom <- MCCustom
    LazyLoads = FALSE
    MaxCalls = 3
INVARIANTS IInv LoggedIsTrue
PROPERTIES SomebodyIsSuper SeedingKeeps
CHECK_DEADLOCK FALSE
