SPECIFICATION MCSpec
CONSTANTS
    None = None
    Unknown = Unknown
INVARIANTS SplitsWhole RanksAndCites
PROPERTIES IndexCompletes RoutedToItsPool
CHECK_DEADLOCK FALSE
