\* Functions of one nested statement, two names.
SPECIFICATION Spec
CONSTANTS
  Programs <- Units
INVARIANTS TypeOK AcceptsExactlyC BindsAsC UsesReachStorage DistinctNamesApart
