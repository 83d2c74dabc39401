\* Words of sixteen bits; objects of nine types.
SPECIFICATION Spec
CONSTANTS
  Programs <- Every
  Memories <- Starts
  Declared <- Objects
  Signature <- Functions
  Address <- Addresses
  Outcome <- Answers
INVARIANTS TypeOK AcceptsAsC ValuesAsC
