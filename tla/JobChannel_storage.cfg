SPECIFICATION Spec
CONSTANTS
  MaxRuns = 1
  MaxEvents = 1
  MaxWrites = 2
PROPERTY StorageComesHome
