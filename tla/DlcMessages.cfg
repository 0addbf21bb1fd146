SPECIFICATION Spec
CONSTANTS
  Writes <- AllWrites
  Reads <- AllReads
  Family <- AllFamily
  ToJson <- AllToJson
  FromJson <- AllFromJson
  JsonFamily <- AllJsonFamily
  Origins <- AllOrigins
  Factories <- AllFactories
  MaxExtra = 2
INVARIANTS KeptInBytes UnknownKept KeptInJson
CHECK_DEADLOCK FALSE
