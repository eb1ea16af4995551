SPECIFICATION Spec
CONSTANTS
    Instances = {i1, i2, i3}
    Latest = 3
INVARIANTS
    MInv
    SchemaIsPrefix
    ServesLatest
PROPERTIES
    SomeInstanceServes
    ImplementsSchemaUpgrade
