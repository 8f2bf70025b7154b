SPECIFICATION UpdatesSpec
CONSTANTS
    Documents <- Drafts
    BuiltIn <- Shipped
    Builds = {1, 2}
    SchemaOf <- Schemas
    MaxSlips = 0
    MaxDate = 0
    Broken = Broken
    Nil = Nil
INVARIANT FixIsServed
CHECK_DEADLOCK FALSE
