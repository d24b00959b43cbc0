SPECIFICATION Spec
CONSTANTS
  Roles = {a, b}
  Me = Me
  Other = Other
  Policies <- MCPolicies
  MaxId = 3
  MaxChanges = 2
SYMMETRY Sym
CONSTRAINT RequestOrPrune
INVARIANTS FiltersAgree GrantsAreExact
PROPERTY PruneDropsOrphans
