SPECIFICATION Spec
CONSTANTS
  Length = 8
  Below = 9
INVARIANTS TypeOK FlowFollowsText HolesKnown
