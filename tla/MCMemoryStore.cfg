CONSTANTS
  Message <- MCMessage
  Interaction <- MCInteraction
  Actor <- MCActor
  Thread <- MCThread
  Date <- MCDate
  Platform <- MCPlatform
  ListOptions <- MCListOptions
  Queries <- MCQueries

SPECIFICATION Spec

INVARIANTS
  DanglingOnlyWhenRaced
  PagesAddUp

PROPERTY ClosedForGood
