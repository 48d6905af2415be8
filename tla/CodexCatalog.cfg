\* Two slots, a background pass and a shared recovery; one slot is logged in
\* to another account, the other disabled and enabled; one reset.
SPECIFICATION Spec
CONSTANTS
  a1 = a1  a2 = a2
  NSlots = 2
  Account = {a1, a2}
  MaxWaiters = 2
  Initial = {a1}
  Concurrency = 1
  Relogged = {1}
  Toggled = {1}
  MaxLogins = 1
  MaxResets = 1
  NULL = NULL
INVARIANTS CatalogInvariant TasksAgree
PROPERTIES ImplementsRegister NewsIsFollowed
