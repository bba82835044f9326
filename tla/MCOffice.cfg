SPECIFICATION OfficeSpec
CONSTANTS
  Invites = {i1, i2}
  Resets = {r1, r2}
  Browsers = {s1, s2}
  Consoles = {k1, k2}
  MaxLogouts = 1
  Seats = {k1, k2}
  MaxMoment = 3
  slug = slug
  slug2 = slug2
  Candidates <- TheSlugs
  Operators = {o1, o2}
  Steps = {1, 2}
  Registrations = {x, y}
  Wizards = {w1, w2}
  MaxTenants = 2
  Channels = {away}
  Portions = {regular, large}
  Regular = regular
  Base = base
  Everywhere = everywhere
  House = house
  AnyChannel = any
  Editors = {e1, e2}
  MaxRows = 4
  MaxInstant = 1
  Items = {a, b}
  CartLines = {l1}
  Phones = {p1}
  MaxEdition = 2
  Tabs = {t1, t2}
  tea = tea
  TEA = TEA
  cake = cake
  Named = {tea, TEA, cake}
  Lower <- TheLower
  Uploaded <- TheFile
  Product <- TheProduct
  MaxCategories = 2
  MaxItems = 3
  MaxMenuEdits = 2
  owner1 = owner1
  owner2 = owner2
  tenant1 = tenant1
  Publishers = {p2, p3}
  Signers = {owner1, owner2}
  TenantOf <- TheTenants
  Files = {f1, f2}
  NoFile = nofile
  MaxVersions = 2
SYMMETRY Sym
CHECK_DEADLOCK FALSE
INVARIANTS
  AccountsSound
  
  
  
  
  
  SignedAsRead
