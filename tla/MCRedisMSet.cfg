CONSTANTS
  letter = letter
  key1 = key1
  key2 = key2
  field = field
  c1 = c1
  c2 = c2
  i1 = i1
  i2 = i2
  Key <- TwoKeys
  Field <- OneField
  Text <- OneText
  Number <- NineAndTen
  Ttl <- ShortTtl
  Index <- NoIndex
  MaxBytes = 3
  MaxNumber = 10
  MaxArgs = 2
  Client <- TwoClients
  Item <- TwoItems
  MaxValueBytes = 2
  MaxCacheBytes = 3
  MaxKeysPerGet = 2
  MaxTokens = 4
  Nobody = Nobody
  unnamed = unnamed
  s1 = s1
  q1 = q1
  q2 = q2
  blankText = blankText
  d1 = d1
  d2 = d2
  tables = tables
  Name <- TwoNames
  Unnamed = unnamed
  PgQuery <- SomeQueries
  EmptyQuery = blankText
  Unset = unset
  PgCap = 1
  MaxHeard = 4
  Database <- TwoDatabases
  DefaultDatabase = d1
  ListQuery = tables
  MyCap = 2
  MaxCommanded = 5
SPECIFICATION RedisOnlySpec
CHECK_DEADLOCK FALSE
PROPERTIES
  MSetIsAtomic
