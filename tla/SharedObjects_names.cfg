SPECIFICATION SharedSpec
CONSTANTS
  Thread = {t1, t2}
  Array = {a1, a2, a3}
  Text <- Texts
  US_STACKBUF_SIZE = 1
  kGrowSize = 1
  MaxLength = 2
  MaxCalls = 3
  Client = {t1, t2}
  Factory = {"f1", "f2", "f3"}
  IdOf <- MCIdOf
  Visible = {"f1", "f3"}
  Id = {"en", "en_US", "fr"}
  FallbackIds <- MCFallbackIds
  User = {t1, t2}
  Plain = {"base"}
  Ext = {"ext"}
  Base <- MCBase
  Subs <- MCSubs
  SystemName = "ext"
  FallbackName = "alg"
  MaxCopies = 2
  MaxConverters = 2
  Locale = {"l1", "l2"}
  Listener = {"n1"}
  MaxChanges = 3
INVARIANTS
  NamesStay
CHECK_DEADLOCK FALSE
