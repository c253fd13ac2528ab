SPECIFICATION Spec
CONSTANTS
  Store = {"browser", "phone"}
  Tab = {"left", "right", "phone"}
  Phone = {"phone"}
  StoreOf <- TwoStores
  Page = {"p1", "p2", "p3", "q1"}
  TabOf <- Pages
  Call = {c1, c2}
  MaxToken = 5
  MaxExpiry = 1
  MaxEvents = 2
  MaxRefresh = 1
  NoCall = NoCall
  NoTab = NoTab
CHECK_DEADLOCK FALSE
INVARIANTS TypeOK StoredTokenUsable OneLivePerLogin RefreshIsShared
