\* Enough objects for one that is unpickled over another, and one after that.
CONSTANT MaxMade = 3
SPECIFICATION JavaSpec
INVARIANTS HandleLive CleansUp ValuesWritten
