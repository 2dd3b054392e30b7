SPECIFICATION WindowSpec
CONSTANTS
  Scopes = {server, shared}
  Plugins = {epub}
  Nothing = Nothing
  MaxChoices = 3
  MaxChanges = 1
INVARIANTS  PluginsAreLetGo
PROPERTY RequestsEnd
