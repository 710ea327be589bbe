CONSTANTS
  Verbs <- MCVerbs
  CopyVerbs <- MCCopyVerbs
  PaasClis <- MCPaasClis
  PaasVerbs <- MCPaasVerbs
  PaasSuffixes = {":destroy", ":reset"}
  AwsPrefixes = {"delete-", "terminate-"}
  IbmSuffixes = {"-delete", "-rm"}
  Mutators = {"rm ", "systemctl"}
  MongoTokens = {"drop"}
  SearchHosts = {"opensearch", ":9200"}
  CloudHosts = {"api.fly.io"}
  SqlBodies = {"drop"}
  CaseFold <- MCCaseFold
  TakesValue <- MCTakesValue
  NoName = NoName
  Words <- MCWords
  Spellings <- MCSpellings
  MaxWords = 4
  MaxCommands = 2
SPECIFICATION Spec
INVARIANTS TypeOK LossIsAsked IntentKnown
PROPERTIES AskPersists
