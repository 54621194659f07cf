SPECIFICATION Spec
CONSTANTS
  Receipts <- SixReceipts
  TypeOf <- SixTypes
  Ontologies <- FewOntologies
  Baselines <- FewBaselines
  MAX_HISTORY = 6
INVARIANTS QuotesCreatable NobodyOverruled WriterIsReadable AcceptedExplainsItself CommitsToCauses
PROPERTIES WorseProviderNeverGains WorseBuyerNeverGains
