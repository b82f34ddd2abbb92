SPECIFICATION Spec
CONSTANTS
  a = a
  b = b
  Limits <- MCComparison
  Texts <- MCTexts
  Drafts <- MCDrafts
  Slugs = {1, 2}
  Indexes = {2}
  PageLimit = 2
  MaxRows = 8
  Retention = 1
  MaxRevisions = 1
  MaxSaves = 3
  DocumentPage = 2
  MaxDocuments = 6
  MaxSummaries = 2
  Schemas <- MCSchemas
  Shipped <- MCShipped
  Keys <- MCKeys
  OwnTexts = {"own"}
  MaxTemplates = 3
  MaxVersions = 4
  MaxRenders = 1
  ChunkChars = 4
  OverlapChars = 2
  MaxParagraphs = 3
  MaxParagraph = 6
  ChunkSets <- MCChunkSets
  Budgets = {1, 2, 4}
  CharacterLimit = 2
  WorldLimit = 2
  PlotLimit = 2
  TimelineLimit = 2
  FallbackChars = 3
  MaxPromptLength = 24
  UserText = 4
  Projects <- MCProjects
  BudgetRequests <- MCBudgets
  Protections <- MCProtections
  Coroutines = {"c1"}
  EvaluatorLists <- MCLists
  ScoreRange = {2}
  MaxRuns = 1
  MaxOutputs = 3
  MaxReports = 1
  Comparers = {"c1", "c2"}
  MaxSessions = 1
  MaxCases = 1
  MaxPrompts = 2
  MaxRevised = 1
  MaxScored = 1
  MaxProfiles = 3
  ModelNames = {"m"}
  Repos = {1, 2}
  FilesOf <- MCFilesOf
  Workers = 2
  MaxDownloads = 2
  UserIds = {"admin", "writer"}
  Passwords = {1, 2}
  MaxKeys = 3
  Versions <- MCVersions
  Defaults <- MCDefaults
  UserConfigs <- MCUserConfigs
  GpuSizes = {8, 12}
  AdapterNames = {"mine"}
  MaxRecipes = 1
  MaxTrainings = 1
  ExportSamples = {1, 2}
  Lines = {1}
  FileNames = {1}
  MaxExports = 2
  MaxClock = 2
CHECK_DEADLOCK FALSE
INVARIANT VariantIsItsAdapter
