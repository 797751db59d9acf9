CONSTANTS
  Cluster = {2, 3}
  DirContents <- MCDirContents
  FileSizes = {0, 2, 5, 6}
  ClusterSize = 2
  Eoc = 8
  HeapLeft = 9
  Layouts <- MCLayouts
  Block = 2
  Archives <- MCArchives
  Paths <- MCPaths
  RootName = ""
  ShellHeap = 5
  SmallBlock = 1
SPECIFICATION MCSpec
INVARIANTS RestoredUnlessFault NotFoundMeansAbsent ContentIsTheFile AnswerIsTheArchive
PROPERTIES BootGoesOn CommandReturns
