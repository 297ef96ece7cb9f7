SPECIFICATION Spec
CONSTANTS
  Files = {"a.conf", "b.conf"}
  NoFile = "none"
  Names = {"deliver", "click"}
  Libraries = {"libx", "liby"}
  MaxEntries = 3
  MaxNames = 2
  MaxNamed = 2
INVARIANTS
  TypeOK
  PluginAlive
  LibrariesBalance
  FirstEntryWins
  InitializedOnce
  FileOfFirstLocation
