SPECIFICATION FairSpec
CONSTANTS
  small = small
  large = large
  Threads = {t}
  Builds = {small, large}
  Length <- MCLength
  Attempts = 3
  Inodes = {1, 2}
  MaxFaults = 3
INVARIANTS DownloadTypeOK DestIsWhole ArtifactMatchesFile
PROPERTIES ModelArrives
