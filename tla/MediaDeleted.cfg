SPECIFICATION Spec
CONSTANTS
  video = video
  text = text
  doc = doc
  Assets = {video, doc}
  Own = {video}
  Clouds = {icloud}
  Viewers = {v}
  Migrators = {}
  Readable = {video, doc}
  Documents = {}
  Texts = {}
  Size <- MCSize
  Warning = 2
  Critical = 3
  Maximum = 4
  Others = {0}
INVARIANT DeletedMediaIsNotFound
CHECK_DEADLOCK FALSE
