SPECIFICATION Spec
CONSTANTS
  video = video
  text = text
  doc = doc
  Assets = {video, text}
  Own = {text}
  Clouds = {icloud, fabric}
  Viewers = {v}
  Migrators = {m}
  Readable = {}
  Documents = {}
  Texts = {text}
  Size <- MCSize
  Warning = 2
  Critical = 3
  Maximum = 4
  Others = {0, 1}
INVARIANTS MediaTypeOK RowsResolve
PROPERTIES StatesFollowTheDiagram EvictionIsFrugal
CHECK_DEADLOCK FALSE
SYMMETRY CloudsAlike
