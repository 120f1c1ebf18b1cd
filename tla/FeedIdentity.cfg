\* Two actors, a handle that changes hands between two channels, two urls of a site that
\* are normalized to one text, an API key.
CONSTANTS
  A = A
  B = B
  h = h
  p = p
  q = q
  Actors = {a1, a2}
  a1 = a1
  a2 = a2
  Channels = {A, B}
  Handles = {h}
  Others = {p, q}
  SourceUrls <- Subscribed
  Metered = TRUE
  NoName = NoName
SPECIFICATION Spec
SYMMETRY Alike
INVARIANTS
  
  ResolvedOnce
