\* Three categories, two edits that may race and a visitor who searches.
SPECIFICATION Spec
CONSTANTS
  Home = home
  Rugs = rugs
  Garden = garden
  Categories = {home, rugs, garden}
  First <- MCFirst
  Editors = {e1, e2}
  Visitors = {v1}
  Requests <- MCRequests
  MaxEdits = 2
  None = None
INVARIANTS
  TypeOK
  SearchIsExact
PROPERTIES
  OnlyRacesCloseCycles
  SearchEnds
