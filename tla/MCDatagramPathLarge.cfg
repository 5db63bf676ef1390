\* A payload whose length and header together exceed total_length.
CONSTANTS
  Host = {h1}
  Length = {72}
  MaxFragmentPayload = 20
  OffsetRange = 16
  HeaderLen = 60
  IdentRange = 2
  MaxDatagrams = 1
  FragmentTimeout = 1
  MaxTime = 0
SPECIFICATION Spec
PROPERTIES
  ReturnsWhenComplete
CHECK_DEADLOCK FALSE
