SPECIFICATION Spec
CONSTANTS
  a = a  b = b  c = c  d = d
  Values = {a, b, c, d}
  CacheSize = 3
  MaxAdds = 6
INVARIANTS TypeOK MostRecentFirst
