CONSTANTS
  v1 = v1  v2 = v2
  Adders = {adder}  Collectors = {gc}
  Readers = {bus}
  Free = free
  MMSIs = {v1, v2}
  TimeOut = 1
SPECIFICATION AISSpec
INVARIANT Exclusive
