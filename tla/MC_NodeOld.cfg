\* Any order of Add, Pack, Quote, Push and Get over two keys: Push only
\* makes deals for commits the Index holds.
CONSTANTS
    k1 = k1
    k2 = k2
    NoRef = NoRef
    NoQuote = NoQuote
    Keys <- MCKeys
SPECIFICATION Spec
SYMMETRY MCSymmetry
INVARIANT DealsIndexed
