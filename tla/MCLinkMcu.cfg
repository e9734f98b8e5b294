SPECIFICATION LinkSpec
CONSTANT STAMPS = 2
INVARIANTS FbwHearsWhole ApHearsWhole
PROPERTIES LinkRecovers
