SPECIFICATION FileSpec
CONSTANTS
  long = long
  short = short
  Writers = {w1, w2}
  Docs = {long, short}
  NoDoc = NoDoc
  Torn = Torn
  Blocks <- MCBlocks
  Inodes = {i1, i2, i3, i4}
  NoInode = NoInode
  InitialDocs = {long}
PROPERTY ImplementsRegister
