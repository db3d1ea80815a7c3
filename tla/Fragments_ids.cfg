\* Fragments with the ids that the code makes.
SPECIFICATION Spec
CONSTANTS
  Packet = {k1}
  Lengths = {0, 20, 60, 90}
  maxLength_ = 100
  IdBytes = 4
  MaxSent = 1
INVARIANT DecodesWhatItEncodes
CHECK_DEADLOCK FALSE
