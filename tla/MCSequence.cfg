\* Two Sequence objects racing on one key, bandwidth 2, counter up to 8:
\* four lease refreshes, enough for conflicts, restarts and releases.
CONSTANTS
  s1 = s1
  s2 = s2
  Instances <- MCInstances
  Bandwidth = 2
  MaxLease = 8
SYMMETRY MCSymmetry
SPECIFICATION Spec
INVARIANT TypeOK
INVARIANT LeaseCoversIssued
PROPERTY AllocatorSpec
