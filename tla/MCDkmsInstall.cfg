SPECIFICATION Spec
CONSTANTS
  Revisions <- MCRevisions
  Builds <- MCBuilds
  Kernels <- MCKernels
INVARIANTS
  Repeatable
  OneRevision
  SuccessLasts
