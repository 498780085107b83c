---------------------------- MODULE MCDkmsInstall -----------------------------
(* DkmsInstall for TLC: three revisions, one of which does not compile, and  *)
(* two kernels.                                                              *)
EXTENDS DkmsInstall

MCRevisions == {"r1", "r2", "bad"}
MCBuilds    == {"r1", "r2"}
MCKernels   == {"k1", "k2"}
==============================================================================
