---------------------------- MODULE MCSmsPipeline ----------------------------
EXTENDS SmsPipeline
CONSTANTS m1, m2, r1, r2
=============================================================================
