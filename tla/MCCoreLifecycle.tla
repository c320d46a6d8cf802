-------------------------- MODULE MCCoreLifecycle ---------------------------
EXTENDS CoreLifecycle
=============================================================================
