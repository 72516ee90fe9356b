------------------------------ MODULE MCStepTracking ------------------------------
\* Small instances of StepTracking: one or two threads on one device.
EXTENDS StepTracking

CONSTANTS t1, t2, d1

MCDeviceOf == [t \in Threads |-> d1]
=============================================================================
