-------------------------- MODULE MCDeliverPolicy --------------------------
\* Model-checking instances of DeliverPolicy.
EXTENDS DeliverPolicy
=============================================================================
