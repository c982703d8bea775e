---------------------------- MODULE MCTokenCache ----------------------------
\* Model-checking instance of CliLogin: issuers that ask for an interval, or
\* leave it and the lifetime of the device code to the defaults.
EXTENDS CliLogin

SomeIntervals == {0, 2}
SomeLifetimes == {0}
=============================================================================
