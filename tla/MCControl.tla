------------------------------- MODULE MCControl -------------------------------
EXTENDS ControlSafe
\* A plain condition is compiled as the first operand of "ornot" is.
MCShapes == {"not", "ornot"}
\* The argument is computed without the temp that the call waits in, unless
\* it is such a call itself.
MCSimples == {"arg"}
MCNested == {"plain", "none", "arg", "call"}
================================================================================
