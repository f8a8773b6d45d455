---------------------------- MODULE MCInfoNodes ----------------------------
\* Values for the list constants of InfoNodes.
EXTENDS InfoNodes
CONSTANTS i1, i2, i3, k1, k2

ThreeInfos == <<i1, i2, i3>>
TwoKeys == <<k1, k2>>
=============================================================================
