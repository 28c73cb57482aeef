SPECIFICATION FairSpec
CONSTANT Shells = 1
PROPERTY SessionTimesOut
