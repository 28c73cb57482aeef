SPECIFICATION FairSpec
CONSTANT Shells = 3
PROPERTIES SessionTornDown EndsUnlessSilent LogStreamEnds
