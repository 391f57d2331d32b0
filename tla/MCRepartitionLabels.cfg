\* The conversion of a device that runs from slot B.
SPECIFICATION Spec
CONSTANT LogFiles <- MCLogFiles
INVARIANT LabelsFixed
