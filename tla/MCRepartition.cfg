\* The conversion with a failure or a power cut at every step, over any number of boots.
SPECIFICATION Spec
CONSTANT LogFiles <- MCLogFiles
INVARIANTS
    TypeOK
    SuccessIsComplete
    LogClosedWhileDown
    BootsAgain
PROPERTIES
    LogsSurvive
    OneWay
