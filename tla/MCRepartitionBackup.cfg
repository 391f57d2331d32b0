\* A conversion whose backup misses a log file.
SPECIFICATION Spec
CONSTANT LogFiles <- MCLogFiles
PROPERTY NoLogLost
