SPECIFICATION GallerySpec
CONSTANTS
    UserNames <- Names
    MaxClock = 2
    MaxSuffix = 2
    MaxFiles = 2
PROPERTIES
    ActsOnChosenFile
