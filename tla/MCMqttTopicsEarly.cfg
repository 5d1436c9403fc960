SPECIFICATION Spec
CONSTANTS
    WaveFile <- MCWaveFile
    Overrides <- MCOverrides
    Ids = {9, 18, 19, 20, 32, 41, 240, 245, 8010}
PROPERTY
    TopicIsRight
