\* The errors that createSnapshot loses.
CONSTANTS
    Name = {a, b}
    Freeze = {a}
    Volumes = 1
    Polls = 3
    Window = 4
    Latency = 2
SPECIFICATION Spec
PROPERTY AddedIsTaken
