CONSTANTS
    ScreenW = 1920
    ScreenH = 1080
    Terms = {"t"}
    Apps = {"a"}
    MaxWin = 3
    WmTags = {1, 2}
    IpcCap = 2
    MaxInputs = 2
    MaxFrames = 1
    Engines = {"wm", "nova", "ds", "core", "x11", "ws"}
    MaxMaster = 3
SPECIFICATION DesktopSpec
INVARIANT OneFrameInFlight
INVARIANT WindowsAgree
 
PROPERTY FocusKept
 
