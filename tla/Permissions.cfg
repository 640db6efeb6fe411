SPECIFICATION Spec
CONSTANTS
    Services = {"cursor", "pos", "clipboard", "file_clipboard", "audio"}
    UserToggles = {"show_remote_cursor", "disable_audio",
                   "enable_file_copy_paste", "view_only"}
    OneWay = {}
    MaxQueue = 1
INVARIANTS
    ServicesMatch
    CursorMatch
    CameraAudioInCall
    OptionsArrive
    PeerKnows
    FileClipboardNeedsFile
