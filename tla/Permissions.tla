----------------------------- MODULE Permissions -----------------------------
(***************************************************************************)
(* What one connection may hear of the host: the permissions that the       *)
(* host's user switches in the connection manager, the options that the     *)
(* peer's user toggles, and the subscriptions that follow from both         *)
(* (src/rustdesk/src/server/connection.rs), with the peer that keeps the    *)
(* toggles and turns them into option messages (client.rs,                  *)
(* LoginConfigHandler).                                                     *)
(*                                                                         *)
(* Server::subscribe is a change of one set here; the race between it and   *)
(* the service's worker is the subject of Service.  Messages of the peer    *)
(* arrive in order, its options among its login requests; those of the      *)
(* connection manager come at any time.                                     *)
(***************************************************************************)
EXTENDS Naturals, Sequences

CONSTANTS Services,     \* the services of this build, among AllServices
          UserToggles,  \* toggles the peer's user has or changes, among Toggles
          OneWay,       \* built-in options "one-way-...", among {"clipboard", "file"}
          MaxQueue      \* messages under way to the host

AllServices ==
    {"cursor", "pos", "window_focus", "clipboard", "file_clipboard", "audio"}

ASSUME ServicesAssumption == Services \subseteq AllServices
Toggles == {"show_remote_cursor", "follow_remote_window", "disable_audio",
            "enable_file_copy_paste", "disable_clipboard", "view_only"}

ASSUME TogglesAssumption == UserToggles \subseteq Toggles
ASSUME OneWayAssumption == OneWay \subseteq {"clipboard", "file"}
ASSUME MaxQueueAssumption == MaxQueue \in Nat

VARIABLES
    conn,     \* Connection
    config,   \* the peer's PeerConfig: the toggles that are on
    sent,     \* messages of the peer that the host has not read
    told,     \* the permissions the peer believes it has
    missed    \* ghost: options the host ignored since the login it goes by

vars == <<conn, config, sent, told, missed>>

(* Fields of Connection the host's user sets, and those the peer sets.      *)
PermissionNames == {"keyboard", "clipboard", "audio", "file"}
OptionNames == {"show_remote_cursor", "follow_remote_window", "disable_audio",
                "enable_file_transfer", "disable_clipboard", "disable_keyboard"}
Kinds == {"remote", "camera", "file"}

(* An OptionMessage: the options it sets; the others are NotSet.            *)
OptionMessages == UNION {[D -> BOOLEAN] : D \in SUBSET OptionNames}
NoOptions == [o \in {} |-> TRUE]

(* A LoginRequest with its options, or a Misc::Option. *)
Messages == [login : BOOLEAN, option : OptionMessages]

Put(S, x, in) == IF in THEN S \cup {x} ELSE S \ {x}

-----------------------------------------------------------------------------
(* The predicates of Connection. *)

PeerKeyboardEnabled(c) == "keyboard" \in c.perms /\ "disable_keyboard" \notin c.opts
ClipboardEnabled(c) == "clipboard" \in c.perms /\ "disable_clipboard" \notin c.opts
AudioEnabled(c) == "audio" \in c.perms /\ "disable_audio" \notin c.opts
FileTransferEnabled(c) == "file" \in c.perms /\ "enable_file_transfer" \in c.opts
ShowRemoteCursor(c) == "show_remote_cursor" \in c.opts
FollowRemoteWindow(c) == "follow_remote_window" \in c.opts

CanSubClipboard(c) ==
    ClipboardEnabled(c) /\ PeerKeyboardEnabled(c) /\ "clipboard" \notin OneWay

CanSubFileClipboard(c) ==
    ClipboardEnabled(c) /\ FileTransferEnabled(c) /\ "file" \notin OneWay

IsAuthedViewCamera(c) == c.authorized /\ c.kind = "camera"

(* Server::subscribe: nothing for a service this build does not have.       *)
Subscribe(c, s, sub) ==
    IF s \in Services THEN [c EXCEPT !.subs = Put(@, s, sub)] ELSE c

(* Mutant: a camera connection is treated like any other. *)
SubscribeAudioAlways(c) == Subscribe(c, "audio", AudioEnabled(c))

(* The audio of a camera connection is the voice call's.                    *)
SubscribeAudio(c) ==
    IF IsAuthedViewCamera(c) /\ ~c.voice_calling /\ AudioEnabled(c) THEN c
    ELSE Subscribe(c, "audio", AudioEnabled(c))

SubscribeClipboard(c) == Subscribe(c, "clipboard", CanSubClipboard(c))
SubscribeFileClipboard(c) == Subscribe(c, "file_clipboard", CanSubFileClipboard(c))
SubscribeCursor(c) ==
    Subscribe(c, "cursor", PeerKeyboardEnabled(c) \/ ShowRemoteCursor(c))
SubscribePos(c) == Subscribe(c, "pos", ShowRemoteCursor(c))
SubscribeFocus(c) == Subscribe(c, "window_focus", FollowRemoteWindow(c))

-----------------------------------------------------------------------------
(* Data::SwitchPermission.  The cursor follows the permission alone.        *)

WithPermission(c, p, enabled) == [c EXCEPT !.perms = Put(@, p, enabled)]

(* Mutant: the peer's wish to see the cursor is not looked at. *)
SwitchKeyboardBlind(c, enabled) ==
    Subscribe(SubscribeFileClipboard(SubscribeClipboard(
        WithPermission(c, "keyboard", enabled))), "cursor", enabled)

SwitchKeyboard(c, enabled) ==
    LET d == WithPermission(c, "keyboard", enabled)
    IN  Subscribe(SubscribeFileClipboard(SubscribeClipboard(d)),
                  "cursor", enabled \/ ShowRemoteCursor(d))

SwitchClipboard(c, enabled) ==
    SubscribeClipboard(WithPermission(c, "clipboard", enabled))

(* Only a connection that is authorized gets or loses the audio.            *)
SwitchAudio(c, enabled) ==
    LET d == WithPermission(c, "audio", enabled)
    IN  IF c.authorized THEN SubscribeAudio(d) ELSE d

(* Mutant: the services are left as they are. *)
SwitchFileOnly(c, enabled) == WithPermission(c, "file", enabled)

SwitchFile(c, enabled) == SubscribeFileClipboard(WithPermission(c, "file", enabled))

Switched(c, p, enabled) ==
    CASE p = "keyboard" -> SwitchKeyboard(c, enabled)
      [] p = "clipboard" -> SwitchClipboard(c, enabled)
      [] p = "audio" -> SwitchAudio(c, enabled)
      [] p = "file" -> SwitchFile(c, enabled)

-----------------------------------------------------------------------------
(* update_options: one option after the other, in this order.               *)

WithOption(c, o, m) == [c EXCEPT !.opts = Put(@, o, m[o])]

UpdateCursor(c, m) ==
    IF "show_remote_cursor" \notin DOMAIN m THEN c
    ELSE SubscribePos(SubscribeCursor(WithOption(c, "show_remote_cursor", m)))

UpdateFocus(c, m) ==
    IF "follow_remote_window" \notin DOMAIN m THEN c
    ELSE SubscribeFocus(WithOption(c, "follow_remote_window", m))

UpdateAudio(c, m) ==
    IF "disable_audio" \notin DOMAIN m THEN c
    ELSE SubscribeAudio(WithOption(c, "disable_audio", m))

UpdateFile(c, m) ==
    IF "enable_file_transfer" \notin DOMAIN m THEN c
    ELSE SubscribeFileClipboard(WithOption(c, "enable_file_transfer", m))

UpdateClipboard(c, m) ==
    IF "disable_clipboard" \notin DOMAIN m THEN c
    ELSE SubscribeClipboard(WithOption(c, "disable_clipboard", m))

(* Mutant: the clipboard is not evaluated again. *)
UpdateKeyboardCursorOnly(c, m) ==
    IF "disable_keyboard" \notin DOMAIN m THEN c
    ELSE SubscribeCursor(WithOption(c, "disable_keyboard", m))

UpdateKeyboard(c, m) ==
    IF "disable_keyboard" \notin DOMAIN m THEN c
    ELSE SubscribeCursor(SubscribeFileClipboard(SubscribeClipboard(
             WithOption(c, "disable_keyboard", m))))

UpdateOptions(c, m) ==
    UpdateKeyboard(UpdateClipboard(UpdateFile(UpdateAudio(
        UpdateFocus(UpdateCursor(c, m), m), m), m), m), m)

-----------------------------------------------------------------------------
(* The end of a login. *)

(* try_sub_monitor_services: once, with the services it may not hear.       *)
NoPerms(c) ==
    {s \in Services :
        \/ s = "cursor" /\ ~PeerKeyboardEnabled(c) /\ ~ShowRemoteCursor(c)
        \/ s = "pos" /\ ~ShowRemoteCursor(c)
        \/ s = "window_focus" /\ ~FollowRemoteWindow(c)
        \/ s = "clipboard" /\ ~CanSubClipboard(c)
        \/ s = "file_clipboard" /\ ~CanSubFileClipboard(c)
        \/ s = "audio" /\ ~AudioEnabled(c)}

TrySubMonitorServices(c) ==
    IF c.kind # "remote" \/ c.services_subed THEN c
    ELSE [c EXCEPT !.services_subed = TRUE, !.subs = @ \cup (Services \ NoPerms(c))]

(* send_logon_response: the options that came with the login first, then    *)
(* the services, unless the displays failed or a Windows session is still   *)
(* to be chosen.  A camera connection loses the keyboard.                   *)
Logon(c, ready) ==
    LET d == UpdateOptions([c EXCEPT !.authorized = TRUE], c.options_in_login)
        e == [d EXCEPT !.options_in_login = NoOptions]
    IN  CASE e.kind = "file" -> e
          [] e.kind = "camera" -> WithPermission(e, "keyboard", FALSE)
          [] e.kind = "remote" -> IF ready THEN TrySubMonitorServices(e) ELSE e

-----------------------------------------------------------------------------
(* The peer: the option messages of LoginConfigHandler. *)

(* What the toggles say by themselves: the options that are on.             *)
Plain(cfg) ==
    (cfg \cap OptionNames)
        \cup {o \in {"enable_file_transfer"} : "enable_file_copy_paste" \in cfg}

(* What they mean to the host, where the view mode decides some of them.    *)
Wanted(cfg) ==
    IF "view_only" \in cfg
    THEN {"disable_keyboard", "disable_clipboard", "show_remote_cursor"}
             \cup (cfg \cap {"follow_remote_window", "disable_audio"})
    ELSE Plain(cfg)

(* get_option_message: only what is on, and nothing for a file transfer.    *)
LoginOptions(cfg, kind) ==
    [o \in {p \in Wanted(cfg) : kind # "file"} |-> TRUE]

(* toggle_option: what the message carries.                                 *)
Carried(t) ==
    CASE t = "view_only" -> {"disable_keyboard", "disable_clipboard",
                             "show_remote_cursor", "enable_file_transfer"}
      [] t = "enable_file_copy_paste" -> {"enable_file_transfer"}
      [] OTHER -> {t}

(* Mutant: leaving the view mode only gives the keyboard back. *)
ToggledForgetful(cfg, t) ==
    [o \in IF t = "view_only" /\ t \notin cfg THEN {"disable_keyboard"} ELSE Carried(t)
        |-> o \in Wanted(cfg)]

(* `cfg` is the configuration after the toggle.  Nothing keeps the user from *)
(* a toggle that the view mode decides: it is sent as it is.                *)
Toggled(cfg, t) ==
    [o \in Carried(t) |-> o \in IF t = "view_only" THEN Wanted(cfg) ELSE Plain(cfg)]

-----------------------------------------------------------------------------
NewConn(kind, perms) ==
    [kind |-> kind, perms |-> perms, opts |-> {}, subs |-> {}, options_in_login |-> NoOptions,
     authorized |-> FALSE, services_subed |-> FALSE, requested |-> FALSE,
     voice_request |-> FALSE, voice_calling |-> FALSE, closed |-> FALSE]

(* Connection::start tells the permissions that are missing.                *)
Init ==
    /\ \E kind \in Kinds, perms \in SUBSET PermissionNames :
          /\ conn = NewConn(kind, perms)
          /\ told = perms
    /\ config \in SUBSET UserToggles
    /\ sent = <<>>
    /\ missed = {}

(* The peer logs in, and again after a wrong password, until it learns that *)
(* the host has accepted.  It sends the toggles as they are now.            *)
LoginRequest ==
    /\ ~conn.authorized /\ ~conn.closed
    /\ Len(sent) < MaxQueue
    /\ sent' = Append(sent, [login |-> TRUE, option |-> LoginOptions(config, conn.kind)])
    /\ UNCHANGED <<conn, config, told, missed>>

(* on_message, LoginRequest: the options are kept for send_logon_response.  *)
(* If the host's user has accepted an earlier request meanwhile, nobody     *)
(* looks at them any more.                                                  *)
ReceiveLogin ==
    /\ sent # <<>> /\ Head(sent).login
    /\ ~conn.closed
    /\ IF conn.authorized THEN UNCHANGED <<conn, missed>>
       ELSE /\ conn' = [conn EXCEPT !.requested = TRUE,
                                    !.options_in_login = Head(sent).option]
            /\ missed' = {}
    /\ sent' = Tail(sent)
    /\ UNCHANGED <<config, told>>

(* Mutant of Authorize: the peer is not told of the keyboard it lost. *)
AuthorizeQuietly(ready) ==
    /\ conn.requested /\ ~conn.authorized /\ ~conn.closed
    /\ conn' = Logon(conn, ready)
    /\ UNCHANGED <<config, sent, told, missed>>

(* The login succeeds, or the host's user accepts it.                       *)
Authorize(ready) ==
    /\ conn.requested /\ ~conn.authorized /\ ~conn.closed
    /\ conn' = Logon(conn, ready)
    /\ told' = IF conn.kind = "camera" THEN told \ {"keyboard"} ELSE told
    /\ UNCHANGED <<config, sent, missed>>

(* Misc::SelectedSid with the session of this process.                      *)
SelectedSid ==
    /\ conn.authorized /\ ~conn.closed
    /\ conn' = TrySubMonitorServices(conn)
    /\ UNCHANGED <<config, sent, told, missed>>

(* The connection manager knows the connection from its first request on.   *)
SwitchPermission(p, enabled) ==
    /\ conn.requested /\ ~conn.closed
    /\ conn' = Switched(conn, p, enabled)
    /\ told' = Put(told, p, enabled)
    /\ UNCHANGED <<config, sent, missed>>

(* toggle_option: the configuration is changed whether the host has accepted *)
(* the login or not; the message is lost only when there is no connection.  *)
ToggleOption(t) ==
    /\ conn.kind # "file"
    /\ Len(sent) < MaxQueue
    /\ config' = Put(config, t, t \notin config)
    /\ sent' = IF conn.closed THEN sent
               ELSE Append(sent, [login |-> FALSE, option |-> Toggled(config', t)])
    /\ UNCHANGED <<conn, told, missed>>

(* Misc::Option, which is ignored before the connection is authorized.      *)
ReceiveOption ==
    /\ sent # <<>> /\ ~Head(sent).login
    /\ ~conn.closed
    /\ LET m == Head(sent).option
       IN  IF conn.authorized
           THEN conn' = UpdateOptions(conn, m) /\ missed' = missed \ DOMAIN m
           ELSE conn' = conn /\ missed' = IF conn.requested THEN missed \cup DOMAIN m ELSE {}
    /\ sent' = Tail(sent)
    /\ UNCHANGED <<config, told>>

VoiceCallRequest ==
    /\ conn.authorized /\ ~conn.closed /\ conn.kind # "file"
    /\ conn' = [conn EXCEPT !.voice_request = TRUE]
    /\ UNCHANGED <<config, sent, told, missed>>

(* Only the audio of a camera session follows the call. *)
WithCall(c, request, calling) ==
    LET d == [c EXCEPT !.voice_request = request, !.voice_calling = calling]
    IN  IF IsAuthedViewCamera(d)
        THEN Subscribe(d, "audio", AudioEnabled(d) /\ calling) ELSE d

(* handle_voice_call *)
VoiceCallResponse(accepted) ==
    /\ conn.voice_request /\ ~conn.closed
    /\ conn' = WithCall(conn, FALSE, accepted)
    /\ UNCHANGED <<config, sent, told, missed>>

(* close_voice_call, for either side. *)
CloseVoiceCall ==
    /\ conn.authorized /\ ~conn.closed
    /\ conn' = WithCall(conn, conn.voice_request, FALSE)
    /\ UNCHANGED <<config, sent, told, missed>>

(* The loop ends, for any reason, and the Connection is dropped.            *)
Close ==
    /\ ~conn.closed
    /\ conn' = [NewConn(conn.kind, {}) EXCEPT !.closed = TRUE]
    /\ sent' = <<>>
    /\ missed' = {}
    /\ UNCHANGED <<config, told>>

(* The peer connects again, with the configuration it has kept.             *)
Reconnect(perms) ==
    /\ conn.closed
    /\ conn' = NewConn(conn.kind, perms)
    /\ told' = perms
    /\ UNCHANGED <<config, sent, missed>>

Next ==
    \/ LoginRequest \/ ReceiveLogin
    \/ \E ready \in BOOLEAN : Authorize(ready)
    \/ SelectedSid
    \/ \E p \in PermissionNames, enabled \in BOOLEAN : SwitchPermission(p, enabled)
    \/ \E t \in UserToggles : ToggleOption(t)
    \/ ReceiveOption
    \/ VoiceCallRequest
    \/ \E accepted \in BOOLEAN : VoiceCallResponse(accepted)
    \/ CloseVoiceCall
    \/ Close
    \/ \E perms \in SUBSET PermissionNames : Reconnect(perms)

Spec == Init /\ [][Next]_vars

-----------------------------------------------------------------------------
(* Type invariant. *)
TypeOK ==
    /\ conn \in [kind : Kinds, perms : SUBSET PermissionNames, opts : SUBSET OptionNames,
                 subs : SUBSET Services, options_in_login : OptionMessages,
                 authorized : BOOLEAN, services_subed : BOOLEAN, requested : BOOLEAN,
                 voice_request : BOOLEAN, voice_calling : BOOLEAN, closed : BOOLEAN]
    /\ config \in SUBSET UserToggles
    /\ sent \in Seq(Messages)
    /\ told \in SUBSET PermissionNames
    /\ missed \in SUBSET OptionNames

Serving == conn.services_subed /\ ~conn.closed

(* Whatever was switched before, during and after the login, a remote       *)
(* session hears the clipboard, the audio, the pointer's position and the   *)
(* focus exactly when permissions and options say so.                       *)
ServicesMatch ==
    Serving =>
        conn.subs \cap {"clipboard", "audio", "pos", "window_focus"}
            = {s \in Services \ NoPerms(conn) : s \notin {"cursor", "file_clipboard"}}

(* The cursor's shape is sent to a session that controls or wants to see    *)
(* it, and never to one that may do neither.  (A session that has disabled  *)
(* the keyboard itself may still get it after the permission is switched.)  *)
CursorMatch ==
    Serving /\ "cursor" \in Services =>
        /\ PeerKeyboardEnabled(conn) \/ ShowRemoteCursor(conn) => "cursor" \in conn.subs
        /\ "cursor" \in conn.subs => "keyboard" \in conn.perms \/ ShowRemoteCursor(conn)

(* The microphone or system sound of the host reaches a camera session only *)
(* within a voice call that was accepted, and then unless it is disabled.   *)
CameraAudioInCall ==
    IsAuthedViewCamera(conn) /\ ~conn.closed /\ "audio" \in Services =>
        ("audio" \in conn.subs <=> AudioEnabled(conn) /\ conn.voice_calling)

(* Copied files are announced only while the host permits files and the     *)
(* peer wants them.                                                         *)
FileClipboardNeedsFile ==
    "file_clipboard" \in conn.subs => FileTransferEnabled(conn) /\ "file" \notin OneWay

(* An option that is on or off as the toggles mean it.  In the view mode a  *)
(* toggle that was sent by itself counts as well, but for the keyboard.     *)
Meant(o, on, cfg) ==
    \/ on <=> o \in Wanted(cfg)
    \/ "view_only" \in cfg /\ o # "disable_keyboard" /\ (on <=> o \in Plain(cfg))

(* When nothing is under way the host has what the peer's toggles mean, in  *)
(* and out of the view mode, through logins that are repeated, crossed by   *)
(* toggles or by the host's acceptance, and after every reconnection.  The  *)
(* exception is an option whose last toggle came after the login request    *)
(* the host went by and before it was authorized: the host ignores it.      *)
OptionsArrive ==
    conn.authorized /\ conn.kind # "file" /\ ~conn.closed /\ sent = <<>> =>
        \A o \in OptionNames \ missed : Meant(o, o \in conn.opts, config)

(* The peer believes of its permissions what the host has.                  *)
PeerKnows == ~conn.closed => told = conn.perms
=============================================================================
