-------------------------- MODULE PermissionsProofs --------------------------
(***************************************************************************)
(* The subscriptions of Permissions are what its permissions and options    *)
(* say, for every set of services, every built-in restriction and every     *)
(* length of the queue.  The invariant is about the Connection record       *)
(* alone, so each handler is shown once, as an operator, to preserve it.    *)
(* The peer's toggles reach the host in the end, whatever is under way:     *)
(* takes a second invariant, about the queue.                               *)
(***************************************************************************)
EXTENDS Permissions, TLAPS

Records ==
    [kind : Kinds, perms : SUBSET PermissionNames, opts : SUBSET OptionNames,
     subs : SUBSET Services, options_in_login : OptionMessages,
     authorized : BOOLEAN, services_subed : BOOLEAN, requested : BOOLEAN,
     voice_request : BOOLEAN, voice_calling : BOOLEAN, closed : BOOLEAN]

(* Who hears a service may hear it.  A camera session can keep a clipboard  *)
(* and a cursor it was given before its login took the keyboard away.       *)
MayHear(c) ==
    /\ c.kind # "camera" =>
          /\ "clipboard" \in c.subs => CanSubClipboard(c)
          /\ "cursor" \in c.subs => "keyboard" \in c.perms \/ ShowRemoteCursor(c)
    /\ "file_clipboard" \in c.subs => FileTransferEnabled(c) /\ "file" \notin OneWay
    /\ "pos" \in c.subs => ShowRemoteCursor(c)
    /\ "window_focus" \in c.subs => FollowRemoteWindow(c)
    /\ "audio" \in c.subs => AudioEnabled(c)

(* A remote session that has its services hears all it may hear.  (A file   *)
(* clipboard that was refused while the clipboard was disabled stays so.)   *)
HearsAll(c) ==
    c.services_subed /\ ~c.closed =>
        /\ c.kind = "remote"
        /\ \A s \in Services \ {"file_clipboard"} : s \notin NoPerms(c) => s \in c.subs

(* The audio of a camera connection is its voice call's. *)
CallsOnly(c) ==
    c.kind = "camera" /\ c.authorized /\ ~c.closed /\ "audio" \in Services =>
        ("audio" \in c.subs <=> AudioEnabled(c) /\ c.voice_calling)

(* Nothing of a session exists before its login. *)
Fresh(c) ==
    ~c.authorized =>
        /\ ~c.services_subed /\ ~c.voice_calling /\ ~c.voice_request
        /\ "audio" \notin c.subs

(* The fields that Subscribe leaves alone. *)
SameRights(c, r) ==
    /\ r.kind = c.kind /\ r.perms = c.perms /\ r.opts = c.opts
    /\ r.authorized = c.authorized /\ r.closed = c.closed
    /\ r.services_subed = c.services_subed
    /\ r.voice_calling = c.voice_calling /\ r.voice_request = c.voice_request
    /\ r.options_in_login = c.options_in_login

Good(c) ==
    /\ c \in Records
    /\ MayHear(c) /\ HearsAll(c) /\ CallsOnly(c) /\ Fresh(c)

-----------------------------------------------------------------------------
USE DEF Kinds, PermissionNames, OptionNames, AllServices

(* What a connection may hear is decided by its rights. *)
LEMMA RightsDecide ==
    ASSUME NEW c \in Records, NEW r \in Records, SameRights(c, r)
    PROVE  /\ CanSubClipboard(r) = CanSubClipboard(c)
           /\ CanSubFileClipboard(r) = CanSubFileClipboard(c)
           /\ FileTransferEnabled(r) = FileTransferEnabled(c)
           /\ PeerKeyboardEnabled(r) = PeerKeyboardEnabled(c)
           /\ AudioEnabled(r) = AudioEnabled(c)
           /\ ShowRemoteCursor(r) = ShowRemoteCursor(c)
           /\ FollowRemoteWindow(r) = FollowRemoteWindow(c)
BY DEF SameRights, CanSubFileClipboard, CanSubClipboard, ClipboardEnabled, FileTransferEnabled,
     PeerKeyboardEnabled, AudioEnabled, ShowRemoteCursor, FollowRemoteWindow

(* The predicates are Boolean. *)
LEMMA RightsType ==
    ASSUME NEW c \in Records
    PROVE  /\ CanSubClipboard(c) \in BOOLEAN /\ CanSubFileClipboard(c) \in BOOLEAN
           /\ PeerKeyboardEnabled(c) \in BOOLEAN /\ AudioEnabled(c) \in BOOLEAN
           /\ ShowRemoteCursor(c) \in BOOLEAN /\ FollowRemoteWindow(c) \in BOOLEAN
BY DEF CanSubFileClipboard, CanSubClipboard, ClipboardEnabled, FileTransferEnabled,
     PeerKeyboardEnabled, AudioEnabled, ShowRemoteCursor, FollowRemoteWindow

(* Subscribe changes the subscription of its service and nothing else. *)
LEMMA SubscribeEffect ==
    ASSUME NEW c \in Records, NEW s, NEW sub \in BOOLEAN
    PROVE  /\ Subscribe(c, s, sub) \in Records
           /\ SameRights(c, Subscribe(c, s, sub))
           /\ \A t \in Services :
                 t \in Subscribe(c, s, sub).subs <=> IF t = s THEN sub ELSE t \in c.subs
<1>1. CASE s \in Services
  <2>1. Subscribe(c, s, sub) = [c EXCEPT !.subs = Put(@, s, sub)]
    BY <1>1 DEF Subscribe
  <2>2. Put(c.subs, s, sub) \in SUBSET Services
    BY <1>1 DEF Put, Records
  <2> QED BY <2>1, <2>2 DEF Records, Put, SameRights
<1>2. CASE s \notin Services
  BY <1>2 DEF Subscribe, SameRights
<1> QED BY <1>1, <1>2

(* The two clipboards and then the cursor, as after a change of keyboard. *)
LEMMA ThreeEffect ==
    ASSUME NEW d \in Records, NEW e \in BOOLEAN, NEW r,
           r = Subscribe(SubscribeFileClipboard(SubscribeClipboard(d)), "cursor", e)
    PROVE  /\ r \in Records
           /\ SameRights(d, r)
           /\ \A t \in Services :
                 t \in r.subs <=> IF t = "clipboard" THEN CanSubClipboard(d)
                          ELSE IF t = "file_clipboard" THEN CanSubFileClipboard(d)
                          ELSE IF t = "cursor" THEN e ELSE t \in d.subs
<1> DEFINE d1 == SubscribeClipboard(d)
           d2 == SubscribeFileClipboard(d1)
<1>1. /\ d1 \in Records /\ SameRights(d, d1)
      /\ \A t \in Services : t \in d1.subs <=> IF t = "clipboard" THEN CanSubClipboard(d)
                                                                 ELSE t \in d.subs
  BY RightsType, SubscribeEffect DEF SubscribeClipboard
<1>2. CanSubFileClipboard(d1) = CanSubFileClipboard(d)
  BY <1>1, RightsDecide
<1>3. /\ d2 \in Records /\ SameRights(d1, d2)
      /\ \A t \in Services : t \in d2.subs <=> IF t = "file_clipboard" THEN CanSubFileClipboard(d)
                                                                      ELSE t \in d1.subs
  <2> HIDE DEF d1
  <2>1. CanSubFileClipboard(d1) \in BOOLEAN
    BY <1>1, RightsType
  <2> QED BY <2>1, <1>1, <1>2, SubscribeEffect DEF SubscribeFileClipboard
<1>4. /\ r \in Records /\ SameRights(d2, r)
      /\ \A t \in Services : t \in r.subs <=> IF t = "cursor" THEN e ELSE t \in d2.subs
  <2>1. r = Subscribe(d2, "cursor", e)
    OBVIOUS
  <2> HIDE DEF d2
  <2> QED BY <1>3, <2>1, SubscribeEffect
<1> HIDE DEF d1, d2
<1>5. SameRights(d, r)
  <2> QED BY <1>1, <1>3, <1>4 DEF SameRights
<1>6. \A t \in Services :
         t \in r.subs <=> IF t = "clipboard" THEN CanSubClipboard(d)
                          ELSE IF t = "file_clipboard" THEN CanSubFileClipboard(d)
                          ELSE IF t = "cursor" THEN e ELSE t \in d.subs
  <2> QED BY <1>1, <1>3, <1>4
<1> QED BY <1>4, <1>5, <1>6

(* What an option leaves of a connection in a session. *)
Updated(c, r) ==
    /\ Good(r)
    /\ r.authorized = c.authorized /\ r.closed = c.closed /\ r.kind = c.kind
    /\ r.perms = c.perms

(* Data::SwitchPermission, keyboard. *)
LEMMA SwitchKeyboardGood ==
    ASSUME NEW c, Good(c), ~c.closed, NEW e \in BOOLEAN
    PROVE  /\ Good(SwitchKeyboard(c, e))
           /\ SwitchKeyboard(c, e).perms = Put(c.perms, "keyboard", e)
<1> DEFINE d == WithPermission(c, "keyboard", e)
           r == SwitchKeyboard(c, e)
<1>1. d \in Records /\ d = [c EXCEPT !.perms = Put(@, "keyboard", e)]
  BY DEF Good, Records, WithPermission, WithOption, Put
<1>2. /\ r \in Records /\ SameRights(d, r)
      /\ \A t \in Services : t \in r.subs <=> IF t = "clipboard" THEN CanSubClipboard(d)
                          ELSE IF t = "file_clipboard" THEN CanSubFileClipboard(d)
                          ELSE IF t = "cursor" THEN (e \/ ShowRemoteCursor(d)) ELSE t \in d.subs
  <2>1. (e \/ ShowRemoteCursor(d)) \in BOOLEAN
    BY <1>1, RightsType
  <2> DEFINE f == e \/ ShowRemoteCursor(d)
  <2>2. f \in BOOLEAN /\ r = Subscribe(SubscribeFileClipboard(SubscribeClipboard(d)), "cursor", f)
    BY <2>1 DEF SwitchKeyboard
  <2> HIDE DEF d, f, r
  <2>3. /\ r \in Records /\ SameRights(d, r)
        /\ \A t \in Services : t \in r.subs <=> IF t = "clipboard" THEN CanSubClipboard(d)
                          ELSE IF t = "file_clipboard" THEN CanSubFileClipboard(d)
                          ELSE IF t = "cursor" THEN f ELSE t \in d.subs
    <3>1. d \in Records /\ f \in BOOLEAN
      BY <1>1, <2>2
    <3>2. r = Subscribe(SubscribeFileClipboard(SubscribeClipboard(d)), "cursor", f)
      BY <2>2
    <3> QED BY <3>1, <3>2, ThreeEffect
  <2> QED BY <2>3 DEF f
<1> HIDE DEF d, r
<1>3. Good(r)
  BY <1>1, <1>2, ServicesAssumption
     DEF Good, Records, MayHear, HearsAll, NoPerms, CallsOnly, Fresh, SameRights, Put, CanSubFileClipboard, CanSubClipboard, ClipboardEnabled, FileTransferEnabled,
     PeerKeyboardEnabled, AudioEnabled, ShowRemoteCursor, FollowRemoteWindow
<1>4. r.perms = Put(c.perms, "keyboard", e)
  BY <1>1, <1>2 DEF SameRights, Records
<1> QED BY <1>3, <1>4 DEF r

(* Data::SwitchPermission, clipboard. *)
LEMMA SwitchClipboardGood ==
    ASSUME NEW c, Good(c), ~c.closed, NEW e \in BOOLEAN
    PROVE  /\ Good(SwitchClipboard(c, e))
           /\ SwitchClipboard(c, e).perms = Put(c.perms, "clipboard", e)
<1> DEFINE d == WithPermission(c, "clipboard", e)
           r == SwitchClipboard(c, e)
<1>1. d \in Records /\ d = [c EXCEPT !.perms = Put(@, "clipboard", e)]
  BY DEF Good, Records, WithPermission, WithOption, Put
<1>2. /\ r \in Records /\ SameRights(d, r)
      /\ \A t \in Services : t \in r.subs <=> IF t = "clipboard" THEN CanSubClipboard(d) ELSE t \in d.subs
  BY <1>1, RightsType, SubscribeEffect DEF SwitchClipboard, SubscribeClipboard
<1> HIDE DEF d, r
<1>3. Good(r)
  BY <1>1, <1>2, ServicesAssumption
     DEF Good, Records, MayHear, HearsAll, NoPerms, CallsOnly, Fresh, SameRights, Put, CanSubFileClipboard, CanSubClipboard, ClipboardEnabled, FileTransferEnabled,
     PeerKeyboardEnabled, AudioEnabled, ShowRemoteCursor, FollowRemoteWindow
<1>4. r.perms = Put(c.perms, "clipboard", e)
  BY <1>1, <1>2 DEF SameRights, Records
<1> QED BY <1>3, <1>4 DEF r

(* Data::SwitchPermission, file. *)
LEMMA SwitchFileGood ==
    ASSUME NEW c, Good(c), ~c.closed, NEW e \in BOOLEAN
    PROVE  /\ Good(SwitchFile(c, e))
           /\ SwitchFile(c, e).perms = Put(c.perms, "file", e)
<1> DEFINE d == WithPermission(c, "file", e)
           r == SwitchFile(c, e)
<1>1. d \in Records /\ d = [c EXCEPT !.perms = Put(@, "file", e)]
  BY DEF Good, Records, WithPermission, WithOption, Put
<1>2. /\ r \in Records /\ SameRights(d, r)
      /\ \A t \in Services : t \in r.subs <=> IF t = "file_clipboard" THEN CanSubFileClipboard(d) ELSE t \in d.subs
  BY <1>1, RightsType, SubscribeEffect DEF SwitchFile, SubscribeFileClipboard
<1> HIDE DEF d, r
<1>3. Good(r)
  BY <1>1, <1>2, ServicesAssumption
     DEF Good, Records, MayHear, HearsAll, NoPerms, CallsOnly, Fresh, SameRights, Put, CanSubFileClipboard, CanSubClipboard, ClipboardEnabled, FileTransferEnabled,
     PeerKeyboardEnabled, AudioEnabled, ShowRemoteCursor, FollowRemoteWindow
<1>4. r.perms = Put(c.perms, "file", e)
  BY <1>1, <1>2 DEF SameRights, Records
<1> QED BY <1>3, <1>4 DEF r

(* Data::SwitchPermission, audio. *)
LEMMA SwitchAudioGood ==
    ASSUME NEW c, Good(c), ~c.closed, NEW e \in BOOLEAN
    PROVE  /\ Good(SwitchAudio(c, e))
           /\ SwitchAudio(c, e).perms = Put(c.perms, "audio", e)
<1> DEFINE d == WithPermission(c, "audio", e)
           r == SwitchAudio(c, e)
<1>1. d \in Records /\ d = [c EXCEPT !.perms = Put(@, "audio", e)]
  BY DEF Good, Records, WithPermission, WithOption, Put
<1>2. /\ r \in Records /\ SameRights(d, r)
      /\ \A t \in Services : t \in r.subs <=> IF t = "audio" /\ d.authorized /\ (d.kind = "camera" => d.voice_calling \/ ~AudioEnabled(d))
                                    THEN AudioEnabled(d) ELSE t \in d.subs
  <2>0. r = IF d.authorized THEN SubscribeAudio(d) ELSE d
    <3>1. r = IF c.authorized THEN SubscribeAudio(d) ELSE d
      BY DEF SwitchAudio
    <3> QED BY <1>1, <3>1 DEF Good, Records
  <2> HIDE DEF d, r
  <2>1. CASE d.authorized /\ (d.kind = "camera" => d.voice_calling \/ ~AudioEnabled(d))
    <3>1. r = Subscribe(d, "audio", AudioEnabled(d))
      BY <2>0, <2>1 DEF SubscribeAudio, IsAuthedViewCamera
    <3> QED BY <1>1, <2>1, <3>1, RightsType, SubscribeEffect
  <2>2. CASE ~(d.authorized /\ (d.kind = "camera" => d.voice_calling \/ ~AudioEnabled(d)))
    <3>1. r = d
      BY <2>0, <2>2 DEF SubscribeAudio, IsAuthedViewCamera
    <3> QED BY <1>1, <2>2, <3>1 DEF SameRights
  <2> QED BY <2>1, <2>2
<1> HIDE DEF d, r
<1>3. Good(r)
  BY <1>1, <1>2, ServicesAssumption
     DEF Good, Records, MayHear, HearsAll, NoPerms, CallsOnly, Fresh, SameRights, Put, CanSubFileClipboard, CanSubClipboard, ClipboardEnabled, FileTransferEnabled,
     PeerKeyboardEnabled, AudioEnabled, ShowRemoteCursor, FollowRemoteWindow
<1>4. r.perms = Put(c.perms, "audio", e)
  BY <1>1, <1>2 DEF SameRights, Records
<1> QED BY <1>3, <1>4 DEF r

(* update_options, show_remote_cursor. *)
LEMMA UpdateCursorGood ==
    ASSUME NEW c, Good(c), c.authorized, ~c.closed, NEW m \in OptionMessages,
           "show_remote_cursor" \in DOMAIN m
    PROVE  Updated(c, UpdateCursor(c, m))
<1> DEFINE d == WithOption(c, "show_remote_cursor", m)
           r == UpdateCursor(c, m)
<1>1. d \in Records /\ d = [c EXCEPT !.opts = Put(@, "show_remote_cursor", m["show_remote_cursor"])]
  BY DEF Good, Records, WithPermission, WithOption, Put
<1>2. /\ r \in Records /\ SameRights(d, r)
      /\ \A t \in Services : t \in r.subs <=> CASE t = "cursor" -> PeerKeyboardEnabled(d) \/ ShowRemoteCursor(d)
                                         [] t = "pos" -> ShowRemoteCursor(d)
                                         [] OTHER -> t \in d.subs
  <2> DEFINE d1 == SubscribeCursor(d)
  <2>1. (PeerKeyboardEnabled(d) \/ ShowRemoteCursor(d)) \in BOOLEAN
    BY <1>1, RightsType
  <2>2. /\ d1 \in Records /\ SameRights(d, d1)
        /\ \A t \in Services : t \in d1.subs <=> IF t = "cursor"
                 THEN PeerKeyboardEnabled(d) \/ ShowRemoteCursor(d) ELSE t \in d.subs
    BY <1>1, <2>1, SubscribeEffect DEF SubscribeCursor
  <2>3. r = Subscribe(d1, "pos", ShowRemoteCursor(d1))
    BY <1>1 DEF UpdateCursor, SubscribePos
  <2> HIDE DEF d, d1
  <2>4. ShowRemoteCursor(d1) = ShowRemoteCursor(d) /\ ShowRemoteCursor(d1) \in BOOLEAN
    BY <1>1, <2>2, RightsDecide, RightsType
  <2> HIDE DEF r
  <2>5. /\ r \in Records /\ SameRights(d1, r)
        /\ \A t \in Services : t \in r.subs <=> IF t = "pos"
                 THEN ShowRemoteCursor(d) ELSE t \in d1.subs
    BY <2>2, <2>3, <2>4, SubscribeEffect
  <2>6. SameRights(d, r)
    BY <2>2, <2>5 DEF SameRights
  <2> QED BY <2>2, <2>5, <2>6
<1> HIDE DEF d, r
<1>3. Good(r)
  BY <1>1, <1>2, ServicesAssumption
     DEF Good, Records, MayHear, HearsAll, NoPerms, CallsOnly, Fresh, SameRights, Put, CanSubFileClipboard, CanSubClipboard, ClipboardEnabled, FileTransferEnabled,
     PeerKeyboardEnabled, AudioEnabled, ShowRemoteCursor, FollowRemoteWindow
<1>4. r.authorized = c.authorized /\ r.closed = c.closed /\ r.kind = c.kind /\ r.perms = c.perms
  BY <1>1, <1>2 DEF SameRights, Records
<1> QED BY <1>3, <1>4 DEF r, Updated

(* update_options, follow_remote_window. *)
LEMMA UpdateFocusGood ==
    ASSUME NEW c, Good(c), c.authorized, ~c.closed, NEW m \in OptionMessages,
           "follow_remote_window" \in DOMAIN m
    PROVE  Updated(c, UpdateFocus(c, m))
<1> DEFINE d == WithOption(c, "follow_remote_window", m)
           r == UpdateFocus(c, m)
<1>1. d \in Records /\ d = [c EXCEPT !.opts = Put(@, "follow_remote_window", m["follow_remote_window"])]
  BY DEF Good, Records, WithPermission, WithOption, Put
<1>2. /\ r \in Records /\ SameRights(d, r)
      /\ \A t \in Services : t \in r.subs <=> IF t = "window_focus" THEN FollowRemoteWindow(d) ELSE t \in d.subs
  BY <1>1, RightsType, SubscribeEffect DEF UpdateFocus, SubscribeFocus
<1> HIDE DEF d, r
<1>3. Good(r)
  BY <1>1, <1>2, ServicesAssumption
     DEF Good, Records, MayHear, HearsAll, NoPerms, CallsOnly, Fresh, SameRights, Put, CanSubFileClipboard, CanSubClipboard, ClipboardEnabled, FileTransferEnabled,
     PeerKeyboardEnabled, AudioEnabled, ShowRemoteCursor, FollowRemoteWindow
<1>4. r.authorized = c.authorized /\ r.closed = c.closed /\ r.kind = c.kind /\ r.perms = c.perms
  BY <1>1, <1>2 DEF SameRights, Records
<1> QED BY <1>3, <1>4 DEF r, Updated

(* update_options, disable_audio. *)
LEMMA UpdateAudioGood ==
    ASSUME NEW c, Good(c), c.authorized, ~c.closed, NEW m \in OptionMessages,
           "disable_audio" \in DOMAIN m
    PROVE  Updated(c, UpdateAudio(c, m))
<1> DEFINE d == WithOption(c, "disable_audio", m)
           r == UpdateAudio(c, m)
<1>1. d \in Records /\ d = [c EXCEPT !.opts = Put(@, "disable_audio", m["disable_audio"])]
  BY DEF Good, Records, WithPermission, WithOption, Put
<1>2. /\ r \in Records /\ SameRights(d, r)
      /\ \A t \in Services : t \in r.subs <=> IF t = "audio" /\ (d.kind = "camera" => d.voice_calling \/ ~AudioEnabled(d))
                                    THEN AudioEnabled(d) ELSE t \in d.subs
  <2>1. CASE d.kind = "camera" => d.voice_calling \/ ~AudioEnabled(d)
    <3>1. r = Subscribe(d, "audio", AudioEnabled(d))
      BY <1>1, <2>1 DEF UpdateAudio, SubscribeAudio, IsAuthedViewCamera
    <3> QED BY <1>1, <2>1, <3>1, RightsType, SubscribeEffect
  <2>2. CASE ~(d.kind = "camera" => d.voice_calling \/ ~AudioEnabled(d))
    <3>1. r = d
      BY <1>1, <2>2 DEF UpdateAudio, SubscribeAudio, IsAuthedViewCamera, WithOption, Records, Good
    <3> QED BY <1>1, <2>2, <3>1 DEF SameRights
  <2> QED BY <2>1, <2>2
<1> HIDE DEF d, r
<1>3. Good(r)
  BY <1>1, <1>2, ServicesAssumption
     DEF Good, Records, MayHear, HearsAll, NoPerms, CallsOnly, Fresh, SameRights, Put, CanSubFileClipboard, CanSubClipboard, ClipboardEnabled, FileTransferEnabled,
     PeerKeyboardEnabled, AudioEnabled, ShowRemoteCursor, FollowRemoteWindow
<1>4. r.authorized = c.authorized /\ r.closed = c.closed /\ r.kind = c.kind /\ r.perms = c.perms
  BY <1>1, <1>2 DEF SameRights, Records
<1> QED BY <1>3, <1>4 DEF r, Updated

(* update_options, enable_file_transfer. *)
LEMMA UpdateFileGood ==
    ASSUME NEW c, Good(c), c.authorized, ~c.closed, NEW m \in OptionMessages,
           "enable_file_transfer" \in DOMAIN m
    PROVE  Updated(c, UpdateFile(c, m))
<1> DEFINE d == WithOption(c, "enable_file_transfer", m)
           r == UpdateFile(c, m)
<1>1. d \in Records /\ d = [c EXCEPT !.opts = Put(@, "enable_file_transfer", m["enable_file_transfer"])]
  BY DEF Good, Records, WithPermission, WithOption, Put
<1>2. /\ r \in Records /\ SameRights(d, r)
      /\ \A t \in Services : t \in r.subs <=> IF t = "file_clipboard" THEN CanSubFileClipboard(d) ELSE t \in d.subs
  BY <1>1, RightsType, SubscribeEffect DEF UpdateFile, SubscribeFileClipboard
<1> HIDE DEF d, r
<1>3. Good(r)
  BY <1>1, <1>2, ServicesAssumption
     DEF Good, Records, MayHear, HearsAll, NoPerms, CallsOnly, Fresh, SameRights, Put, CanSubFileClipboard, CanSubClipboard, ClipboardEnabled, FileTransferEnabled,
     PeerKeyboardEnabled, AudioEnabled, ShowRemoteCursor, FollowRemoteWindow
<1>4. r.authorized = c.authorized /\ r.closed = c.closed /\ r.kind = c.kind /\ r.perms = c.perms
  BY <1>1, <1>2 DEF SameRights, Records
<1> QED BY <1>3, <1>4 DEF r, Updated

(* update_options, disable_clipboard. *)
LEMMA UpdateClipboardGood ==
    ASSUME NEW c, Good(c), c.authorized, ~c.closed, NEW m \in OptionMessages,
           "disable_clipboard" \in DOMAIN m
    PROVE  Updated(c, UpdateClipboard(c, m))
<1> DEFINE d == WithOption(c, "disable_clipboard", m)
           r == UpdateClipboard(c, m)
<1>1. d \in Records /\ d = [c EXCEPT !.opts = Put(@, "disable_clipboard", m["disable_clipboard"])]
  BY DEF Good, Records, WithPermission, WithOption, Put
<1>2. /\ r \in Records /\ SameRights(d, r)
      /\ \A t \in Services : t \in r.subs <=> IF t = "clipboard" THEN CanSubClipboard(d) ELSE t \in d.subs
  BY <1>1, RightsType, SubscribeEffect DEF UpdateClipboard, SubscribeClipboard
<1> HIDE DEF d, r
<1>3. Good(r)
  BY <1>1, <1>2, ServicesAssumption
     DEF Good, Records, MayHear, HearsAll, NoPerms, CallsOnly, Fresh, SameRights, Put, CanSubFileClipboard, CanSubClipboard, ClipboardEnabled, FileTransferEnabled,
     PeerKeyboardEnabled, AudioEnabled, ShowRemoteCursor, FollowRemoteWindow
<1>4. r.authorized = c.authorized /\ r.closed = c.closed /\ r.kind = c.kind /\ r.perms = c.perms
  BY <1>1, <1>2 DEF SameRights, Records
<1> QED BY <1>3, <1>4 DEF r, Updated

(* update_options, disable_keyboard. *)
LEMMA UpdateKeyboardGood ==
    ASSUME NEW c, Good(c), c.authorized, ~c.closed, NEW m \in OptionMessages,
           "disable_keyboard" \in DOMAIN m
    PROVE  Updated(c, UpdateKeyboard(c, m))
<1> DEFINE d == WithOption(c, "disable_keyboard", m)
           r == UpdateKeyboard(c, m)
<1>1. d \in Records /\ d = [c EXCEPT !.opts = Put(@, "disable_keyboard", m["disable_keyboard"])]
  BY DEF Good, Records, WithPermission, WithOption, Put
<1>2. /\ r \in Records /\ SameRights(d, r)
      /\ \A t \in Services : t \in r.subs <=> IF t = "clipboard" THEN CanSubClipboard(d)
                          ELSE IF t = "file_clipboard" THEN CanSubFileClipboard(d)
                          ELSE IF t = "cursor" THEN (PeerKeyboardEnabled(d) \/ ShowRemoteCursor(d)) ELSE t \in d.subs
  <2> DEFINE d2 == SubscribeFileClipboard(SubscribeClipboard(d))
  <2>1. (PeerKeyboardEnabled(d) \/ ShowRemoteCursor(d)) \in BOOLEAN
    BY <1>1, RightsType
  <2>2. /\ d2 \in Records /\ SameRights(d, d2)
    <3> DEFINE d1 == SubscribeClipboard(d)
    <3>1. d1 \in Records /\ SameRights(d, d1)
      BY <1>1, RightsType, SubscribeEffect DEF SubscribeClipboard
    <3> HIDE DEF d1
    <3>2. SubscribeFileClipboard(d1) \in Records /\ SameRights(d1, SubscribeFileClipboard(d1))
      BY <3>1, RightsType, SubscribeEffect DEF SubscribeFileClipboard
    <3> QED BY <3>1, <3>2 DEF SameRights, d1
  <2>3. r = SubscribeCursor(d2)
    BY <1>1 DEF UpdateKeyboard
  <2>4. PeerKeyboardEnabled(d2) = PeerKeyboardEnabled(d) /\ ShowRemoteCursor(d2) = ShowRemoteCursor(d)
    BY <1>1, <2>2, RightsDecide
  <2>5. r = Subscribe(d2, "cursor", PeerKeyboardEnabled(d) \/ ShowRemoteCursor(d))
    BY <2>3, <2>4 DEF SubscribeCursor
  <2> DEFINE f == PeerKeyboardEnabled(d) \/ ShowRemoteCursor(d)
  <2>6. f \in BOOLEAN /\ r = Subscribe(d2, "cursor", f)
    BY <2>1, <2>5
  <2> HIDE DEF d, d2, f, r
  <2>7. /\ r \in Records /\ SameRights(d, r)
        /\ \A t \in Services : t \in r.subs <=> IF t = "clipboard" THEN CanSubClipboard(d)
                          ELSE IF t = "file_clipboard" THEN CanSubFileClipboard(d)
                          ELSE IF t = "cursor" THEN f ELSE t \in d.subs
    <3>1. d \in Records /\ f \in BOOLEAN
      BY <1>1, <2>6
    <3>2. r = Subscribe(SubscribeFileClipboard(SubscribeClipboard(d)), "cursor", f)
      BY <2>6 DEF d2
    <3> QED BY <3>1, <3>2, ThreeEffect
  <2> QED BY <2>7 DEF f
<1> HIDE DEF d, r
<1>3. Good(r)
  BY <1>1, <1>2, ServicesAssumption
     DEF Good, Records, MayHear, HearsAll, NoPerms, CallsOnly, Fresh, SameRights, Put, CanSubFileClipboard, CanSubClipboard, ClipboardEnabled, FileTransferEnabled,
     PeerKeyboardEnabled, AudioEnabled, ShowRemoteCursor, FollowRemoteWindow
<1>4. r.authorized = c.authorized /\ r.closed = c.closed /\ r.kind = c.kind /\ r.perms = c.perms
  BY <1>1, <1>2 DEF SameRights, Records
<1> QED BY <1>3, <1>4 DEF r, Updated

(* Misc::Option and the options of a login: one after the other. *)
LEMMA UpdateOptionsGood ==
    ASSUME NEW c, Good(c), c.authorized, ~c.closed, NEW m \in OptionMessages
    PROVE  Updated(c, UpdateOptions(c, m))
<1> DEFINE c1 == UpdateCursor(c, m)
           c2 == UpdateFocus(c1, m)
           c3 == UpdateAudio(c2, m)
           c4 == UpdateFile(c3, m)
           c5 == UpdateClipboard(c4, m)
           c6 == UpdateKeyboard(c5, m)
<1>0. Updated(c, c)
  BY DEF Updated
<1>1. Updated(c, c1)
  BY <1>0, UpdateCursorGood DEF UpdateCursor
<1> HIDE DEF c1
<1>2. Updated(c, c2)
  <2>1. "follow_remote_window" \in DOMAIN m => Updated(c1, c2)
    BY <1>1, UpdateFocusGood DEF Updated
  <2> QED BY <1>1, <2>1 DEF Updated, UpdateFocus
<1> HIDE DEF c2
<1>3. Updated(c, c3)
  <2>1. "disable_audio" \in DOMAIN m => Updated(c2, c3)
    BY <1>2, UpdateAudioGood DEF Updated
  <2> QED BY <1>2, <2>1 DEF Updated, UpdateAudio
<1> HIDE DEF c3
<1>4. Updated(c, c4)
  <2>1. "enable_file_transfer" \in DOMAIN m => Updated(c3, c4)
    BY <1>3, UpdateFileGood DEF Updated
  <2> QED BY <1>3, <2>1 DEF Updated, UpdateFile
<1> HIDE DEF c4
<1>5. Updated(c, c5)
  <2>1. "disable_clipboard" \in DOMAIN m => Updated(c4, c5)
    BY <1>4, UpdateClipboardGood DEF Updated
  <2> QED BY <1>4, <2>1 DEF Updated, UpdateClipboard
<1> HIDE DEF c5
<1>6. Updated(c, c6)
  <2>1. "disable_keyboard" \in DOMAIN m => Updated(c5, c6)
    BY <1>5, UpdateKeyboardGood DEF Updated
  <2> QED BY <1>5, <2>1 DEF Updated, UpdateKeyboard
<1> QED BY <1>6 DEF UpdateOptions, c1, c2, c3, c4, c5

(* try_sub_monitor_services: the services the connection may hear. *)
LEMMA TrySubGood ==
    ASSUME NEW c, Good(c), c.authorized, ~c.closed
    PROVE  Good(TrySubMonitorServices(c)) /\ TrySubMonitorServices(c).perms = c.perms
<1>1. CASE c.kind # "remote" \/ c.services_subed
  BY <1>1 DEF TrySubMonitorServices
<1>2. CASE c.kind = "remote" /\ ~c.services_subed
  <2> DEFINE r == [c EXCEPT !.services_subed = TRUE, !.subs = @ \cup (Services \ NoPerms(c))]
  <2>1. TrySubMonitorServices(c) = r
    BY <1>2 DEF TrySubMonitorServices
  <2>2. r \in Records /\ r.perms = c.perms
    BY DEF Good, Records
  <2>3. MayHear(r) /\ HearsAll(r)
    BY <1>2, ServicesAssumption
       DEF Good, Records, MayHear, HearsAll, NoPerms, CanSubFileClipboard, CanSubClipboard,
           ClipboardEnabled, FileTransferEnabled, PeerKeyboardEnabled, AudioEnabled,
           ShowRemoteCursor, FollowRemoteWindow
  <2>4. CallsOnly(r) /\ Fresh(r)
    BY <1>2 DEF Good, Records, CallsOnly, Fresh
  <2> QED BY <2>1, <2>2, <2>3, <2>4 DEF Good
<1> QED BY <1>1, <1>2 DEF Good, Records

(* send_logon_response: from no session to one. *)
LEMMA LogonGood ==
    ASSUME NEW c, Good(c), ~c.authorized, ~c.closed, NEW ready \in BOOLEAN
    PROVE  /\ Good(Logon(c, ready))
           /\ Logon(c, ready).perms = IF c.kind = "camera" THEN c.perms \ {"keyboard"}
                                                           ELSE c.perms
<1> DEFINE a == [c EXCEPT !.authorized = TRUE]
           d == UpdateOptions(a, c.options_in_login)
           e == [d EXCEPT !.options_in_login = NoOptions]
<1>1. Good(a) /\ a.authorized /\ ~a.closed /\ a.kind = c.kind /\ a.perms = c.perms
  BY DEF Good, Records, MayHear, HearsAll, NoPerms, CallsOnly, Fresh, CanSubFileClipboard,
         CanSubClipboard, ClipboardEnabled, FileTransferEnabled, PeerKeyboardEnabled,
         AudioEnabled, ShowRemoteCursor, FollowRemoteWindow
<1>2. c.options_in_login \in OptionMessages
  BY DEF Good, Records
<1> HIDE DEF a
<1>3. Good(d) /\ d.authorized /\ ~d.closed /\ d.kind = c.kind /\ d.perms = c.perms
  BY <1>1, <1>2, UpdateOptionsGood DEF Updated
<1> HIDE DEF d
<1>4. NoOptions \in OptionMessages
  BY DEF NoOptions, OptionMessages
<1>5. Good(e) /\ e.authorized /\ ~e.closed /\ e.kind = c.kind /\ e.perms = c.perms
  BY <1>3, <1>4
     DEF Good, Records, MayHear, HearsAll, NoPerms, CallsOnly, Fresh, CanSubFileClipboard,
         CanSubClipboard, ClipboardEnabled, FileTransferEnabled, PeerKeyboardEnabled,
         AudioEnabled, ShowRemoteCursor, FollowRemoteWindow
<1>6. Logon(c, ready) = CASE e.kind = "file" -> e
                          [] e.kind = "camera" -> WithPermission(e, "keyboard", FALSE)
                          [] e.kind = "remote" -> IF ready THEN TrySubMonitorServices(e) ELSE e
  BY DEF Logon, a, d
<1> HIDE DEF e
<1>7. CASE e.kind = "file"
  BY <1>5, <1>6, <1>7
<1>8. CASE e.kind = "remote"
  BY <1>5, <1>6, <1>8, TrySubGood
<1>9. CASE e.kind = "camera"
  <2> DEFINE r == WithPermission(e, "keyboard", FALSE)
  <2>1. Logon(c, ready) = r
    BY <1>6, <1>9
  <2>2. r \in Records /\ r.perms = c.perms \ {"keyboard"}
    BY <1>5 DEF Good, Records, WithPermission, Put
  <2>3. MayHear(r)
    BY <1>5, <1>9 DEF Good, Records, MayHear, WithPermission, Put, FileTransferEnabled,
                      AudioEnabled, ShowRemoteCursor, FollowRemoteWindow
  <2>4. HearsAll(r) /\ CallsOnly(r) /\ Fresh(r)
    BY <1>5, <1>9 DEF Good, Records, HearsAll, CallsOnly, Fresh, WithPermission, Put, AudioEnabled
  <2> QED BY <1>5, <1>9, <2>1, <2>2, <2>3, <2>4 DEF Good
<1> QED BY <1>5, <1>7, <1>8, <1>9 DEF Good, Records

(* handle_voice_call and close_voice_call: only a camera session's audio    *)
(* follows the call.                                                        *)
LEMMA CallGood ==
    ASSUME NEW c, Good(c), c.authorized, NEW request \in BOOLEAN, NEW calling \in BOOLEAN
    PROVE  Good(WithCall(c, request, calling)) /\ WithCall(c, request, calling).perms = c.perms
<1> DEFINE d == [c EXCEPT !.voice_request = request, !.voice_calling = calling]
           sub == AudioEnabled(d) /\ calling
           r == WithCall(c, request, calling)
<1>0. /\ r = IF IsAuthedViewCamera(d) THEN Subscribe(d, "audio", sub) ELSE d
      /\ sub \in BOOLEAN
  BY DEF WithCall, AudioEnabled
<1> HIDE DEF r
<1>1. d \in Records
  BY DEF Good, Records
<1>2. /\ r \in Records /\ SameRights(d, r)
      /\ \A t \in Services : t \in r.subs <=>
            IF t = "audio" /\ d.kind = "camera" THEN sub ELSE t \in d.subs
  <2>1. CASE IsAuthedViewCamera(d)
    <3>1. r = Subscribe(d, "audio", sub) /\ d.kind = "camera"
      BY <1>0, <2>1 DEF IsAuthedViewCamera
    <3> HIDE DEF d, sub
    <3>2. /\ Subscribe(d, "audio", sub) \in Records
          /\ SameRights(d, Subscribe(d, "audio", sub))
          /\ \A t \in Services : t \in Subscribe(d, "audio", sub).subs <=>
                IF t = "audio" THEN sub ELSE t \in d.subs
      BY <1>0, <1>1, SubscribeEffect
    <3> QED BY <3>1, <3>2
  <2>2. CASE ~IsAuthedViewCamera(d)
    <3>1. r = d /\ d.kind # "camera"
      BY <1>0, <2>2 DEF IsAuthedViewCamera, Good, Records
    <3> QED BY <1>1, <3>1 DEF SameRights
  <2> QED BY <2>1, <2>2
<1>3. r.perms = c.perms
  BY <1>2 DEF SameRights, Good, Records
<1>4. MayHear(r)
  BY <1>1, <1>2, ServicesAssumption
     DEF Good, Records, MayHear, SameRights, CanSubClipboard, ClipboardEnabled,
         FileTransferEnabled, PeerKeyboardEnabled, AudioEnabled, ShowRemoteCursor,
         FollowRemoteWindow
<1>5. HearsAll(r)
  BY <1>1, <1>2, ServicesAssumption
     DEF Good, Records, HearsAll, NoPerms, SameRights, CanSubClipboard, CanSubFileClipboard,
         ClipboardEnabled, FileTransferEnabled, PeerKeyboardEnabled, AudioEnabled,
         ShowRemoteCursor, FollowRemoteWindow
<1>6. CallsOnly(r) /\ Fresh(r)
  BY <1>1, <1>2 DEF Good, Records, CallsOnly, Fresh, SameRights, AudioEnabled
<1> QED BY <1>2, <1>3, <1>4, <1>5, <1>6 DEF Good, r

(* Connection::start: nothing is subscribed yet. *)
LEMMA NewConnGood ==
    ASSUME NEW kind \in Kinds, NEW perms \in SUBSET PermissionNames
    PROVE  Good(NewConn(kind, perms)) /\ NewConn(kind, perms).perms = perms
<1>1. NoOptions \in OptionMessages
  BY DEF NoOptions, OptionMessages
<1> QED BY <1>1 DEF NewConn, Good, Records, MayHear, HearsAll, CallsOnly, Fresh

(* The messages of the peer are option messages. *)
LEMMA MessagesType ==
    ASSUME NEW cfg \in SUBSET Toggles, NEW kind
    PROVE  /\ LoginOptions(cfg, kind) \in OptionMessages
           /\ \A t \in Toggles : Toggled(cfg, t) \in OptionMessages
<1>1. Wanted(cfg) \in SUBSET OptionNames
  BY DEF Wanted, Plain
<1>2. LoginOptions(cfg, kind) \in OptionMessages
  <2> DEFINE D == {p \in Wanted(cfg) : kind # "file"}
  <2>1. LoginOptions(cfg, kind) \in [D -> BOOLEAN] /\ D \in SUBSET OptionNames
    BY <1>1 DEF LoginOptions
  <2> QED BY <2>1 DEF OptionMessages
<1>3. ASSUME NEW t \in Toggles
      PROVE  Toggled(cfg, t) \in OptionMessages
  <2>1. Carried(t) \in SUBSET OptionNames
    BY DEF Carried, Toggles
  <2>2. Toggled(cfg, t) \in [Carried(t) -> BOOLEAN]
    BY <1>1, <2>1 DEF Toggled
  <2> QED BY <2>1, <2>2 DEF OptionMessages
<1> QED BY <1>2, <1>3

(* What the host reads is a message, and what it says of an option is a truth *)
(* value.                                                                   *)
LEMMA MessageRead ==
    ASSUME NEW s \in Seq(Messages), s # <<>>
    PROVE  /\ Head(s) \in Messages /\ Head(s).option \in OptionMessages
           /\ Tail(s) \in Seq(Messages)
<1>1. Head(s) \in Messages
  OBVIOUS
<1>2. Tail(s) \in Seq(Messages)
  OBVIOUS
<1> QED BY <1>1, <1>2 DEF Messages

LEMMA OptionSays ==
    ASSUME NEW m \in OptionMessages
    PROVE  DOMAIN m \in SUBSET OptionNames /\ \A o \in DOMAIN m : m[o] \in BOOLEAN
<1> PICK D \in SUBSET OptionNames : m \in [D -> BOOLEAN]
  BY DEF OptionMessages
<1> QED OBVIOUS

-----------------------------------------------------------------------------
(* The inductive invariant. *)
IInv ==
    /\ Good(conn)
    /\ config \in SUBSET UserToggles /\ sent \in Seq(Messages)
    /\ missed \in SUBSET OptionNames /\ told \in SUBSET PermissionNames
    /\ ~conn.closed => told = conn.perms

LEMMA InitInv == Init => IInv
<1> SUFFICES ASSUME NEW kind \in Kinds, NEW perms \in SUBSET PermissionNames,
                    conn = NewConn(kind, perms), told = perms,
                    config \in SUBSET UserToggles, sent = <<>>, missed = {}
             PROVE  IInv
  BY DEF Init
<1>1. Good(conn) /\ conn.perms = perms
  BY NewConnGood
<1> QED BY <1>1 DEF IInv

(* Every step of either side keeps it. *)
LEMMA NextInv == IInv /\ [Next]_vars => IInv'
<1> SUFFICES ASSUME IInv, [Next]_vars
             PROVE  IInv'
  OBVIOUS
<1> USE DEF IInv
<1> USE TogglesAssumption
<1>1. CASE LoginRequest
  <2>1. LoginOptions(config, conn.kind) \in OptionMessages
    BY MessagesType
  <2>2. sent' \in Seq(Messages)
    BY <1>1, <2>1 DEF LoginRequest, Messages
  <2> QED BY <1>1, <2>2 DEF LoginRequest
<1>13. CASE ReceiveLogin
  <2>0. /\ sent' \in Seq(Messages) /\ Head(sent).option \in OptionMessages
        /\ missed' \in SUBSET OptionNames
    BY <1>13, MessageRead DEF ReceiveLogin
  <2>1. CASE conn.authorized
    BY <1>13, <2>0, <2>1 DEF ReceiveLogin
  <2>2. CASE ~conn.authorized
    <3> DEFINE r == [conn EXCEPT !.requested = TRUE, !.options_in_login = Head(sent).option]
    <3>1. r \in Records /\ r.perms = conn.perms /\ r.closed = conn.closed
      BY <2>0 DEF Good, Records
    <3>2. MayHear(r)
      BY <2>2 DEF Good, Records, MayHear, CanSubClipboard, ClipboardEnabled,
                  FileTransferEnabled, PeerKeyboardEnabled, AudioEnabled, ShowRemoteCursor,
                  FollowRemoteWindow
    <3>3. HearsAll(r) /\ CallsOnly(r) /\ Fresh(r)
      BY <2>2 DEF Good, Records, HearsAll, CallsOnly, Fresh
    <3>4. conn' = r /\ UNCHANGED <<config, told>>
      BY <1>13, <2>2 DEF ReceiveLogin
    <3> QED BY <2>0, <3>1, <3>2, <3>3, <3>4 DEF Good
  <2> QED BY <2>1, <2>2
<1>2. CASE \E ready \in BOOLEAN : Authorize(ready)
  <2> SUFFICES ASSUME NEW ready \in BOOLEAN, Authorize(ready)
               PROVE  IInv'
    BY <1>2
  <2>1. Good(Logon(conn, ready))
    BY LogonGood DEF Authorize
  <2>2. Logon(conn, ready).perms = IF conn.kind = "camera" THEN conn.perms \ {"keyboard"}
                                                           ELSE conn.perms
    BY LogonGood DEF Authorize
  <2> QED BY <2>1, <2>2 DEF Authorize
<1>3. CASE SelectedSid
  BY <1>3, TrySubGood DEF SelectedSid
<1>4. ASSUME NEW p \in PermissionNames, NEW enabled \in BOOLEAN,
             SwitchPermission(p, enabled)
      PROVE  IInv'
  <2>1. Good(conn') /\ conn'.perms = Put(conn.perms, p, enabled)
    BY <1>4, SwitchKeyboardGood, SwitchClipboardGood, SwitchAudioGood, SwitchFileGood
       DEF SwitchPermission, Switched
  <2>2. told' = conn'.perms /\ UNCHANGED <<config, sent, missed>>
    BY <1>4, <2>1 DEF SwitchPermission
  <2>3. told' \in SUBSET PermissionNames
    BY <2>1, <2>2 DEF Good, Records
  <2> QED BY <2>1, <2>2, <2>3
<1>5. ASSUME NEW t \in UserToggles, ToggleOption(t)
      PROVE  IInv'
  <2>1. config' \in SUBSET UserToggles
    BY <1>5 DEF ToggleOption, Put
  <2>2. Toggled(config', t) \in OptionMessages
    BY <2>1, MessagesType
  <2>3. sent' \in Seq(Messages)
    <3>1. [login |-> FALSE, option |-> Toggled(config', t)] \in Messages
      BY <2>2 DEF Messages
    <3> QED BY <1>5, <3>1 DEF ToggleOption
  <2> QED BY <1>5, <2>1, <2>3 DEF ToggleOption
<1>6. CASE ReceiveOption
  <2>1. Head(sent).option \in OptionMessages /\ sent' \in Seq(Messages)
    BY <1>6, MessageRead DEF ReceiveOption
  <2>2. missed' \in SUBSET OptionNames
    BY <1>6, <2>1, OptionSays DEF ReceiveOption
  <2>3. CASE conn.authorized
    <3>1. Updated(conn, conn')
      BY <1>6, <2>1, <2>3, UpdateOptionsGood DEF ReceiveOption
    <3> QED BY <1>6, <2>1, <2>2, <3>1 DEF ReceiveOption, Updated
  <2>4. CASE ~conn.authorized
    BY <1>6, <2>1, <2>2, <2>4 DEF ReceiveOption
  <2> QED BY <2>3, <2>4
<1>7. CASE VoiceCallRequest
  <2> DEFINE r == [conn EXCEPT !.voice_request = TRUE]
  <2>1. r \in Records /\ r.perms = conn.perms
    BY DEF Good, Records
  <2>2. MayHear(r)
    BY DEF Good, Records, MayHear, CanSubClipboard, ClipboardEnabled, FileTransferEnabled,
           PeerKeyboardEnabled, AudioEnabled, ShowRemoteCursor, FollowRemoteWindow
  <2>3. HearsAll(r)
    BY DEF Good, Records, HearsAll, NoPerms, CanSubClipboard, CanSubFileClipboard,
           ClipboardEnabled, FileTransferEnabled, PeerKeyboardEnabled, AudioEnabled,
           ShowRemoteCursor, FollowRemoteWindow
  <2>4. CallsOnly(r) /\ Fresh(r)
    BY <1>7 DEF VoiceCallRequest, Good, Records, CallsOnly, Fresh, AudioEnabled
  <2> QED BY <1>7, <2>1, <2>2, <2>3, <2>4 DEF VoiceCallRequest, Good
<1>8. ASSUME NEW accepted \in BOOLEAN, VoiceCallResponse(accepted)
      PROVE  IInv'
  <2>1. conn.authorized
    BY <1>8 DEF VoiceCallResponse, Good, Fresh, Records
  <2>2. Good(WithCall(conn, FALSE, accepted)) /\ WithCall(conn, FALSE, accepted).perms = conn.perms
    BY <2>1, CallGood
  <2> QED BY <1>8, <2>2 DEF VoiceCallResponse
<1>9. CASE CloseVoiceCall
  <2> DEFINE r == WithCall(conn, conn.voice_request, FALSE)
  <2>1. conn.authorized /\ conn.voice_request \in BOOLEAN
    BY <1>9 DEF CloseVoiceCall, Good, Records
  <2>2. Good(r) /\ r.perms = conn.perms
    BY <2>1, CallGood
  <2> QED BY <1>9, <2>2 DEF CloseVoiceCall
<1>10. CASE Close
  <2> DEFINE n == NewConn(conn.kind, {})
             r == [n EXCEPT !.closed = TRUE]
  <2>1. Good(n) /\ n.subs = {}
    BY NewConnGood DEF Good, Records, NewConn
  <2>2. r \in Records
    BY <2>1 DEF Good, Records
  <2>3. MayHear(r) /\ HearsAll(r) /\ CallsOnly(r) /\ Fresh(r)
    BY DEF NewConn, MayHear, HearsAll, CallsOnly, Fresh
  <2>4. r.closed /\ sent' \in Seq(Messages)
    BY <1>10 DEF Close, NewConn
  <2> QED BY <1>10, <2>2, <2>3, <2>4 DEF Close, Good
<1>11. CASE \E perms \in SUBSET PermissionNames : Reconnect(perms)
  BY <1>11, NewConnGood DEF Reconnect, Good, Records
<1>12. CASE UNCHANGED vars
  BY <1>12 DEF vars
<1> QED BY <1>1, <1>2, <1>3, <1>4, <1>5, <1>6, <1>7, <1>8, <1>9, <1>10, <1>11, <1>12, <1>13 DEF Next

(* The strengthening holds in every reachable state. *)
THEOREM Invariance == Spec => []IInv
BY InitInv, NextInv, PTL DEF Spec

-----------------------------------------------------------------------------
(* Type correctness. *)
THEOREM TypeCorrect == Spec => []TypeOK
<1>1. IInv => TypeOK
  BY DEF IInv, Good, Records, TypeOK
<1> QED BY <1>1, Invariance, PTL

(* A remote session hears the clipboard, the audio, the pointer and the     *)
(* focus exactly when permissions and options say so.                       *)
THEOREM ServicesAlwaysMatch == Spec => []ServicesMatch
<1>1. IInv => ServicesMatch
  <2> SUFFICES ASSUME IInv, Serving
               PROVE  ServicesMatch
    BY DEF ServicesMatch
  <2> USE DEF IInv, Serving
  <2>1. conn.kind = "remote"
    BY DEF Good, HearsAll
  <2>2. conn.subs \subseteq Services
    BY DEF Good, Records
  <2>3. \A s \in {"clipboard", "audio", "pos", "window_focus"} :
           s \in conn.subs => s \notin NoPerms(conn)
    BY <2>1 DEF Good, MayHear, NoPerms
  <2>4. \A s \in Services \ {"file_clipboard"} : s \notin NoPerms(conn) => s \in conn.subs
    BY DEF Good, HearsAll
  <2> QED BY <2>2, <2>3, <2>4, ServicesAssumption DEF ServicesMatch
<1> QED BY <1>1, Invariance, PTL

(* The cursor's shape goes to who controls or wants to see it. *)
THEOREM CursorAlwaysMatches == Spec => []CursorMatch
<1>1. IInv => CursorMatch
  BY DEF IInv, Good, HearsAll, MayHear, NoPerms, CursorMatch, Serving
<1> QED BY <1>1, Invariance, PTL

(* The host's sound reaches a camera session only in an accepted call. *)
THEOREM CameraAudioOnlyInCall == Spec => []CameraAudioInCall
<1>1. IInv => CameraAudioInCall
  BY DEF IInv, Good, CallsOnly, CameraAudioInCall, IsAuthedViewCamera
<1> QED BY <1>1, Invariance, PTL

(* Copied files are announced only with the permission and the wish. *)
THEOREM FileClipboardPermitted == Spec => []FileClipboardNeedsFile
<1>1. IInv => FileClipboardNeedsFile
  BY DEF IInv, Good, MayHear, FileClipboardNeedsFile
<1> QED BY <1>1, Invariance, PTL

(* The peer is told of every change of its permissions. *)
THEOREM PeerAlwaysKnows == Spec => []PeerKnows
<1>1. IInv => PeerKnows
  BY DEF IInv, PeerKnows
<1> QED BY <1>1, Invariance, PTL
-----------------------------------------------------------------------------
(* The peer's options on their way to the host. *)

(* What no handler of a session changes but the login itself.               *)
Shaped(c) ==
    {"kind", "perms", "opts", "subs", "options_in_login", "authorized", "services_subed",
     "requested", "voice_request", "voice_calling", "closed"} \subseteq DOMAIN c
Session(c, r) ==
    /\ Shaped(r)
    /\ r.kind = c.kind /\ r.authorized = c.authorized /\ r.closed = c.closed
    /\ r.requested = c.requested /\ r.options_in_login = c.options_in_login
Kept(c, r) == Session(c, r) /\ r.opts = c.opts

LEMMA SubscribeKeeps ==
    ASSUME NEW c, Shaped(c), NEW s, NEW sub
    PROVE  Kept(c, Subscribe(c, s, sub))
BY DEF Subscribe, Shaped, Session, Kept

LEMMA PermissionKeeps ==
    ASSUME NEW c, Shaped(c), NEW p, NEW e
    PROVE  Kept(c, WithPermission(c, p, e))
BY DEF WithPermission, Shaped, Session, Kept

LEMMA KeptTwice ==
    ASSUME NEW c, NEW d, NEW r, Kept(c, d), Kept(d, r)
    PROVE  Kept(c, r)
BY DEF Kept, Session

(* One service after the other. *)
LEMMA EachKeeps ==
    ASSUME NEW c, Shaped(c)
    PROVE  /\ Kept(c, c)
           /\ Kept(c, SubscribeAudio(c)) /\ Kept(c, SubscribeCursor(c))
           /\ Kept(c, SubscribePos(c)) /\ Kept(c, SubscribeFocus(c))
           /\ Kept(c, SubscribeClipboard(c)) /\ Kept(c, SubscribeFileClipboard(c))
<1>1. Kept(c, c)
  BY DEF Kept, Session
<1> QED BY <1>1, SubscribeKeeps
        DEF SubscribeAudio, SubscribeCursor, SubscribePos, SubscribeFocus,
            SubscribeClipboard, SubscribeFileClipboard

(* A permission that is switched is not an option. *)
LEMMA SwitchedKeeps ==
    ASSUME NEW c, Shaped(c), NEW p \in PermissionNames, NEW e
    PROVE  Kept(c, Switched(c, p, e))
<1> DEFINE d == WithPermission(c, p, e)
           d1 == SubscribeClipboard(d)
           d2 == SubscribeFileClipboard(d1)
<1>1. Kept(c, d) /\ Shaped(d)
  BY PermissionKeeps DEF Kept, Session
<1> HIDE DEF d
<1>2. Kept(c, d1) /\ Shaped(d1)
  BY <1>1, EachKeeps, KeptTwice DEF Kept, Session
<1>3. Kept(c, SubscribeAudio(d)) /\ Kept(c, SubscribeFileClipboard(d))
  BY <1>1, EachKeeps, KeptTwice
<1> HIDE DEF d1
<1>4. Kept(c, d2) /\ Shaped(d2)
  BY <1>2, EachKeeps, KeptTwice DEF Kept, Session
<1> HIDE DEF d2
<1>5. Kept(c, Subscribe(d2, "cursor", e \/ ShowRemoteCursor(d)))
  BY <1>4, SubscribeKeeps, KeptTwice
<1>6. CASE p = "keyboard"
  BY <1>5, <1>6 DEF Switched, SwitchKeyboard, d, d1, d2
<1>7. CASE p = "clipboard"
  BY <1>2, <1>7 DEF Switched, SwitchClipboard, d, d1
<1>8. CASE p = "audio"
  <2>1. Switched(c, p, e) = IF c.authorized THEN SubscribeAudio(d) ELSE d
    BY <1>8 DEF Switched, SwitchAudio, d
  <2> QED BY <1>1, <1>3, <2>1
<1>9. CASE p = "file"
  BY <1>3, <1>9 DEF Switched, SwitchFile, d
<1> QED BY <1>6, <1>7, <1>8, <1>9

LEMMA OthersKeep ==
    ASSUME NEW c, Shaped(c), NEW request, NEW calling
    PROVE  Kept(c, TrySubMonitorServices(c)) /\ Kept(c, WithCall(c, request, calling))
<1>1. Kept(c, TrySubMonitorServices(c))
  BY DEF TrySubMonitorServices, Kept, Session, Shaped
<1> DEFINE d == [c EXCEPT !.voice_request = request, !.voice_calling = calling]
<1>2. Kept(c, d) /\ Shaped(d)
  BY DEF Kept, Session, Shaped
<1>3. WithCall(c, request, calling) = d
      \/ WithCall(c, request, calling) = Subscribe(d, "audio", AudioEnabled(d) /\ calling)
  BY DEF WithCall
<1> HIDE DEF d
<1>4. Kept(c, Subscribe(d, "audio", AudioEnabled(d) /\ calling))
  BY <1>2, SubscribeKeeps, KeptTwice
<1> QED BY <1>1, <1>2, <1>3, <1>4

(* Option o of r is what m says, or as it was in c; the others stay.        *)
SetBy(c, r, o, m) ==
    /\ Session(c, r)
    /\ r.opts = IF o \in DOMAIN m THEN Put(c.opts, o, m[o]) ELSE c.opts

(* Each option is set, whatever is subscribed after it.                     *)
LEMMA OptionSet ==
    ASSUME NEW c, Shaped(c), NEW m
    PROVE  /\ SetBy(c, UpdateCursor(c, m), "show_remote_cursor", m)
           /\ SetBy(c, UpdateFocus(c, m), "follow_remote_window", m)
           /\ SetBy(c, UpdateAudio(c, m), "disable_audio", m)
           /\ SetBy(c, UpdateFile(c, m), "enable_file_transfer", m)
           /\ SetBy(c, UpdateClipboard(c, m), "disable_clipboard", m)
           /\ SetBy(c, UpdateKeyboard(c, m), "disable_keyboard", m)
<1>1. ASSUME NEW o, o \in DOMAIN m
      PROVE  SetBy(c, WithOption(c, o, m), o, m) /\ Shaped(WithOption(c, o, m))
  BY <1>1 DEF WithOption, SetBy, Session, Shaped
<1>2. ASSUME NEW o, o \in DOMAIN m, NEW r, Kept(WithOption(c, o, m), r)
      PROVE  SetBy(c, r, o, m)
  BY <1>1, <1>2 DEF SetBy, Kept, Session
<1>3. ASSUME NEW o, o \notin DOMAIN m PROVE SetBy(c, c, o, m)
  BY <1>3 DEF SetBy, Session
<1>4. ASSUME NEW d, Shaped(d)
      PROVE  /\ Kept(d, SubscribePos(SubscribeCursor(d)))
             /\ Kept(d, SubscribeCursor(SubscribeFileClipboard(SubscribeClipboard(d))))
  <2>1. /\ Kept(d, SubscribeCursor(d)) /\ Shaped(SubscribeCursor(d))
        /\ Kept(d, SubscribeClipboard(d)) /\ Shaped(SubscribeClipboard(d))
    BY <1>4, EachKeeps DEF Kept, Session
  <2>2. Kept(d, SubscribePos(SubscribeCursor(d)))
    BY <2>1, EachKeeps, KeptTwice
  <2>3. /\ Kept(d, SubscribeFileClipboard(SubscribeClipboard(d)))
        /\ Shaped(SubscribeFileClipboard(SubscribeClipboard(d)))
    BY <2>1, EachKeeps, KeptTwice DEF Kept, Session
  <2>4. Kept(d, SubscribeCursor(SubscribeFileClipboard(SubscribeClipboard(d))))
    BY <2>3, EachKeeps, KeptTwice
  <2> QED BY <2>2, <2>4
<1>5. SetBy(c, UpdateCursor(c, m), "show_remote_cursor", m)
  BY <1>1, <1>2, <1>3, <1>4 DEF UpdateCursor
<1>6. SetBy(c, UpdateFocus(c, m), "follow_remote_window", m)
  BY <1>1, <1>2, <1>3, EachKeeps DEF UpdateFocus
<1>7. SetBy(c, UpdateAudio(c, m), "disable_audio", m)
  BY <1>1, <1>2, <1>3, EachKeeps DEF UpdateAudio
<1>8. SetBy(c, UpdateFile(c, m), "enable_file_transfer", m)
  BY <1>1, <1>2, <1>3, EachKeeps DEF UpdateFile
<1>9. SetBy(c, UpdateClipboard(c, m), "disable_clipboard", m)
  BY <1>1, <1>2, <1>3, EachKeeps DEF UpdateClipboard
<1>10. SetBy(c, UpdateKeyboard(c, m), "disable_keyboard", m)
  BY <1>1, <1>2, <1>3, <1>4 DEF UpdateKeyboard
<1> QED BY <1>5, <1>6, <1>7, <1>8, <1>9, <1>10

(* update_options: what the message carries is set, the rest is as it was.  *)
LEMMA UpdateOptionsSets ==
    ASSUME NEW c, Shaped(c), NEW m
    PROVE  /\ Session(c, UpdateOptions(c, m))
           /\ \A o \in OptionNames :
                 o \in UpdateOptions(c, m).opts <=> IF o \in DOMAIN m THEN m[o] ELSE o \in c.opts
<1> DEFINE c1 == UpdateCursor(c, m)
           c2 == UpdateFocus(c1, m)
           c3 == UpdateAudio(c2, m)
           c4 == UpdateFile(c3, m)
           c5 == UpdateClipboard(c4, m)
           c6 == UpdateKeyboard(c5, m)
<1>1. SetBy(c, c1, "show_remote_cursor", m) /\ Shaped(c1)
  BY OptionSet DEF SetBy, Session
<1> HIDE DEF c1
<1>2. SetBy(c1, c2, "follow_remote_window", m) /\ Shaped(c2)
  BY <1>1, OptionSet DEF SetBy, Session
<1> HIDE DEF c2
<1>3. SetBy(c2, c3, "disable_audio", m) /\ Shaped(c3)
  BY <1>2, OptionSet DEF SetBy, Session
<1> HIDE DEF c3
<1>4. SetBy(c3, c4, "enable_file_transfer", m) /\ Shaped(c4)
  BY <1>3, OptionSet DEF SetBy, Session
<1> HIDE DEF c4
<1>5. SetBy(c4, c5, "disable_clipboard", m) /\ Shaped(c5)
  BY <1>4, OptionSet DEF SetBy, Session
<1> HIDE DEF c5
<1>6. SetBy(c5, c6, "disable_keyboard", m) /\ Shaped(c6)
  BY <1>5, OptionSet DEF SetBy, Session
<1> HIDE DEF c6
<1>7. Session(c, c6)
  BY <1>1, <1>2, <1>3, <1>4, <1>5, <1>6 DEF SetBy, Session
<1>o. ASSUME NEW d, NEW r, NEW p, SetBy(d, r, p, m)
      PROVE  \A o : o \in r.opts <=> IF o = p /\ o \in DOMAIN m THEN m[o] ELSE o \in d.opts
  BY <1>o DEF SetBy, Put
<1>8. \A o \in OptionNames : o \in c6.opts <=> IF o \in DOMAIN m THEN m[o] ELSE o \in c.opts
  <2> SUFFICES ASSUME NEW o \in OptionNames
               PROVE  o \in c6.opts <=> IF o \in DOMAIN m THEN m[o] ELSE o \in c.opts
    OBVIOUS
  <2>1. o \in c1.opts <=> IF o = "show_remote_cursor" /\ o \in DOMAIN m THEN m[o] ELSE o \in c.opts
    BY <1>1, <1>o
  <2>2. o \in c2.opts <=> IF o = "follow_remote_window" /\ o \in DOMAIN m THEN m[o] ELSE o \in c1.opts
    BY <1>2, <1>o
  <2>3. o \in c3.opts <=> IF o = "disable_audio" /\ o \in DOMAIN m THEN m[o] ELSE o \in c2.opts
    BY <1>3, <1>o
  <2>4. o \in c4.opts <=> IF o = "enable_file_transfer" /\ o \in DOMAIN m THEN m[o] ELSE o \in c3.opts
    BY <1>4, <1>o
  <2>5. o \in c5.opts <=> IF o = "disable_clipboard" /\ o \in DOMAIN m THEN m[o] ELSE o \in c4.opts
    BY <1>5, <1>o
  <2>6. o \in c6.opts <=> IF o = "disable_keyboard" /\ o \in DOMAIN m THEN m[o] ELSE o \in c5.opts
    BY <1>6, <1>o
  <2> QED BY <2>1, <2>2, <2>3, <2>4, <2>5, <2>6
<1>9. UpdateOptions(c, m) = c6
  BY DEF UpdateOptions, c1, c2, c3, c4, c5, c6
<1> QED BY <1>7, <1>8, <1>9

(* What comes after the options in send_logon_response leaves them alone.   *)
LEMMA LogonSets ==
    ASSUME NEW c \in Records, NEW ready \in BOOLEAN, NEW r, r = Logon(c, ready)
    PROVE  /\ r.authorized /\ r.kind = c.kind /\ r.closed = c.closed
           /\ \A o \in OptionNames :
                 o \in r.opts <=> IF o \in DOMAIN c.options_in_login
                                  THEN c.options_in_login[o] ELSE o \in c.opts
<1> DEFINE a == [c EXCEPT !.authorized = TRUE]
           d == UpdateOptions(a, c.options_in_login)
           e == [d EXCEPT !.options_in_login = NoOptions]
<1>1. /\ Shaped(a) /\ a.authorized /\ a.kind = c.kind /\ a.closed = c.closed
      /\ a.opts = c.opts /\ c.kind \in Kinds
  BY DEF Records, Shaped
<1> HIDE DEF a
<1>2. /\ Session(a, d)
      /\ \A o \in OptionNames :
            o \in d.opts <=> IF o \in DOMAIN c.options_in_login
                             THEN c.options_in_login[o] ELSE o \in a.opts
  BY <1>1, UpdateOptionsSets
<1> HIDE DEF d
<1>3. /\ Shaped(e) /\ e.authorized /\ e.kind = c.kind /\ e.closed = c.closed
      /\ e.opts = d.opts
  BY <1>1, <1>2 DEF Session, Shaped
<1>4. r = CASE e.kind = "file" -> e
            [] e.kind = "camera" -> WithPermission(e, "keyboard", FALSE)
            [] e.kind = "remote" -> IF ready THEN TrySubMonitorServices(e) ELSE e
  BY DEF Logon, a, d
<1> HIDE DEF e
<1>5. Kept(e, e)
  BY <1>3 DEF Kept, Session
<1>6. Kept(e, r)
  BY <1>1, <1>3, <1>4, <1>5, PermissionKeeps, OthersKeep
<1> QED BY <1>1, <1>2, <1>3, <1>6 DEF Kept, Session

(* A toggle changes the meaning of no option but those its message carries, *)
(* and its message says what it means.                                      *)
LEMMA ToggleCarries ==
    ASSUME NEW t \in Toggles, NEW cfg \in SUBSET Toggles, NEW new,
           new = Put(cfg, t, t \notin cfg), NEW o \in OptionNames
    PROVE  /\ o \notin Carried(t) => \A on \in BOOLEAN : Meant(o, on, cfg) => Meant(o, on, new)
           /\ o \in Carried(t) =>
                 Toggled(new, t)[o] \in BOOLEAN /\ Meant(o, Toggled(new, t)[o], new)
<1> USE DEF Toggles, Put, Carried, Wanted, Plain, Meant
<1>1. ASSUME o \notin Carried(t), NEW on \in BOOLEAN, Meant(o, on, cfg)
      PROVE  Meant(o, on, new)
  <2>1. CASE t = "view_only"
    BY <1>1, <2>1
  <2>2. CASE t = "enable_file_copy_paste"
    BY <1>1, <2>2
  <2>3. CASE t \in {"show_remote_cursor", "disable_clipboard"}
    BY <1>1, <2>3
  <2>4. CASE t \in {"follow_remote_window", "disable_audio"}
    BY <1>1, <2>4
  <2> QED BY <2>1, <2>2, <2>3, <2>4
<1>2. ASSUME o \in Carried(t)
      PROVE  Toggled(new, t)[o] \in BOOLEAN /\ Meant(o, Toggled(new, t)[o], new)
  <2>1. Toggled(new, t)[o] = (o \in IF t = "view_only" THEN Wanted(new) ELSE Plain(new))
    BY <1>2 DEF Toggled
  <2>2. CASE t = "view_only"
    <3>1. Toggled(new, t)[o] = (o \in Wanted(new))
      BY <2>1, <2>2
    <3>2. (o \in Wanted(new)) \in BOOLEAN
      OBVIOUS
    <3> HIDE DEF Wanted, Plain, Carried, Put
    <3>3. Meant(o, o \in Wanted(new), new)
      BY DEF Meant
    <3> HIDE DEF Meant
    <3> QED BY <3>1, <3>2, <3>3
  <2>3. CASE t # "view_only"
    <3>1. Toggled(new, t)[o] = (o \in Plain(new))
      BY <2>1, <2>3
    <3>2. o # "disable_keyboard"
      BY <1>2, <2>3
    <3>3. "view_only" \notin new => Wanted(new) = Plain(new)
      OBVIOUS
    <3> HIDE DEF Wanted, Plain
    <3>4. (o \in Plain(new)) \in BOOLEAN
      OBVIOUS
    <3> QED BY <3>1, <3>2, <3>3, <3>4 DEF Meant
  <2> QED BY <2>2, <2>3
<1> QED BY <1>1, <1>2

(* What the messages of s after its i-th say of option o.                   *)
Carries(m, o) == ~m.login /\ o \in DOMAIN m.option
Silent(s, i, o) == \A j \in DOMAIN s : i < j => ~Carries(s[j], o)
LastWord(s, i, o, cfg) ==
    \E j \in DOMAIN s :
        /\ i < j /\ Carries(s[j], o) /\ Meant(o, s[j].option[o], cfg)
        /\ \A k \in DOMAIN s : j < k => ~Carries(s[k], o)

LEMMA AppendSays ==
    ASSUME NEW s \in Seq(Messages), NEW m \in Messages, NEW i \in 0..Len(s),
           NEW o, NEW cfg, NEW new
    PROVE  /\ Carries(m, o) /\ Meant(o, m.option[o], new) => LastWord(Append(s, m), i, o, new)
           /\ ~Carries(m, o) /\ Silent(s, i, o) => Silent(Append(s, m), i, o)
           /\ /\ ~Carries(m, o) /\ LastWord(s, i, o, cfg)
              /\ \A on \in BOOLEAN : Meant(o, on, cfg) => Meant(o, on, new)
              => LastWord(Append(s, m), i, o, new)
<1> DEFINE t == Append(s, m)
<1>1. /\ Len(s) \in Nat /\ DOMAIN s = 1..Len(s) /\ DOMAIN t = 1..(Len(s) + 1)
      /\ t[Len(s) + 1] = m /\ \A j \in 1..Len(s) : t[j] = s[j]
  OBVIOUS
<1> HIDE DEF t
<1>2. Carries(m, o) /\ Meant(o, m.option[o], new) => LastWord(t, i, o, new)
  BY <1>1 DEF LastWord
<1>3. ~Carries(m, o) /\ Silent(s, i, o) => Silent(t, i, o)
  BY <1>1 DEF Silent
<1>4. ASSUME ~Carries(m, o), LastWord(s, i, o, cfg),
             \A on \in BOOLEAN : Meant(o, on, cfg) => Meant(o, on, new)
      PROVE  LastWord(t, i, o, new)
  <2>1. PICK j \in DOMAIN s :
            /\ i < j /\ Carries(s[j], o) /\ Meant(o, s[j].option[o], cfg)
            /\ \A k \in DOMAIN s : j < k => ~Carries(s[k], o)
    BY <1>4 DEF LastWord
  <2>2. s[j].option[o] \in BOOLEAN
    <3>0. s[j] \in Messages
      BY <2>1
    <3>1. s[j].option \in OptionMessages
      BY <3>0 DEF Messages
    <3>2. o \in DOMAIN s[j].option
      BY <2>1 DEF Carries
    <3> QED BY <3>1, <3>2, OptionSays
  <2>3. Meant(o, s[j].option[o], new)
    BY <1>4, <2>1, <2>2
  <2>4. j \in DOMAIN t /\ t[j] = s[j] /\ \A k \in DOMAIN t : j < k => ~Carries(t[k], o)
    BY <1>1, <1>4, <2>1
  <2> QED BY <2>1, <2>3, <2>4 DEF LastWord
<1> QED BY <1>2, <1>3, <1>4 DEF t

LEMMA TailSays ==
    ASSUME NEW s \in Seq(Messages), s # <<>>, NEW o, NEW cfg
    PROVE  /\ \A i \in 1..Len(s) :
                 /\ Silent(s, i, o) => Silent(Tail(s), i - 1, o)
                 /\ LastWord(s, i, o, cfg) => LastWord(Tail(s), i - 1, o, cfg)
           /\ Silent(s, 0, o) => ~Carries(Head(s), o) /\ Silent(Tail(s), 0, o)
           /\ LastWord(s, 0, o, cfg) =>
                 \/ LastWord(Tail(s), 0, o, cfg)
                 \/ /\ Carries(Head(s), o) /\ Meant(o, Head(s).option[o], cfg)
                    /\ Silent(Tail(s), 0, o)
<1> DEFINE t == Tail(s)
<1>1. /\ Len(s) \in Nat \ {0} /\ DOMAIN s = 1..Len(s) /\ Head(s) = s[1]
      /\ DOMAIN t = 1..(Len(s) - 1) /\ \A j \in 1..(Len(s) - 1) : t[j] = s[j + 1]
  OBVIOUS
<1> HIDE DEF t
<1>2. ASSUME NEW i \in 1..Len(s), Silent(s, i, o)
      PROVE  Silent(t, i - 1, o)
  <2> SUFFICES ASSUME NEW j \in DOMAIN t, i - 1 < j
               PROVE  ~Carries(t[j], o)
    BY DEF Silent
  <2>1. j + 1 \in DOMAIN s /\ i < j + 1 /\ t[j] = s[j + 1]
    BY <1>1
  <2> QED BY <1>2, <2>1 DEF Silent
<1>3. ASSUME NEW i \in 0..Len(s), NEW j \in DOMAIN s, j > 1,
             i < j, Carries(s[j], o), Meant(o, s[j].option[o], cfg),
             \A k \in DOMAIN s : j < k => ~Carries(s[k], o)
      PROVE  LastWord(t, IF i = 0 THEN 0 ELSE i - 1, o, cfg)
  <2>1. j - 1 \in DOMAIN t /\ t[j - 1] = s[j]
    BY <1>1, <1>3
  <2>2. \A k \in DOMAIN t : j - 1 < k => ~Carries(t[k], o)
    BY <1>1, <1>3
  <2>3. (IF i = 0 THEN 0 ELSE i - 1) < j - 1
    BY <1>1, <1>3
  <2> QED BY <1>3, <2>1, <2>2, <2>3 DEF LastWord
<1>4. ASSUME Silent(s, 0, o)
      PROVE  ~Carries(Head(s), o) /\ Silent(t, 0, o)
  <2>1. \A j \in DOMAIN s : ~Carries(s[j], o)
    BY <1>1, <1>4 DEF Silent
  <2>2. 1 \in DOMAIN s /\ \A j \in DOMAIN t : j + 1 \in DOMAIN s
    BY <1>1
  <2> QED BY <1>1, <2>1, <2>2 DEF Silent
<1>5. ASSUME NEW i \in 1..Len(s), LastWord(s, i, o, cfg)
      PROVE  LastWord(t, i - 1, o, cfg)
  BY <1>1, <1>3, <1>5 DEF LastWord
<1>6. ASSUME LastWord(s, 0, o, cfg)
      PROVE  \/ LastWord(t, 0, o, cfg)
             \/ Carries(Head(s), o) /\ Meant(o, Head(s).option[o], cfg) /\ Silent(t, 0, o)
  <2>1. PICK j \in DOMAIN s :
            /\ 0 < j /\ Carries(s[j], o) /\ Meant(o, s[j].option[o], cfg)
            /\ \A k \in DOMAIN s : j < k => ~Carries(s[k], o)
    BY <1>6 DEF LastWord
  <2>2. CASE j = 1
    BY <1>1, <2>1, <2>2 DEF Silent
  <2>3. CASE j # 1
    BY <1>1, <1>3, <2>1, <2>3
  <2> QED BY <2>2, <2>3
<1>7. \A i \in 1..Len(s) : Silent(s, i, o) => Silent(t, i - 1, o)
  BY <1>1, <1>2
<1> QED BY <1>4, <1>5, <1>6, <1>7 DEF t

(* Option o as the host knows it, from the login before it is authorized.   *)
On(m, o) == o \in DOMAIN m /\ m[o]
Known(c, o) == IF c.authorized THEN o \in c.opts ELSE On(c.options_in_login, o)

(* A login under way and what follows it say of every option what the peer  *)
(* means.                                                                   *)
LoginsInv ==
    \A i \in DOMAIN sent : sent[i].login =>
        \A o \in OptionNames :
            \/ LastWord(sent, i, o, config)
            \/ Silent(sent, i, o) /\ Meant(o, On(sent[i].option, o), config)

(* So does what the host knows with all that is under way, but for what it  *)
(* has ignored.                                                             *)
HostInv ==
    \A o \in OptionNames :
        \/ LastWord(sent, 0, o, config)
        \/ /\ Silent(sent, 0, o)
           /\ conn.authorized \/ conn.requested =>
                 o \in missed \/ Meant(o, Known(conn, o), config)

ArriveInv ==
    /\ conn.closed => sent = <<>>
    /\ ~conn.closed /\ conn.kind # "file" =>
          /\ LoginsInv /\ HostInv
          /\ ~conn.authorized => conn.opts = {}

LEMMA NextArrive == IInv /\ ArriveInv /\ [Next]_vars => ArriveInv'
<1> SUFFICES ASSUME IInv, ArriveInv, [Next]_vars
             PROVE  ArriveInv'
  OBVIOUS
<1> USE TogglesAssumption
<1>a. /\ conn \in Records /\ config \in SUBSET UserToggles /\ config \in SUBSET Toggles
      /\ sent \in Seq(Messages) /\ missed \in SUBSET OptionNames
  BY DEF IInv, Good
<1>b. Shaped(conn)
  BY <1>a DEF Records, Shaped
<1>c. ASSUME Kept(conn, conn'), UNCHANGED <<config, sent, missed>>
      PROVE  ArriveInv'
  BY <1>c DEF ArriveInv, LoginsInv, HostInv, Known, Kept, Session
<1>t. ASSUME sent # <<>>, sent' = Tail(sent), config' = config,
             ~conn.closed, conn.kind # "file"
      PROVE  LoginsInv'
  <2> SUFFICES ASSUME NEW i \in DOMAIN sent', sent'[i].login, NEW o \in OptionNames
               PROVE  \/ LastWord(sent', i, o, config)
                      \/ Silent(sent', i, o) /\ Meant(o, On(sent'[i].option, o), config)
    BY <1>t DEF LoginsInv
  <2>1. i + 1 \in 1..Len(sent) /\ sent'[i] = sent[i + 1] /\ (i + 1) - 1 = i
        /\ DOMAIN sent = 1..Len(sent)
    BY <1>a, <1>t
  <2>2. \/ LastWord(sent, i + 1, o, config)
        \/ Silent(sent, i + 1, o) /\ Meant(o, On(sent[i + 1].option, o), config)
    BY <1>t, <2>1 DEF ArriveInv, LoginsInv
  <2> QED BY <1>a, <1>t, <2>1, <2>2, TailSays
<1>1. CASE LoginRequest
  <2> DEFINE m == [login |-> TRUE, option |-> LoginOptions(config, conn.kind)]
  <2>1. /\ sent' = Append(sent, m) /\ UNCHANGED <<conn, config, missed>> /\ ~conn.closed
    BY <1>1 DEF LoginRequest
  <2>2. m \in Messages /\ m.login /\ m.option = LoginOptions(config, conn.kind)
    BY <1>a, MessagesType DEF Messages
  <2>3. \A o : ~Carries(m, o)
    BY DEF Carries
  <2>4. conn.kind # "file" =>
            \A o \in OptionNames : Meant(o, On(m.option, o), config)
    BY <2>2 DEF LoginOptions, On, Meant
  <2> HIDE DEF m
  <2>5. /\ Len(sent) \in Nat /\ DOMAIN sent = 1..Len(sent)
        /\ DOMAIN sent' = 1..(Len(sent) + 1) /\ sent'[Len(sent) + 1] = m
        /\ \A i \in 1..Len(sent) : sent'[i] = sent[i]
    BY <1>a, <2>1, <2>2
  <2>6. ASSUME conn.kind # "file" PROVE LoginsInv'
    <3> SUFFICES ASSUME NEW i \in DOMAIN sent', sent'[i].login, NEW o \in OptionNames
                 PROVE  \/ LastWord(sent', i, o, config)
                        \/ Silent(sent', i, o) /\ Meant(o, On(sent'[i].option, o), config)
      BY <2>1 DEF LoginsInv
    <3>1. CASE i = Len(sent) + 1
      <4>1. Silent(sent', i, o)
        BY <2>5, <3>1 DEF Silent
      <4> QED BY <2>4, <2>5, <2>6, <3>1, <4>1
    <3>2. CASE i # Len(sent) + 1
      <4>1. i \in DOMAIN sent /\ sent'[i] = sent[i] /\ i \in 0..Len(sent)
        BY <2>5, <3>2
      <4>2. \/ LastWord(sent, i, o, config)
            \/ Silent(sent, i, o) /\ Meant(o, On(sent[i].option, o), config)
        BY <2>1, <2>6, <4>1 DEF ArriveInv, LoginsInv
      <4> QED BY <1>a, <2>1, <2>2, <2>3, <4>1, <4>2, AppendSays
    <3> QED BY <3>1, <3>2
  <2>7. ASSUME conn.kind # "file" PROVE HostInv'
    <3> SUFFICES ASSUME NEW o \in OptionNames
                 PROVE  \/ LastWord(sent', 0, o, config)
                        \/ /\ Silent(sent', 0, o)
                           /\ conn.authorized \/ conn.requested =>
                                 o \in missed \/ Meant(o, Known(conn, o), config)
      BY <2>1 DEF HostInv, Known
    <3>1. 0 \in 0..Len(sent)
      BY <2>5
    <3>2. \/ LastWord(sent, 0, o, config)
          \/ /\ Silent(sent, 0, o)
             /\ conn.authorized \/ conn.requested =>
                   o \in missed \/ Meant(o, Known(conn, o), config)
      BY <2>1, <2>7 DEF ArriveInv, HostInv
    <3> QED BY <1>a, <2>1, <2>2, <2>3, <3>1, <3>2, AppendSays
  <2> QED BY <2>1, <2>6, <2>7 DEF ArriveInv
<1>2. CASE ReceiveLogin
  <2>1. /\ sent # <<>> /\ Head(sent).login /\ sent' = Tail(sent) /\ config' = config
        /\ ~conn.closed /\ conn'.kind = conn.kind /\ conn'.opts = conn.opts
        /\ conn'.authorized = conn.authorized /\ conn'.closed = conn.closed
    BY <1>2, <1>a DEF ReceiveLogin, Records
  <2>2. CASE conn.authorized
    <3>1. conn' = conn /\ missed' = missed
      BY <1>2, <2>2 DEF ReceiveLogin
    <3>2. ASSUME conn.kind # "file" PROVE HostInv'
      <4> SUFFICES ASSUME NEW o \in OptionNames
                   PROVE  \/ LastWord(sent', 0, o, config)
                          \/ /\ Silent(sent', 0, o)
                             /\ conn.authorized \/ conn.requested =>
                                   o \in missed \/ Meant(o, Known(conn, o), config)
        BY <2>1, <3>1 DEF HostInv, Known
      <4>1. ~Carries(Head(sent), o)
        BY <2>1 DEF Carries
      <4>2. \/ LastWord(sent, 0, o, config)
            \/ /\ Silent(sent, 0, o)
               /\ conn.authorized \/ conn.requested =>
                     o \in missed \/ Meant(o, Known(conn, o), config)
        BY <2>1, <3>2 DEF ArriveInv, HostInv
      <4> QED BY <1>a, <2>1, <4>1, <4>2, TailSays
    <3> QED BY <1>t, <2>1, <3>1, <3>2 DEF ArriveInv
  <2>3. CASE ~conn.authorized
    <3>1. /\ missed' = {} /\ ~conn'.authorized
          /\ conn'.options_in_login = Head(sent).option
      BY <1>2, <1>a, <2>3 DEF ReceiveLogin, Records
    <3>2. ASSUME conn.kind # "file" PROVE HostInv'
      <4> SUFFICES ASSUME NEW o \in OptionNames
                   PROVE  \/ LastWord(sent', 0, o, config)
                          \/ Silent(sent', 0, o) /\ Meant(o, Known(conn', o), config)
        BY <2>1 DEF HostInv, Known
      <4>1. 1 \in DOMAIN sent /\ 1 \in 1..Len(sent) /\ Head(sent) = sent[1] /\ 1 - 1 = 0
        BY <1>a, <2>1
      <4>2. \/ LastWord(sent, 1, o, config)
            \/ Silent(sent, 1, o) /\ Meant(o, On(sent[1].option, o), config)
        BY <2>1, <3>2, <4>1 DEF ArriveInv, LoginsInv
      <4>3. Known(conn', o) = On(sent[1].option, o)
        BY <3>1, <4>1 DEF Known
      <4> QED BY <1>a, <2>1, <4>1, <4>2, <4>3, TailSays
    <3> QED BY <1>t, <2>1, <2>3, <3>1, <3>2 DEF ArriveInv
  <2> QED BY <2>2, <2>3
<1>3. ASSUME NEW ready \in BOOLEAN, Authorize(ready)
      PROVE  ArriveInv'
  <2>1. /\ conn' = Logon(conn, ready) /\ UNCHANGED <<config, sent, missed>>
        /\ ~conn.authorized /\ ~conn.closed /\ conn.requested
    BY <1>3 DEF Authorize
  <2>2. /\ conn'.authorized /\ conn'.kind = conn.kind /\ conn'.closed = conn.closed
        /\ \A o \in OptionNames :
              o \in conn'.opts <=> IF o \in DOMAIN conn.options_in_login
                                   THEN conn.options_in_login[o] ELSE o \in conn.opts
    BY <1>a, <2>1, LogonSets
  <2>3. ASSUME conn.kind # "file", NEW o \in OptionNames
        PROVE  Known(conn', o) <=> Known(conn, o)
    BY <2>1, <2>2, <2>3 DEF ArriveInv, Known, On
  <2>4. ASSUME conn.kind # "file" PROVE HostInv'
    <3> SUFFICES ASSUME NEW o \in OptionNames
                 PROVE  \/ LastWord(sent, 0, o, config)
                        \/ Silent(sent, 0, o) /\ (o \in missed \/ Meant(o, Known(conn', o), config))
      BY <2>1 DEF HostInv, Known
    <3>1. Meant(o, Known(conn, o), config) => Meant(o, Known(conn', o), config)
      BY <2>3, <2>4 DEF Meant
    <3> QED BY <2>1, <2>4, <3>1 DEF ArriveInv, HostInv
  <2> QED BY <2>1, <2>2, <2>4 DEF ArriveInv, LoginsInv
<1>4. CASE SelectedSid
  BY <1>4, <1>b, <1>c, OthersKeep DEF SelectedSid
<1>5. ASSUME NEW p \in PermissionNames, NEW enabled \in BOOLEAN,
             SwitchPermission(p, enabled)
      PROVE  ArriveInv'
  BY <1>5, <1>b, <1>c, SwitchedKeeps DEF SwitchPermission
<1>6. ASSUME NEW t \in UserToggles, ToggleOption(t)
      PROVE  ArriveInv'
  <2> SUFFICES ASSUME ~conn.closed PROVE ArriveInv'
    BY <1>6 DEF ToggleOption, ArriveInv
  <2> DEFINE m == [login |-> FALSE, option |-> Toggled(config', t)]
  <2>1. /\ UNCHANGED <<conn, missed>> /\ conn.kind # "file"
        /\ config' = Put(config, t, t \notin config)
        /\ sent' = Append(sent, m)
    BY <1>6 DEF ToggleOption
  <2>2. m \in Messages /\ ~m.login /\ m.option = Toggled(config', t)
    <3>1. config' \in SUBSET Toggles
      BY <1>a, <2>1 DEF Put
    <3> QED BY <3>1, MessagesType DEF Messages
  <2>3. \A o : Carries(m, o) <=> o \in Carried(t)
    BY DEF Carries, Toggled
  <2> HIDE DEF m
  <2>4. ASSUME NEW o \in OptionNames
        PROVE  /\ Carries(m, o) => Meant(o, m.option[o], config')
               /\ ~Carries(m, o) =>
                     \A on \in BOOLEAN : Meant(o, on, config) => Meant(o, on, config')
    BY <1>a, <2>1, <2>2, <2>3, ToggleCarries
  <2>5. /\ Len(sent) \in Nat /\ DOMAIN sent = 1..Len(sent)
        /\ DOMAIN sent' = 1..(Len(sent) + 1) /\ sent'[Len(sent) + 1] = m
        /\ \A i \in 1..Len(sent) : sent'[i] = sent[i]
    BY <1>a, <2>1, <2>2
  <2>6. ASSUME NEW o \in OptionNames, NEW i \in 0..Len(sent), NEW ok,
               LastWord(sent, i, o, config) \/ (Silent(sent, i, o) /\ ok)
        PROVE  LastWord(sent', i, o, config')
                   \/ (Silent(sent', i, o) /\ ~Carries(m, o) /\ ok)
    BY <1>a, <2>1, <2>2, <2>4, <2>6, AppendSays
  <2>7. LoginsInv'
    <3> SUFFICES ASSUME NEW i \in DOMAIN sent', sent'[i].login, NEW o \in OptionNames
                 PROVE  \/ LastWord(sent', i, o, config')
                        \/ Silent(sent', i, o) /\ Meant(o, On(sent'[i].option, o), config')
      BY DEF LoginsInv
    <3>1. i \in DOMAIN sent /\ sent'[i] = sent[i] /\ i \in 0..Len(sent)
      BY <2>2, <2>5
    <3>2. \/ LastWord(sent, i, o, config)
          \/ Silent(sent, i, o) /\ Meant(o, On(sent[i].option, o), config)
      BY <2>1, <3>1 DEF ArriveInv, LoginsInv
    <3>3. \/ LastWord(sent', i, o, config')
          \/ /\ Silent(sent', i, o) /\ ~Carries(m, o)
             /\ Meant(o, On(sent[i].option, o), config)
      BY <2>6, <3>1, <3>2
    <3>4. On(sent[i].option, o) \in BOOLEAN
      BY <1>a, <3>1 DEF On, Messages, OptionMessages
    <3> QED BY <2>4, <3>1, <3>3, <3>4
  <2>8. HostInv'
    <3> SUFFICES ASSUME NEW o \in OptionNames
                 PROVE  \/ LastWord(sent', 0, o, config')
                        \/ /\ Silent(sent', 0, o)
                           /\ conn.authorized \/ conn.requested =>
                                 o \in missed \/ Meant(o, Known(conn, o), config')
      BY <2>1 DEF HostInv, Known
    <3> DEFINE ok == conn.authorized \/ conn.requested =>
                         o \in missed \/ Meant(o, Known(conn, o), config)
    <3>1. LastWord(sent, 0, o, config) \/ (Silent(sent, 0, o) /\ ok)
      BY <2>1 DEF ArriveInv, HostInv
    <3>2. 0 \in 0..Len(sent)
      BY <2>5
    <3>3. LastWord(sent', 0, o, config') \/ (Silent(sent', 0, o) /\ ~Carries(m, o) /\ ok)
      <4> HIDE DEF ok
      <4> QED BY <2>6, <3>1, <3>2
    <3>4. Known(conn, o) \in BOOLEAN
      BY <1>a DEF Known, On, Records, OptionMessages
    <3> QED BY <2>4, <3>3, <3>4
  <2> QED BY <2>1, <2>7, <2>8 DEF ArriveInv
<1>7. CASE ReceiveOption
  <2> DEFINE m == Head(sent).option
  <2>1. /\ ~conn.closed /\ config' = config /\ sent # <<>> /\ sent' = Tail(sent)
        /\ \A o : Carries(Head(sent), o) <=> o \in DOMAIN m
    BY <1>7 DEF ReceiveOption, Carries
  <2>2. CASE conn.authorized
    <3>1. conn' = UpdateOptions(conn, m) /\ missed' = missed \ DOMAIN m
      BY <1>7, <2>2 DEF ReceiveOption
    <3> HIDE DEF m
    <3>2. /\ Session(conn, conn')
          /\ \A o \in OptionNames :
                o \in conn'.opts <=> IF o \in DOMAIN m THEN m[o] ELSE o \in conn.opts
      BY <1>b, <3>1, UpdateOptionsSets
    <3>3. ASSUME conn.kind # "file" PROVE HostInv'
      <4> SUFFICES ASSUME NEW o \in OptionNames
                   PROVE  \/ LastWord(sent', 0, o, config)
                          \/ /\ Silent(sent', 0, o)
                             /\ o \in missed' \/ Meant(o, Known(conn', o), config)
        BY <2>1 DEF HostInv, Known
      <4>1. \/ LastWord(sent, 0, o, config)
            \/ Silent(sent, 0, o) /\ (o \in missed \/ Meant(o, Known(conn, o), config))
        BY <2>1, <2>2, <3>3 DEF ArriveInv, HostInv
      <4>2. CASE o \in DOMAIN m
        <5>1. Known(conn', o) <=> m[o]
          BY <2>2, <3>2, <4>2 DEF Known, Session
        <5>2. Meant(o, m[o], config) => Meant(o, Known(conn', o), config)
          BY <5>1 DEF Meant
        <5>3. \/ LastWord(sent', 0, o, config)
              \/ Meant(o, Head(sent).option[o], config) /\ Silent(sent', 0, o)
          BY <1>a, <2>1, <4>1, <4>2, TailSays
        <5> QED BY <5>2, <5>3 DEF m
      <4>3. CASE o \notin DOMAIN m
        <5>1. Known(conn', o) <=> Known(conn, o)
          BY <2>2, <3>2, <4>3 DEF Known, Session
        <5>2. Meant(o, Known(conn, o), config) => Meant(o, Known(conn', o), config)
          BY <5>1 DEF Meant
        <5>3. o \in missed => o \in missed'
          BY <3>1, <4>3
        <5> QED BY <1>a, <2>1, <4>1, <4>3, <5>2, <5>3, TailSays
      <4> QED BY <4>2, <4>3
    <3> QED BY <1>t, <2>1, <2>2, <3>2, <3>3 DEF ArriveInv, Session
  <2>3. CASE ~conn.authorized
    <3>1. /\ conn' = conn
          /\ missed' = IF conn.requested THEN missed \cup DOMAIN m ELSE {}
      BY <1>7, <2>3 DEF ReceiveOption
    <3> HIDE DEF m
    <3>2. ASSUME conn.kind # "file" PROVE HostInv'
      <4> SUFFICES ASSUME NEW o \in OptionNames
                   PROVE  \/ LastWord(sent', 0, o, config)
                          \/ /\ Silent(sent', 0, o)
                             /\ conn.requested =>
                                   o \in missed' \/ Meant(o, Known(conn, o), config)
        BY <2>1, <2>3, <3>1 DEF HostInv, Known
      <4>1. \/ LastWord(sent, 0, o, config)
            \/ /\ Silent(sent, 0, o)
               /\ conn.requested => o \in missed \/ Meant(o, Known(conn, o), config)
        BY <2>1, <3>2 DEF ArriveInv, HostInv
      <4>2. conn.requested => (o \in DOMAIN m \/ o \in missed => o \in missed')
        BY <3>1
      <4> QED BY <1>a, <2>1, <4>1, <4>2, TailSays
    <3> QED BY <1>t, <2>1, <2>3, <3>1, <3>2 DEF ArriveInv
  <2> QED BY <2>2, <2>3
<1>8. CASE VoiceCallRequest
  <2>1. Kept(conn, conn')
    BY <1>8, <1>b DEF VoiceCallRequest, Kept, Session, Shaped
  <2> QED BY <1>8, <1>c, <2>1 DEF VoiceCallRequest
<1>9. ASSUME NEW accepted \in BOOLEAN, VoiceCallResponse(accepted)
      PROVE  ArriveInv'
  BY <1>9, <1>b, <1>c, OthersKeep DEF VoiceCallResponse
<1>10. CASE CloseVoiceCall
  BY <1>10, <1>b, <1>c, OthersKeep DEF CloseVoiceCall
<1>11. CASE Close
  BY <1>11 DEF Close, ArriveInv, NewConn
<1>12. ASSUME NEW perms \in SUBSET PermissionNames, Reconnect(perms)
       PROVE  ArriveInv'
  <2>1. conn' = NewConn(conn.kind, perms) /\ sent' = sent
    BY <1>12 DEF Reconnect
  <2>2. ~conn'.authorized /\ ~conn'.requested /\ conn'.opts = {}
    BY <2>1 DEF NewConn
  <2>3. conn.closed /\ sent = <<>>
    BY <1>12 DEF Reconnect, ArriveInv
  <2>4. DOMAIN sent' = {}
    BY <2>1, <2>3
  <2>5. LoginsInv' /\ HostInv'
    BY <2>2, <2>4 DEF LoginsInv, HostInv, Silent
  <2> QED BY <2>1, <2>2, <2>3, <2>5 DEF ArriveInv
<1>13. CASE UNCHANGED vars
  BY <1>13 DEF vars, ArriveInv, LoginsInv, HostInv, Known
<1> QED BY <1>1, <1>2, <1>3, <1>4, <1>5, <1>6, <1>7, <1>8, <1>9, <1>10, <1>11, <1>12, <1>13
        DEF Next

(* The host's options are those the peer's toggles mean as soon as nothing   *)
(* is under way, for any number of messages on their way at once, but for   *)
(* those it ignored while the login was pending.                            *)
THEOREM OptionsAlwaysArrive == Spec => []OptionsArrive
<1>1. Init => ArriveInv
  <2> SUFFICES ASSUME Init PROVE ArriveInv
    OBVIOUS
  <2>1. /\ sent = <<>> /\ ~conn.authorized /\ ~conn.requested /\ conn.opts = {}
    BY DEF Init, NewConn
  <2>2. LoginsInv /\ HostInv
    BY <2>1 DEF LoginsInv, HostInv, Silent
  <2> QED BY <2>1, <2>2 DEF ArriveInv
<1>2. IInv /\ ArriveInv => OptionsArrive
  <2> SUFFICES ASSUME IInv, ArriveInv, conn.authorized, conn.kind # "file", ~conn.closed,
                      sent = <<>>, NEW o \in OptionNames, o \notin missed
               PROVE  Meant(o, o \in conn.opts, config)
    BY DEF OptionsArrive
  <2>1. ~LastWord(sent, 0, o, config)
    BY DEF LastWord
  <2> QED BY <2>1 DEF ArriveInv, HostInv, Known
<1> QED BY <1>1, <1>2, NextArrive, Invariance, PTL DEF Spec
=============================================================================
