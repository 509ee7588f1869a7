------------------------------- MODULE Keyboard -------------------------------
(***************************************************************************)
(* What a key sends to the terminal (velacritty/src/input/keyboard.rs):    *)
(* who takes a key press, the default bindings, and the encoding of keys   *)
(* of xterm and of the kitty keyboard protocol.  A sequence is kept as the *)
(* fields it is written from.                                              *)
(***************************************************************************)
EXTENDS Bindings

CONSTANT ModifierSets   \* the sets of modifiers that are held

VARIABLE kbd

Modifiers == {"SHIFT", "ALT", "CONTROL", "SUPER"}

(* Keys with a character: what they type without and with shift. *)
Plain == <<"a", "f", "i", "l", "v", "y", "0", "1", "=", "/", ";">>
Capital == <<"A", "F", "I", "L", "V", "Y", ")", "!", "+", "?", ":">>
PlainCode == <<97, 102, 105, 108, 118, 121, 48, 49, 61, 47, 59>>
CapitalCode == <<65, 70, 73, 76, 86, 89, 41, 33, 43, 63, 58>>

FNames == <<"F1", "F2", "F3", "F4", "F5", "F6", "F7", "F8", "F9", "F10", "F11", "F12", "F13", "F14",
            "F15", "F16", "F17", "F18", "F19", "F20", "F21", "F22", "F23", "F24", "F25", "F26", "F27",
            "F28", "F29", "F30", "F31", "F32", "F33", "F34", "F35">>
NumpadNames == <<"0", "1", "2", "3", "4", "5", "6", "7", "8", "9", ".", "/", "*", "-", "+">>
Media == <<"MediaPlay", "MediaPause", "MediaPlayPause">>
Tracks == <<"MediaStop", "MediaFastForward", "MediaRewind", "MediaTrackNext", "MediaTrackPrevious",
            "MediaRecord", "AudioVolumeDown", "AudioVolumeUp", "AudioVolumeMute">>
Moves == <<"ArrowLeft", "ArrowRight", "ArrowUp", "ArrowDown", "PageUp", "PageDown", "Home", "End",
           "Insert", "Delete">>
ModifierKeys == <<"Shift", "Control", "Alt", "Super", "Hyper", "Meta">>
Locks == [CapsLock |-> 57358, ScrollLock |-> 57359, NumLock |-> 57360, PrintScreen |-> 57361,
          Pause |-> 57362, ContextMenu |-> 57363]
Controls == [Tab |-> 9, Enter |-> 13, Escape |-> 27, Space |-> 32, Backspace |-> 127]

RangeOf(s) == {s[i] : i \in DOMAIN s}
IndexOf(s, x) == CHOOSE i \in DOMAIN s : s[i] = x

(* A key is its name, its place, and whether it is one of the named keys. *)
Key(name, loc, named) == [name |-> name, loc |-> loc, named |-> named]
CharKeys == {Key(c, "Standard", FALSE) : c \in RangeOf(Plain)}
NumpadKeys ==
    {Key(c, "Numpad", FALSE) : c \in RangeOf(NumpadNames) \cup {"="}}
    \cup {Key(c, "Numpad", TRUE) : c \in RangeOf(Moves) \cup {"Enter"}}
NamedKeys ==
    {Key(c, "Standard", TRUE) :
        c \in RangeOf(Moves \o Media \o Tracks \o FNames) \cup DOMAIN Locks \cup DOMAIN Controls}
    \cup {Key(c, loc, TRUE) : c \in RangeOf(ModifierKeys), loc \in {"Left", "Right"}}

(* A press, a repetition or a release of a key. *)
KeyEvent(key, mods, state) == [key |-> key, mods |-> mods, state |-> state]

Name(e) == e.key.name
Is(e, names) == Name(e) \in names

(* The platform: the character of a key, and the text typed with it. *)
CharCode(e) ==
    IF e.key.loc = "Numpad" THEN 256 + IndexOf(NumpadNames \o <<"=">>, Name(e))
    ELSE (IF "SHIFT" \in e.mods THEN CapitalCode ELSE PlainCode)[IndexOf(Plain, Name(e))]

TextOf(e) ==
    IF e.key.named
    THEN IF Is(e, {"Backspace"}) THEN <<8>>
         ELSE IF Is(e, DOMAIN Controls) THEN <<Controls[Name(e)]>> ELSE <<>>
    ELSE IF "CONTROL" \in e.mods /\ CharCode(e) \in 97..122 THEN <<CharCode(e) - 96>>
    ELSE <<CharCode(e)>>

-----------------------------------------------------------------------------
(* Escape sequences *)

No == {}
Base(payload, terminator) == {[payload |-> payload, terminator |-> terminator]}

try_build_numpad(e, kitty) ==
    IF ~kitty \/ e.key.loc # "Numpad" THEN No
    ELSE IF ~e.key.named
    THEN Base(<<IF Is(e, {"="}) THEN 57415 ELSE 57398 + IndexOf(NumpadNames, Name(e))>>, "u")
    ELSE Base(<<IF Is(e, {"Enter"}) THEN 57414 ELSE 57416 + IndexOf(Moves, Name(e))>>, "u")

(* "F3 in kitty protocol diverges from alacritty's terminfo." *)
try_build_named_kitty(e, kitty) ==
    CASE ~kitty \/ ~e.key.named -> No
      [] OTHER ->
           IF Is(e, RangeOf(FNames))
           THEN LET n == IndexOf(FNames, Name(e))
                IN  IF n = 3 THEN Base(<<13>>, "~") ELSE IF n >= 13 THEN Base(<<57363 + n>>, "u") ELSE No
           ELSE IF Is(e, {"ScrollLock", "PrintScreen", "Pause", "ContextMenu"}) THEN Base(<<Locks[Name(e)]>>, "u")
           ELSE IF Is(e, RangeOf(Media)) THEN Base(<<57427 + IndexOf(Media, Name(e))>>, "u")
           ELSE IF Is(e, RangeOf(Tracks)) THEN Base(<<57431 + IndexOf(Tracks, Name(e))>>, "u")
           ELSE No

FunctionCodes == <<15, 17, 18, 19, 20, 21, 23, 24, 25, 26, 28, 29, 31, 32, 33, 34>>   \* F5 to F20
Lettered == <<"ArrowUp", "ArrowDown", "ArrowRight", "ArrowLeft", "End", "Home">>

try_build_named_normal(e, oneBased) ==
    LET one == IF oneBased THEN <<1>> ELSE <<>>
        n   == IndexOf(FNames, Name(e))
    IN  IF ~e.key.named THEN No
        ELSE IF Is(e, RangeOf(FNames))
        THEN IF n <= 4 THEN Base(one, <<"P", "Q", "R", "S">>[n])
             ELSE IF n <= 20 THEN Base(<<FunctionCodes[n - 4]>>, "~") ELSE No
        ELSE IF Is(e, RangeOf(Lettered))
        THEN Base(one, <<"A", "B", "C", "D", "F", "H">>[IndexOf(Lettered, Name(e))])
        ELSE IF Is(e, {"Insert", "Delete", "PageUp", "PageDown"})
        THEN Base(<<CASE Name(e) = "Insert" -> 2 [] Name(e) = "Delete" -> 3
                      [] Name(e) = "PageUp" -> 5 [] Name(e) = "PageDown" -> 6>>, "~")
        ELSE No

try_build_control_char_or_mod(e, kitty, all) ==
    IF ~kitty \/ ~e.key.named \/ ~(all \/ Is(e, DOMAIN Controls)) THEN No
    ELSE IF Is(e, RangeOf(ModifierKeys))
    THEN Base(<<(IF e.key.loc = "Left" THEN 57440 ELSE 57446) + IndexOf(ModifierKeys, Name(e))>>, "u")
    ELSE IF Is(e, {"CapsLock", "NumLock"}) THEN Base(<<Locks[Name(e)]>>, "u")
    ELSE IF Is(e, DOMAIN Controls) THEN Base(<<Controls[Name(e)]>>, "u")
    ELSE No

(* The code of the key without shift, and the one it has with shift if that is reported. *)
try_build_textual(e, kitty, alternate) ==
    IF e.key.named \/ ~kitty THEN No
    ELSE LET code == CharCode([e EXCEPT !.mods = @ \ {"SHIFT"}])
         IN  Base(IF alternate /\ CharCode(e) # code THEN <<code, CharCode(e)>> ELSE <<code>>, "u")

is_control_character(code) == code < 32 \/ code \in 127..159

(* A modifier key counts as held by its own press and not by its release. *)
EffectiveModifiers(e, mods) ==
    IF ~Is(e, {"Shift", "Control", "Alt", "Super"}) THEN mods
    ELSE LET own == CASE Name(e) = "Shift" -> "SHIFT" [] Name(e) = "Control" -> "CONTROL"
                      [] Name(e) = "Alt" -> "ALT" [] Name(e) = "Super" -> "SUPER"
         IN  IF e.state = "released" THEN mods \ {own} ELSE mods \cup {own}

(* Faulty variant: repeated keys are not told from pressed ones. *)
EventType_NoRepeat(e, mode) == IF e.state = "released" THEN {"3"} ELSE {}

EventType(e, mode) ==
    IF "REPORT_EVENT_TYPES" \notin mode \/ e.state = "pressed" THEN {}
    ELSE IF e.state = "repeated" THEN {"2"} ELSE {"3"}

build_sequence(e, mods, mode) ==
    LET all   == "REPORT_ALL_KEYS_AS_ESC" \in mode
        kitty == all \/ "DISAMBIGUATE_ESC_CODES" \in mode \/ "REPORT_EVENT_TYPES" \in mode
        type  == EventType(e, mode)
        text  == IF "REPORT_ASSOCIATED_TEXT" \in mode /\ e.state # "released"
                 THEN {t \in {TextOf(e)} : t # <<>> /\ ~is_control_character(t[1])} ELSE {}
        First(options) ==
            LET i == {j \in DOMAIN options : options[j] # No}
            IN  IF i = {} THEN No ELSE options[CHOOSE j \in i : \A k \in i : j <= k]
        base  == First(<<try_build_numpad(e, kitty), try_build_named_kitty(e, kitty),
                         try_build_named_normal(e, mods # {} \/ type # {} \/ text # {}),
                         try_build_control_char_or_mod(e, kitty, all),
                         try_build_textual(e, kitty, "REPORT_ALTERNATE_KEYS" \in mode)>>)
        held  == EffectiveModifiers(e, mods)
    IN  {[csi |-> b.payload, terminator |-> b.terminator, type |-> type, text |-> text,
          mods |-> IF type # {} \/ held # {} \/ text # {} THEN {held} ELSE {}] : b \in base}

should_build_sequence(e, mods, mode) ==
    \/ "REPORT_ALL_KEYS_AS_ESC" \in mode
    \/ /\ "DISAMBIGUATE_ESC_CODES" \in mode
       /\ \/ Is(e, {"Escape"}) \/ e.key.loc = "Numpad"
          \/ mods # {} /\ (mods # {"SHIFT"} \/ Is(e, {"Tab", "Enter", "Backspace"}))
    \/ TextOf(e) = <<>>

alt_send_esc(e) == "ALT" \in e.mods

(* The bytes of a press that no binding takes: a sequence, or the text. *)
PressBytes(e, mode) ==
    LET mods == IF alt_send_esc(e) THEN e.mods ELSE e.mods \ {"ALT"}
    IN  IF should_build_sequence(e, mods, mode) THEN build_sequence(e, mods, mode)
        ELSE IF TextOf(e) = <<>> THEN No
        ELSE {[chars |-> (IF "ALT" \in mods THEN <<27>> ELSE <<>>) \o TextOf(e)]}

key_release(e, mode) ==
    IF "REPORT_EVENT_TYPES" \notin mode
       \/ (Is(e, {"Enter", "Tab", "Backspace"}) /\ "REPORT_ALL_KEYS_AS_ESC" \notin mode)
    THEN No ELSE build_sequence(e, e.mods, mode)

-----------------------------------------------------------------------------
(* Who takes a key *)

(* The key as a binding names it: capital letters are their small ones. *)
BindingName(e) ==
    LET c == Capital[IndexOf(Plain, Name(e))]
    IN  IF e.key.named \/ e.key.loc = "Numpad" \/ "SHIFT" \notin e.mods
           \/ c \in {"A", "F", "I", "L", "V", "Y"}
        THEN Name(e) ELSE c

(* The bindings that a press triggers, in their order. *)
process_key_bindings(bindings, e, mode) ==
    SelectSeq(bindings, LAMBDA b : is_triggered_by(b, mode, e.mods, BindingName(e), e.key.loc))

BindingMode(k) == (k.mode \cap BindingModes) \cup (IF k.search THEN {"SEARCH"} ELSE {})

(* Action::execute, as far as it decides who takes the next key. *)
Execute(k, actions) ==
    [k EXCEPT !.mode = IF "ToggleViMode" \notin actions THEN @
                       ELSE IF "VI" \in @ THEN @ \ {"VI"} ELSE @ \cup {"VI"},
              !.search = (@ \/ actions \cap {"SearchForward", "SearchBackward"} # {})
                         /\ actions \cap {"SearchCancel", "SearchConfirm", "ToggleViMode"} = {},
              !.inline = @ \/ actions \cap {"InlineSearchForward", "InlineSearchBackward",
                                "InlineSearchForwardShort", "InlineSearchBackwardShort"} # {}]

(* What bindings write: their text, or the clipboard unless the search takes it. *)
BindingBytes(k, triggered) ==
    {[esc |-> triggered[i].bytes] : i \in {j \in DOMAIN triggered : triggered[j].action = "Esc"}}
    \cup {[pasted |-> TRUE] : i \in {j \in DOMAIN triggered :
             triggered[j].action \in {"Paste", "PasteSelection"} /\ ~k.search /\ ~k.inline}}

Owned(k) == k.preedit \/ k.hint \/ k.inline \/ k.search \/ "VI" \in k.mode

key_press(k, e) ==
    LET triggered == process_key_bindings(default_key_bindings, e, BindingMode(k))
        actions   == {triggered[i].action : i \in DOMAIN triggered}
        after     == Execute(k, actions)
        through   == triggered = <<>> \/ "ReceiveChar" \in actions
    IN  IF k.hint THEN [k EXCEPT !.written = No]
        ELSE IF k.inline THEN [k EXCEPT !.written = No, !.inline = TextOf(e) = <<>>]
        ELSE [after EXCEPT !.written =
                BindingBytes(k, triggered)
                \cup (IF through /\ ~after.search /\ "VI" \notin k.mode THEN PressBytes(e, k.mode) ELSE No)]

key_input(k, e) ==
    IF k.preedit THEN [k EXCEPT !.written = No]
    ELSE IF e.state # "released" THEN key_press(k, e)
    ELSE [k EXCEPT !.written = IF k.search \/ k.hint \/ "VI" \in k.mode THEN No ELSE key_release(e, k.mode)]

-----------------------------------------------------------------------------

AllKeys == CharKeys \cup NumpadKeys \cup NamedKeys
TypedKeys == {key \in AllKeys : key.name \in
                {"f", "i", "v", "/", "Enter", "Escape", "Backspace", "Space", "Home"}}
States == {"pressed", "repeated", "released"}
KittyModes == {{}, {"DISAMBIGUATE_ESC_CODES"}, {"REPORT_ALL_KEYS_AS_ESC", "REPORT_EVENT_TYPES"},
               {"DISAMBIGUATE_ESC_CODES", "REPORT_EVENT_TYPES", "REPORT_ALTERNATE_KEYS"}}
UserBindings ==
    {Binding(key, NoMods, mode, notmode, "User") :
        key \in {"Enter", "Home", "y"}, mode \in SUBSET Local, notmode \in SUBSET Local}

KeyboardInit ==
    \E mode \in KittyModes, user \in UserBindings :
       /\ user.mode \cap user.notmode = {}
       /\ kbd = [mode |-> mode, search |-> FALSE, hint |-> FALSE, inline |-> FALSE, preedit |-> FALSE,
                 written |-> No, user |-> user]

(* The states to type in have one binding of the configuration. *)
Typing == kbd.user.key = "y" /\ kbd.user.mode = {} /\ kbd.user.notmode = {}

KeyboardNext ==
    /\ Typing
    /\ \/ \E key \in TypedKeys, mods \in {NoMods, Shift, CtrlShift}, state \in States :
            kbd' = key_input(kbd, KeyEvent(key, mods, state))
       \/ \E mode \in KittyModes, cursor \in SUBSET {"APP_CURSOR"} :
            kbd' = [kbd EXCEPT !.mode = mode \cup cursor \cup (@ \cap {"VI"}), !.written = No]
       \/ kbd' = [kbd EXCEPT !.hint = ~@, !.written = No]
       \/ kbd' = [kbd EXCEPT !.preedit = ~@, !.written = No]

-----------------------------------------------------------------------------

(* A key that is pressed while the input method, a hint, the inline search, the
   search bar or vi mode has the keyboard never reaches the program. *)
LocalKeysStay == [][kbd'.written # No => ~Owned(kbd)]_kbd

=============================================================================
