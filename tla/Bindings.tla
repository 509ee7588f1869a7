------------------------------- MODULE Bindings -------------------------------
(***************************************************************************)
(* Key and mouse bindings (velacritty/src/config/bindings.rs and           *)
(* ui_config.rs): the default bindings of Linux and BSD, how bindings of   *)
(* the configuration replace them, and when one is triggered.  Keys are    *)
(* named as in the source.                                                 *)
(***************************************************************************)
EXTENDS Sequences, FiniteSets, Integers

BindingModes == {"APP_CURSOR", "APP_KEYPAD", "ALT_SCREEN", "VI", "SEARCH",
                 "DISAMBIGUATE_ESC_CODES", "REPORT_ALL_KEYS_AS_ESC"}

NoMods == {}
Shift == {"SHIFT"}
Ctrl == {"CONTROL"}
Alt == {"ALT"}
CtrlShift == Ctrl \cup Shift
AltShift == Alt \cup Shift

(* The macro bindings!; a key without a location is meant wherever it is. *)
Binding(key, mods, mode, notmode, action) ==
    [key |-> key, location |-> "Any", mods |-> mods, mode |-> mode, notmode |-> notmode,
     action |-> action, bytes |-> <<>>]
At(location, b) == [b EXCEPT !.location = location]

Kitty == {"REPORT_ALL_KEYS_AS_ESC", "DISAMBIGUATE_ESC_CODES"}
Local == {"VI", "SEARCH"}
Esc(b, s) == [b EXCEPT !.action = "Esc", !.bytes = s]

AppCursor(key, letter) == Esc(Binding(key, NoMods, {"APP_CURSOR"}, Local, ""), <<"O", letter>>)
Legacy(key, mods, s) == Esc(Binding(key, mods, {}, Local \cup Kitty, ""), s)
InVi(key, mods, action) == Binding(key, mods, {"VI"}, {"SEARCH"}, action)
InSearch(key, mods, action) == Binding(key, mods, {"SEARCH"}, {}, action)
Rows(Make(_, _, _), rows) == [i \in DOMAIN rows |-> Make(rows[i][1], rows[i][2], rows[i][3])]

default_mouse_bindings ==
    <<Binding("Right", NoMods, {}, {}, "ExpandSelection"), Binding("Right", Ctrl, {}, {}, "ExpandSelection"),
      Binding("Middle", NoMods, {}, {"VI"}, "PasteSelection")>>

GlobalBindings ==
    <<Binding("Copy", NoMods, {}, {}, "Copy"), Binding("Copy", NoMods, {"VI"}, {}, "ClearSelection"),
      Binding("Paste", NoMods, {}, {"VI"}, "Paste"), Binding("Paste", NoMods, Local, {}, "Paste"),
      Binding("l", Ctrl, {}, {}, "ClearLogNotice"), Binding("l", Ctrl, {}, {}, "ReceiveChar")>>
    \o [i \in 1..4 |-> Binding(<<"Home", "End", "PageUp", "PageDown">>[i], Shift, {}, {"ALT_SCREEN"},
           <<"ScrollToTop", "ScrollToBottom", "ScrollPageUp", "ScrollPageDown">>[i])]

(* Faulty variant: the backspace key is not left to the search bar. *)
PlainBackspace_Everywhere == Esc(Binding("Backspace", NoMods, {}, {"REPORT_ALL_KEYS_AS_ESC"}, ""), <<"DEL">>)

PlainBackspace ==
    Esc(Binding("Backspace", NoMods, {}, Local \cup {"REPORT_ALL_KEYS_AS_ESC"}, ""), <<"DEL">>)

TerminalBindings ==
    [i \in 1..6 |-> AppCursor(<<"Home", "End", "ArrowUp", "ArrowDown", "ArrowRight", "ArrowLeft">>[i],
                              <<"H", "F", "A", "B", "C", "D">>[i])]
    \o [i \in 1..4 |-> Legacy(<<"F1", "F2", "F3", "F4">>[i], NoMods, <<"O", <<"P", "Q", "R", "S">>[i]>>)]
    \o <<Legacy("Tab", Shift, <<"[", "Z">>), Legacy("Tab", AltShift, <<"ESC", "[", "Z">>),
         PlainBackspace,
         Legacy("Backspace", Alt, <<"ESC", "DEL">>), Legacy("Backspace", Shift, <<"DEL">>),
         At("Numpad", Legacy("Enter", NoMods, <<"LF">>))>>

ViModeBindings ==
    <<Binding("Space", CtrlShift, {}, {"SEARCH"}, "ToggleViMode"), InVi("Space", CtrlShift, "ScrollToBottom"),
      Binding("a", CtrlShift, {}, {}, "ToggleAutoScroll")>>
    \o Rows(InVi,
       <<<<"Escape", NoMods, "ClearSelection">>, <<"i", NoMods, "ToggleViMode">>, <<"i", NoMods, "ScrollToBottom">>,
         <<"c", Ctrl, "ToggleViMode">>, <<"y", Ctrl, "ScrollLineUp">>, <<"e", Ctrl, "ScrollLineDown">>,
         <<"g", NoMods, "ScrollToTop">>, <<"g", Shift, "ScrollToBottom">>, <<"b", Ctrl, "ScrollPageUp">>,
         <<"f", Ctrl, "ScrollPageDown">>, <<"u", Ctrl, "ScrollHalfPageUp">>,
         <<"d", Ctrl, "ScrollHalfPageDown">>, <<"y", NoMods, "Copy">>, <<"y", NoMods, "ClearSelection">>,
         <<"/", NoMods, "SearchForward">>, <<"?", Shift, "SearchBackward">>,
         <<"y", Shift, "ToggleNormalSelection">>, <<"y", Shift, "Last">>, <<"y", Shift, "Copy">>,
         <<"y", Shift, "ClearSelection">>, <<"v", NoMods, "ToggleNormalSelection">>,
         <<"v", Shift, "ToggleLineSelection">>, <<"v", Ctrl, "ToggleBlockSelection">>,
         <<"v", Alt, "ToggleSemanticSelection">>, <<"n", NoMods, "SearchNext">>,
         <<"n", Shift, "SearchPrevious">>, <<"Enter", NoMods, "Open">>, <<"z", NoMods, "CenterAroundViCursor">>,
         <<"f", NoMods, "InlineSearchForward">>, <<"f", Shift, "InlineSearchBackward">>,
         <<"t", NoMods, "InlineSearchForwardShort">>, <<"t", Shift, "InlineSearchBackwardShort">>,
         <<";", NoMods, "InlineSearchNext">>, <<",", NoMods, "InlineSearchPrevious">>,
         <<"*", Shift, "SemanticSearchForward">>, <<"#", Shift, "SemanticSearchBackward">>,
         <<"k", NoMods, "Up">>, <<"j", NoMods, "Down">>, <<"h", NoMods, "Left">>, <<"l", NoMods, "Right">>,
         <<"ArrowUp", NoMods, "Up">>, <<"ArrowDown", NoMods, "Down">>, <<"ArrowLeft", NoMods, "Left">>,
         <<"ArrowRight", NoMods, "Right">>, <<"0", NoMods, "First">>, <<"$", Shift, "Last">>,
         <<"Home", NoMods, "First">>, <<"End", NoMods, "Last">>, <<"^", Shift, "FirstOccupied">>,
         <<"h", Shift, "High">>, <<"m", Shift, "Middle">>, <<"l", Shift, "Low">>,
         <<"b", NoMods, "SemanticLeft">>, <<"w", NoMods, "SemanticRight">>, <<"e", NoMods, "SemanticRightEnd">>,
         <<"b", Shift, "WordLeft">>, <<"w", Shift, "WordRight">>, <<"e", Shift, "WordRightEnd">>,
         <<"%", Shift, "Bracket">>, <<"{", Shift, "ParagraphUp">>, <<"}", Shift, "ParagraphDown">>>>)

SearchBindings ==
    <<Binding("Enter", NoMods, Local, {}, "SearchConfirm")>>
    \o Rows(InSearch,
       <<<<"Escape", NoMods, "SearchCancel">>, <<"c", Ctrl, "SearchCancel">>, <<"u", Ctrl, "SearchClear">>,
         <<"w", Ctrl, "SearchDeleteWord">>, <<"p", Ctrl, "SearchHistoryPrevious">>,
         <<"n", Ctrl, "SearchHistoryNext">>, <<"ArrowUp", NoMods, "SearchHistoryPrevious">>,
         <<"ArrowDown", NoMods, "SearchHistoryNext">>>>)
    \o <<Binding("Enter", NoMods, {"SEARCH"}, {"VI"}, "SearchFocusNext"),
         Binding("Enter", Shift, {"SEARCH"}, {"VI"}, "SearchFocusPrevious")>>

common_keybindings ==
    <<Binding("v", CtrlShift, {}, {"VI"}, "Paste"), Binding("v", CtrlShift, Local, {}, "Paste"),
      Binding("f", CtrlShift, {}, {"SEARCH"}, "SearchForward"),
      Binding("b", CtrlShift, {}, {"SEARCH"}, "SearchBackward"),
      Binding("Insert", Shift, {}, {"VI"}, "PasteSelection"),
      Binding("c", CtrlShift, {}, {}, "Copy"), InVi("c", CtrlShift, "ClearSelection"),
      Binding("0", Ctrl, {}, {}, "ResetFontSize"), Binding("=", Ctrl, {}, {}, "IncreaseFontSize"),
      Binding("+", Ctrl, {}, {}, "IncreaseFontSize"), Binding("-", Ctrl, {}, {}, "DecreaseFontSize"),
      At("Numpad", Binding("+", Ctrl, {}, {}, "IncreaseFontSize")),
      At("Numpad", Binding("-", Ctrl, {}, {}, "DecreaseFontSize"))>>

default_key_bindings ==
    GlobalBindings \o TerminalBindings \o ViModeBindings \o SearchBindings \o common_keybindings

-----------------------------------------------------------------------------

(* PartialEq of KeyLocation: Any is equal to every location. *)
SameLocation(a, b) == a = b \/ a = "Any" \/ b = "Any"

SameTrigger(b, key, location, mods) ==
    b.key = key /\ SameLocation(b.location, location) /\ b.mods = mods

is_triggered_by(b, mode, mods, key, location) ==
    /\ SameTrigger(b, key, location, mods)
    /\ b.mode \subseteq mode
    /\ b.notmode \cap mode = {}

(* Whether one binding takes the place of the other. *)
triggers_match(a, b) ==
    /\ SameTrigger(a, b.key, b.location, b.mods)
    /\ a.mode = {} \/ b.mode = {} \/ a.mode \cap b.mode # {}
    /\ a.mode \cap b.notmode = {} /\ b.mode \cap a.notmode = {}

(* The bindings of the configuration come first; the defaults they match go. *)
deserialize_bindings(user, default) ==
    user \o SelectSeq(default, LAMBDA d : \A i \in DOMAIN user : ~triggers_match(d, user[i]))

=============================================================================
