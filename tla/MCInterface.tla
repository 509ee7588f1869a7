----------------------------- MODULE MCInterface -----------------------------
(***************************************************************************)
(* What a window takes in and what it shows, explored side by side:        *)
(* `device` says whether a behaviour is about the keyboard, the pointer,   *)
(* the hints, the damage of frames, the glyphs or the cells of a frame.    *)
(***************************************************************************)
EXTENDS Keyboard, Pointer, Hints, FrameDamage, Atlas, Content

CONSTANT Devices

VARIABLE device

vars == <<device, kbd, ptr, hints, damageVars, atlasVars, content>>

HeldModifiers == SUBSET Modifiers

(* Two columns and two lines of 3 by 3 pixels, and a line below them. *)
SmallWindow == reserve_lines(SizeInfo(8, 11, 3, 3, 1, 1, FALSE), 1)
Windows == [kind \in {"drag", "click", "touch", "wheel"} |-> SmallWindow]
Places == [drag |-> {<<3, 2>>, <<5, -1>>, <<4, 9>>}, click |-> {<<3, 2>>, <<4, 9>>}]
Touches == {<<2, 2>>, <<6, 2>>, <<2, 6>>}
Turns == {-4, -1, 1, 2}

Unlinked == [k \in 1..8 |-> 0]

(* A line of scrollback that goes on in the line of the screen. *)
HintText8(chars, links, offset) ==
    [cols |-> 4, lines |-> 1, hist |-> 1, offset |-> offset, wraps |-> {-1},
     chars |-> [k \in 0..7 |-> chars[k + 1]], links |-> [k \in 0..7 |-> links[k + 1]],
     width |-> [k \in 0..7 |-> "narrow"]]

Screens ==
    {HintText8(<<" ", ")", "x", ".", " ", "(", "x", ")">>, Unlinked, 0),
     HintText8(<<"x", " ", "x", " ", "x", " ", "x", " ">>, <<0, 0, 0, 0, 0, 2, 1, 1>>, 0),
     HintText8(<<"x", " ", "x", " ", "x", " ", "x", " ">>, Unlinked, 1),
     HintText8(<<"x", "(", ")", ")", "x", ".", ")", " ">>, Unlinked, 0),
     HintText8(<<" ", "x", ".", ".", "(", "x", ".", " ">>, <<0, 0, 0, 0, 1, 1, 0, 1>>, 0)}

Points2x2 == {<<0, 1>>, <<-1, 0>>}
Selections == {<<-1, 0>>, <<1, 2>>}

(* Two sizes of a font that lacks the character d. *)
Glyphs ==
    [small |-> [a |-> <<2, 1>>, b |-> <<1, 2>>, c |-> <<3, 1>>, d |-> "none", none |-> <<1, 1>>],
     large |-> [a |-> <<2, 2>>, b |-> <<4, 3>>, c |-> <<3, 2>>, d |-> <<5, 1>>, none |-> <<0, 0>>]]

ContentCell(char, fg, bg, flags) ==
    [char |-> char, fg |-> fg, bg |-> bg, underline |-> fg, flags |-> flags, extra |-> FALSE]

(* Rows of three cells: blank and unreadable ones, a wide character, and cells
   with inverse or hidden text. *)
ContentRows ==
    {<<ContentCell(" ", Foreground, Background, {}), ContentCell("a", "red", "red", {}),
       ContentCell(" ", "red", Background, {"UNDERLINE"})>>,
     <<ContentCell("w", Foreground, Background, {"WIDE_CHAR", "UNDERLINE"}),
       ContentCell(" ", Foreground, Background, {"WIDE_CHAR_SPACER", "UNDERLINE"}),
       ContentCell("a", Foreground, Background, {"UNDERLINE", "STRIKEOUT"})>>,
     <<ContentCell("a", Foreground, Background, {"UNDERLINE"}),
       ContentCell("a", "red", Background, {"UNDERLINE", "INVERSE"}),
       ContentCell("a", "red", "red", {"HIDDEN"})>>}

Span(start, end) == [start |-> start, end |-> end]

Disjoint(spans) ==
    \A i \in DOMAIN spans : spans[i].start <= spans[i].end /\ (i > 1 => spans[i - 1].end < spans[i].start)

Spans ==
    {s \in {<<>>} \cup {<<Span(a, b)>> : a \in {-1, 2}, b \in {0, 3, 5}}
           \cup {<<Span(a, b), Span(c, d)>> : a \in {-1, 1}, b \in {0, 1, 2}, c \in {2, 4}, d \in {4, 5}} : Disjoint(s)}

SmallFrames ==
    [cells : {a \o b : a, b \in ContentRows}, selection : {{}, 1..3}, cursor : {1, 7}, shape : {"Block"},
     matches : Spans, hints : {<<>>, <<Span(-2, 1), Span(1, 4)>>, <<Span(0, 4), Span(1, 2)>>}, labels : {<<1, 2>>},
     focused : {Span(2, 3)}, cursorColors : {<<"CellBackground", "CellForeground">>},
     select : {<<"CellBackground", "CellForeground">>, <<"black", "CellForeground">>}]

(* What is not explored has one initial state. *)
Init ==
    /\ device \in Devices
    /\ KeyboardInit /\ (device # "keyboard" => Typing /\ kbd.mode = {})
    /\ PointerInit /\ (device # "pointer" => ptr.kind = "wheel")
    /\ HintsInit /\ (device # "hints" => ~hints.persist /\ hints.text.offset = 1)
    /\ DamageInit /\ AtlasInit
    /\ IF device = "content" THEN ContentInit ELSE content = [(CHOOSE frame \in Frames : TRUE) EXCEPT !.cells = <<>>]

Only(name, Action, others) == device = name /\ Action /\ UNCHANGED <<device, others>>

Next ==
    \/ Only("keyboard", KeyboardNext, <<ptr, hints, damageVars, atlasVars, content>>)
    \/ Only("pointer", PointerNext, <<kbd, hints, damageVars, atlasVars, content>>)
    \/ Only("hints", HintsNext, <<kbd, ptr, damageVars, atlasVars, content>>)
    \/ Only("damage", DamageNext, <<kbd, ptr, hints, atlasVars, content>>)
    \/ Only("glyphs", AtlasNext, <<kbd, ptr, hints, damageVars, content>>)

Spec == Init /\ [][Next]_vars

-----------------------------------------------------------------------------

(* A modifier key is pressed when its modifier is not yet held. *)
Events(states) ==
    {e \in {KeyEvent(key, mods, state) : key \in AllKeys, mods \in ModifierSets, state \in states} :
        EffectiveModifiers([e EXCEPT !.state = "released"], e.mods) = e.mods}

Idle == device = "keyboard" /\ kbd.written = No /\ ~Owned(kbd) /\ kbd.user.key = "y"

(* With all keys and event types reported, no two key events of any two keys,
   held modifiers and event types are written alike, and none is lost. *)
SequencesDistinct ==
    Idle /\ {"REPORT_ALL_KEYS_AS_ESC", "REPORT_EVENT_TYPES"} \subseteq kbd.mode =>
      LET written == {build_sequence(e, e.mods, kbd.mode) : e \in Events(States)}
      IN  No \notin written /\ Cardinality(written) = Cardinality(Events(States))

(* With ambiguous codes turned off and the default bindings, what a key press
   writes tells the key and the modifiers, but for shift with the space bar. *)
KeysDisambiguated ==
    Idle /\ kbd.mode = {"DISAMBIGUATE_ESC_CODES"} =>
      \A presses \in {{e \in Events({"pressed"}) : Name(e) # "Space"
                        /\ key_input(kbd, e).written \notin {No, {[pasted |-> TRUE]}}}} :
          Cardinality({key_input(kbd, e).written : e \in presses}) = Cardinality(presses)

(* A binding of the configuration replaces the default ones: in the modes it
   asks for it is triggered alone, and a default binding that goes is one that
   it could be triggered together with. *)
UserBindingReplaces ==
    device = "keyboard" =>
    LET user     == kbd.user
        bindings == deserialize_bindings(<<user>>, default_key_bindings)
        Fires(b, mode) == is_triggered_by(b, mode, user.mods, user.key, user.location)
    IN  /\ \A i \in DOMAIN bindings : Fires(bindings[i], user.mode) => i = 1
        /\ \A i \in DOMAIN default_key_bindings :
             LET d == default_key_bindings[i]
             IN  (\A j \in DOMAIN bindings : bindings[j] # d) =>
                   \E mode \in SUBSET (Local \cup {"APP_CURSOR"}) : Fires(d, mode) /\ Fires(user, mode)

(* A key means one thing: to the program, which can tell all keys apart where it
   asked for that, and among the bindings, of which the user's goes first
   (build_sequence, should_build_sequence, deserialize_bindings). *)
KeysDistinct == SequencesDistinct /\ KeysDisambiguated /\ UserBindingReplaces

(* The other side reads the position of a report as it is meant: one byte, or
   two from 128 on where UTF-8 is asked for. *)
DecodePosition(bytes, utf8) ==
    IF utf8 /\ bytes[1] >= 128 THEN <<(bytes[1] - 192) * 64 + (bytes[2] - 128) - 33, 2>> ELSE <<bytes[1] - 33, 1>>

Start == device = "pointer" /\ ptr.kind = "wheel" /\ ptr.asked = 0 /\ ptr.acc_y = 0

(* A report of the mouse says where it was, in whichever encoding the program
   asked for, up to the last cell the encoding can name; no byte overflows. *)
MouseReportDecodes ==
    Start => \A utf8 \in BOOLEAN, col, line \in {0, 1, 93, 94, 95, 96, 190, 191, 221, 222, 223, 1000, 2013, 2014, 2015} :
      LET report == normal_mouse_report(Point(line, col), 28 + 35, utf8)
          first  == DecodePosition(Tail(report), utf8)
          second == DecodePosition(SubSeq(report, 2 + first[2], Len(report)), utf8)
      IN  IF report = <<>> THEN col >= MaxReported(utf8) \/ line >= MaxReported(utf8)
          ELSE /\ first[1] = col /\ second[1] = line
               /\ Len(report) = 1 + first[2] + second[2]
               /\ \A i \in DOMAIN report : report[i] \in 0..255

WindowLengths == {1, 7, 8, 19, 20, 21, 640, 65535}
CellWidths == {1, 7, 20, 300}

(* The cells fit into the window and leave no room for one more, a window that
   is asked for by its columns gets them, the mouse is always over a cell, and
   in a window of at most 65535 pixels no field of the size of the PTY wraps. *)
SizesConsistent ==
    Start => \A width, height \in WindowLengths, cell \in CellWidths, padding \in {0, 3}, dynamic \in BOOLEAN :
      LET size == SizeInfo(width, height, cell, cell + 1, padding, 0, dynamic)
          asked == window_size(size.columns, size.screen_lines, cell, cell + 1, padding, 0)
          again == SizeInfo(asked.width, asked.height, cell, cell + 1, padding, 0, dynamic)
      IN  /\ size.columns > MIN_COLUMNS =>
               /\ 2 * size.padding_x + size.columns * cell <= width
               /\ 2 * size.padding_x + size.columns * cell > width - cell - 1
          /\ again.columns = size.columns /\ again.screen_lines = size.screen_lines
          /\ \A x \in {0, width \div 2, width - 1} :
               LET p == mouse_point(size, x, height - 1, 0)
               IN  p.col \in 0..(size.columns - 1) /\ p.line \in 0..(size.screen_lines - 1)
          /\ to_winsize(size) = [ws_row |-> size.screen_lines, ws_col |-> size.columns,
                                 ws_xpixel |-> size.columns * cell,
                                 ws_ypixel |-> size.screen_lines * (cell + 1)]

(* What a mouse, a wheel or a finger began comes to its end, and its position and
   distance arrive exactly, whatever modes, sizes and other fingers come between
   press and release (input/mod.rs, SizeInfo, to_winsize). *)
PointerSettles ==
    /\ GesturesEnd /\ ScrollsWhileSelecting /\ LaunchedByClick
    /\ ScrollConserved /\ MouseReportDecodes /\ SizesConsistent

AtRest == device = "hints" /\ ~hints.active /\ hints.highlighted = {} /\ hints.triggered = {}

(* No label is the beginning of another one: the letters that end a label are
   never used inside, so that typing a label means one match. *)
LabelsUnambiguous ==
    AtRest => \A size \in 2..AlphabetSize + 2 :
      LET labels == Labels(size, MaxLabels)
      IN  \A i, j \in 1..MaxLabels : i # j => ~IsPrefix(labels[i], labels[j])

(* The parts of a match lie inside of it and apart from each other, and none
   closes a bracket that it did not open, but at the first cell of the grid. *)
PartsBalanced ==
    AtRest => \A m \in Search(hints.text) :
      \A parts \in {Parts(hints.text, m).out} :
          /\ \A p \in parts : p.start >= m.start /\ p.end <= m.end
          /\ \A p \in parts : p.start > 0 => Unbalanced(hints.text, p) = {}
          /\ \A p, q \in parts : p # q /\ m.end # Max(Cells(hints.text)) =>
               p.start..p.end \cap q.start..q.end = {}

(* Every match that is offered can be opened: what the list of the matches says
   is what looking again at its first cell says.  Not so for a match that starts
   on a hyperlink, which may be longer or reach out of the screen. *)
OfferedIsOpened ==
    AtRest => \A m \in AllMatches(hints.text) :
      hints.text.links[m.start] = 0 => HintText(hints.text, [bounds |-> m, link |-> 0])

(* A hint opens the text it is shown on: one label, one match, the same match
   when it is looked up again, and text that is still there (display/hint.rs). *)
HintsOpenText == LabelsUnambiguous /\ TriggeredIsValid /\ PartsBalanced /\ OfferedIsOpened

(* Every cell of a frame is drawn as it is: from its own glyph in its own texture,
   in colors that can be read, highlighted and underlined where it should be
   (atlas.rs, glsl3.rs, gles2.rs, content.rs, rects.rs). *)
CellsDrawn ==
    /\ GlyphsIntact /\ DrawnFromOwnTexture
    /\ HighlightsFollowText /\ NothingInvisible /\ LinesCoverCells

(* Paddings, and a window with a line's height below the terminal. *)
PixelSizes ==
    {[width |-> FrameColumns * 2 + 2 * px + ex, height |-> FrameLines * 3 + 2 * py + ey,
      cell_width |-> 2, cell_height |-> 3, padding_x |-> px, padding_y |-> py] :
     px \in 0..1, py \in 0..1, ex \in 0..1, ey \in {0, 3}}

Inside(rect, x, y) ==
    rect.x <= x /\ x < rect.x + rect.width /\ rect.y <= y /\ y < rect.y + rect.height

(* The rectangles handed to the compositor cover every pixel of the damaged
   cells in its own coordinates, which begin at the bottom, and none reaches
   out of the window (damage.rs RenderDamageIterator). *)
ShapedDamageCovers ==
    device = "damage" /\ stale # {} /\ changes = 0 =>
      \A size \in PixelSizes,
         lines \in [0..FrameLines - 1 -> [left : 0..FrameColumns, right : 0..FrameColumns]] :
        LET frame == [full |-> FALSE, lines |-> lines]
            rects == shape_frame_damage(size, frame)
        IN  /\ \A c \in FrameCells, x \in 0..1, y \in 0..2 : IsRepainted(frame, c) =>
                 \E i \in DOMAIN rects :
                   Inside(rects[i], size.padding_x + c[2] * 2 + x, size.height - 1 - (size.padding_y + c[1] * 3 + y))
            /\ \A i \in DOMAIN rects : rects[i].x + rects[i].width <= size.width
                                       /\ rects[i].y + rects[i].height <= size.height

(* Damage is complete on both ways it takes: what is drawn again in the buffer,
   and what the compositor is told to take from it (display/damage.rs). *)
DamageComplete == WindowShowsFrame /\ ShapedDamageCovers

=============================================================================
