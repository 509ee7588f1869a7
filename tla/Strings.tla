-------------------------------- MODULE Strings --------------------------------
(***************************************************************************)
(* Texts that have to fit or to survive: StrShortener, which cuts the      *)
(* search bar and the hyperlink preview to the window (string.rs), and the *)
(* command line of a Windows process (tty/windows/mod.rs).  A character is *)
(* a member of a small set; what counts is its width or its meaning to the *)
(* command line.                                                           *)
(***************************************************************************)
EXTENDS Naturals, Sequences, SequencesExt

CONSTANTS
    MaxLength,    \* characters of a text
    MaxWidth      \* columns it is cut to

VARIABLE text    \* a text and the use it is put to

Narrow == "n"
Wide == "w"
Combining == "z"
Spacer == "_"
SHORTENER == "~"

StringsInit ==
    text \in [of : SeqOf({Narrow, Wide, Combining}, MaxLength), as : {"bar"}]
        \cup [of : SeqOf({"a", " ", "q", "b"}, MaxLength), as : {"argument"}]

-----------------------------------------------------------------------------
(* UnicodeWidthChar::width *)
width(ch) == IF ch = Wide THEN 2 ELSE IF ch = Combining THEN 0 ELSE 1

TextWidth(s) == FoldLeft(LAMBDA sum, ch : sum + width(ch), 0, s)

(* StrShortener::new for ShortenDirection::Left: how many characters at the *)
(* end stay, whether the shortener does, and the width that was counted.    *)
RECURSIVE FitFromEnd(_, _, _, _, _)

FitFromEnd(s, max_width, shortener, offset, current_len) ==
    IF offset = Len(s) THEN [offset |-> offset, shortener |-> shortener, len |-> current_len]
    ELSE LET len == current_len + width(s[Len(s) - offset])
             more == offset + 1 < Len(s)
         IN IF len > max_width \/ (len = max_width /\ shortener /\ more)
            THEN [offset |-> offset, shortener |-> shortener, len |-> len]
            ELSE FitFromEnd(s, max_width, shortener /\ len # max_width, offset + 1, len)

(* The iterator, TextAction::Char and Spacer: what is yielded for the text *)
(* from here on.                                                           *)
RECURSIVE Yield(_, _, _, _)

Yield(chars, max_width, shortener, accumulated_len) ==
    IF chars = <<>> THEN <<>>
    ELSE LET ch == Head(chars)
             len == accumulated_len + width(ch)
         IN IF len > max_width THEN IF shortener THEN <<SHORTENER>> ELSE <<>>
            ELSE IF len = max_width /\ shortener
            THEN IF Len(chars) > 1 THEN <<SHORTENER>> ELSE <<ch>>
            ELSE (IF width(ch) = 2 THEN <<ch, Spacer>> ELSE <<ch>>)
                     \o Yield(Tail(chars), max_width, shortener, len)

ShortenLeft(s, max_width, shortener) ==
    LET fit == FitFromEnd(s, max_width, shortener, 0, 0)
        rest == SubSeq(s, Len(s) - fit.offset + 1, Len(s))
    IN IF fit.len < max_width \/ ~fit.shortener THEN Yield(rest, max_width, fit.shortener, 0)
       ELSE <<SHORTENER>> \o Yield(rest, max_width, FALSE, 0)

StrShortener(s, max_width, direction, shortener) ==
    LET with == shortener /\ s # <<>> IN
    IF direction = "Right" THEN Yield(s, max_width, with, 0) ELSE ShortenLeft(s, max_width, with)

(* Display::format_search, with a label of ASCII characters.  A label that   *)
(* takes the whole line but not more leaves usize::MAX columns to the regex. *)
format_search(regex, label_len, max_width) ==
    IF label_len > max_width THEN [i \in 1..max_width |-> Narrow]
    ELSE [i \in 1..label_len |-> Narrow]
        \o StrShortener(regex, IF label_len = max_width THEN TextWidth(regex) + 1 ELSE max_width - label_len - 1,
                        "Left", TRUE)
        \o <<Spacer>>

-----------------------------------------------------------------------------
(* push_escaped_arg: "b" is a backslash and "q" a double quote. *)

Backslashes(n) == [i \in 1..n |-> "b"]

RECURSIVE Escaped(_, _, _)

Escaped(arg, backslashes, quote) ==
    IF arg = <<>> THEN IF quote THEN Backslashes(backslashes) \o <<"q">> ELSE <<>>
    ELSE LET x == Head(arg) IN
        IF x = "b" THEN <<x>> \o Escaped(Tail(arg), backslashes + 1, quote)
        ELSE (IF x = "q" THEN Backslashes(backslashes + 1) ELSE <<>>) \o <<x>> \o Escaped(Tail(arg), 0, quote)

push_escaped_arg(arg) ==
    LET quote == arg = <<>> \/ " " \in ToSet(arg) IN
    (IF quote THEN <<"q">> ELSE <<>>) \o Escaped(arg, 0, quote)

(* cmdline with escape_args. *)
cmdline(program, args) ==
    FoldLeft(LAMBDA cmd, arg : cmd \o <<" ">> \o push_escaped_arg(arg), program, args)

(* How the child's C runtime splits the line (external): blanks outside     *)
(* quotes separate arguments; before a quote, two backslashes are one and   *)
(* an odd one takes the quote literally.                                    *)
RECURSIVE Split(_, _, _, _)

Split(line, current, open, quoted) ==
    IF line = <<>> THEN IF open THEN <<current>> ELSE <<>>
    ELSE LET n == LET after == {i \in DOMAIN line : line[i] # "b"} IN
                  IF after = {} THEN Len(line) ELSE (CHOOSE i \in after : \A j \in after : i <= j) - 1
             rest == SubSeq(line, n + 1, Len(line))
         IN IF n > 0 /\ (rest = <<>> \/ Head(rest) # "q") THEN Split(rest, current \o Backslashes(n), TRUE, quoted)
            ELSE IF n > 0 /\ n % 2 = 1 THEN Split(Tail(rest), current \o Backslashes(n \div 2) \o <<"q">>, TRUE, quoted)
            ELSE IF n > 0 THEN Split(rest, current \o Backslashes(n \div 2), TRUE, quoted)
            ELSE IF Head(line) = "q" THEN Split(Tail(line), current, TRUE, ~quoted)
            ELSE IF Head(line) = " " /\ ~quoted
            THEN (IF open THEN <<current>> ELSE <<>>) \o Split(Tail(line), <<>>, FALSE, FALSE)
            ELSE Split(Tail(line), Append(current, Head(line)), TRUE, quoted)

-----------------------------------------------------------------------------
Without(s, removed) == SelectSeq(s, LAMBDA ch : ch \notin removed)

(* A shortened text fills no more cells than it is given, shows an end of   *)
(* the text and all of it when there is room to spare, and says so when it  *)
(* does not (string.rs StrShortener::new and next).                         *)
ShortenedFits ==
    text.as = "bar" => \A max_width \in 1..MaxWidth, direction \in {"Left", "Right"}, with \in BOOLEAN :
        LET shown == StrShortener(text.of, max_width, direction, with)
            kept == Without(shown, {Spacer, SHORTENER})
        IN /\ Len(Without(shown, {Combining})) <= max_width
           /\ IF direction = "Left" THEN IsSuffix(kept, text.of) ELSE IsPrefix(kept, text.of)
           /\ TextWidth(text.of) < max_width => kept = text.of
           /\ TextWidth(text.of) = max_width /\ Combining \notin ToSet(text.of) => kept = text.of
           /\ with => (kept = text.of) = (SHORTENER \notin ToSet(shown))

(* The search bar and the cursor behind the regex fit into the window, and *)
(* the cursor is in it -- unless the label takes the whole line or leaves  *)
(* one cell (display/mod.rs format_search).                                *)
SearchBarFits ==
    text.as = "bar" => \A max_width \in 0..MaxWidth, label_len \in 1..MaxWidth :
        max_width \notin {label_len, label_len + 1}
            => Len(Without(format_search(text.of, label_len, max_width), {Combining})) <= max_width

(* A child process gets the arguments it was started with, whatever blanks, *)
(* quotes and backslashes they hold (tty/windows/mod.rs push_escaped_arg,   *)
(* cmdline).                                                                *)
ArgumentsArrive ==
    text.as = "argument" => \A next \in {<<"a">>, <<"q", " ">>, <<"b">>} :
        Split(cmdline(<<"a">>, <<text.of, next>>), <<>>, FALSE, FALSE) = <<<<"a">>, text.of, next>>

=============================================================================
