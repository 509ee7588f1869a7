-------------------------------- MODULE Messages --------------------------------
(***************************************************************************)
(* The logger (velacritty/src/logging.rs), which also sends warnings and   *)
(* errors to the windows, and the message bar that shows them              *)
(* (velacritty/src/message_bar.rs): its queue, and the lines a text is     *)
(* laid out in.  A text is a sequence of letters, Space and Newline.       *)
(***************************************************************************)
EXTENDS Integers, Sequences, FiniteSets, SequencesExt

CONSTANTS
    CLOSE_BUTTON_LEN, TRUNCATED_LEN,   \* lengths of the two fixed texts
    Letters, MaxText,                  \* what texts are made of, and how long
    MaxBarColumns, MaxBarLines,        \* bounds on the size of the bar
    MaxRecords                         \* bound on the number of records logged

VARIABLES
    logfile,     \* whether it is open and whether its path exists, the records in it,
                 \* and how many records there were when it was last deleted
    messages,    \* the queue of the message bar
    logged,      \* number of records so far
    barText      \* a text that is to be shown

messageVars == <<logfile, messages, logged, barText>>

CLOSE_BUTTON_PADDING == 1
Space == " "
Newline == "\n"
IsWhitespace(c) == c \in {Space, Newline}
Button == "X"
Truncated == "T"

-----------------------------------------------------------------------------
(* Layout *)

pad_text(line, cols) == line \o [i \in 1..(IF Len(line) < cols THEN cols - Len(line) ELSE 0) |-> Space]

Trim(text) ==
    LET kept == {i \in DOMAIN text : ~IsWhitespace(text[i])}
    IN  SubSeq(text, IF kept = {} THEN 1 ELSE Min(kept), IF kept = {} THEN 0 ELSE Max(kept))

(* Faulty variant: the first line is as long as the others. *)
LineFull_NoButton(st, cols) == Len(st.line) = cols

(* The first line leaves room for the close button. *)
LineFull(st, cols) ==
    \/ Len(st.line) = cols
    \/ /\ st.lines = <<>> /\ cols >= CLOSE_BUTTON_LEN
       /\ Len(st.line) = Max({0, cols - CLOSE_BUTTON_LEN - CLOSE_BUTTON_PADDING})

(* The line is ended before the last word of it if c goes on with that word. *)
BreakLine(st, c, cols) ==
    LET spaces == {i \in DOMAIN st.line : IsWhitespace(st.line[i])}
        word   == ~IsWhitespace(c) /\ spaces # {}
        at     == IF word THEN Max(spaces) ELSE Len(st.line) + 1
    IN  [lines |-> Append(st.lines, pad_text(SubSeq(st.line, 1, at - 1), cols)),
         line  |-> SubSeq(st.line, at + 1, Len(st.line))]

PutChar(st, c, cols) ==
    LET break == c = Newline \/ LineFull(st, cols)
        s     == IF break THEN BreakLine(st, c, cols) ELSE st
    IN  IF break /\ IsWhitespace(c) THEN s ELSE [s EXCEPT !.line = Append(s.line, c)]

(* Message::text *)
TextLines(text, cols, max_lines) ==
    LET WithButton(lines) ==
            IF CLOSE_BUTTON_LEN <= cols /\ lines # <<>>
            THEN [lines EXCEPT ![1] = SubSeq(@, 1, cols - CLOSE_BUTTON_LEN)
                                      \o [i \in 1..CLOSE_BUTTON_LEN |-> Button]]
            ELSE lines
        Shortened(cut) ==
            IF TRUNCATED_LEN <= cols /\ cut # <<>>
            THEN [cut EXCEPT ![max_lines] = pad_text([i \in 1..TRUNCATED_LEN |-> Truncated], cols)]
            ELSE cut
        Fit(all) == WithButton(IF Len(all) <= max_lines THEN all
                               ELSE Shortened(SubSeq(all, 1, max_lines)))
        Lines(st) == Fit(Append(st.lines, pad_text(st.line, cols)))
    IN  Lines(FoldLeft(LAMBDA s, c : PutChar(s, c, cols), [lines |-> <<>>, line |-> <<>>], Trim(text)))

-----------------------------------------------------------------------------
(* Logging and the queue *)

MessageInit ==
    /\ logfile \in [open : {FALSE}, exists : BOOLEAN, records : {{}}, deleted : {0}]
    /\ messages = <<>> /\ logged = 0
    /\ barText \in UNION {[1..n -> Letters \cup {Space, Newline}] : n \in 0..MaxText}

(* OnDemandLogFile: a file that was deleted is created again, one that was there
   before us is not touched. *)
Written(f, record) ==
    LET open == f.open /\ f.exists
    IN  IF open THEN [f EXCEPT !.records = @ \cup {record}]
        ELSE IF f.exists THEN [f EXCEPT !.open = FALSE]
        ELSE [f EXCEPT !.open = TRUE, !.exists = TRUE, !.records = {record}]

is_queued(m) == \E i \in DOMAIN messages : messages[i].text = m.text /\ messages[i].target = m.target

(* Logger::log and the Message event: written to the file, and queued if it is
   an error that is not queued yet. *)
Log(level, target, text) ==
    LET record == logged + 1
        m      == [text |-> text, target |-> target, record |-> record]
    IN  /\ logged < MaxRecords /\ logged' = record
        /\ logfile' = Written(logfile, record)
        /\ messages' = IF level = "Error" /\ ~is_queued(m) THEN Append(messages, m) ELSE messages
        /\ UNCHANGED barText

DeleteLogFile ==
    /\ logfile.exists
    /\ logfile' = [logfile EXCEPT !.exists = FALSE, !.records = {}, !.deleted = logged]
    /\ UNCHANGED <<messages, logged, barText>>

(* MessageBuffer::pop, with its duplicates *)
PopMessage ==
    /\ messages # <<>>
    /\ messages' = SelectSeq(Tail(messages), LAMBDA m :
                     ~(m.text = messages[1].text /\ m.target = messages[1].target))
    /\ UNCHANGED <<logfile, logged, barText>>

(* Before a reload, and with new IPC options. *)
RemoveTarget(target) ==
    /\ messages' = SelectSeq(messages, LAMBDA m : m.target # target)
    /\ UNCHANGED <<logfile, logged, barText>>

MessageNext ==
    \/ \E level \in {"Error", "Info"}, target \in {"config", "ipc"}, text \in Letters :
         Log(level, target, text)
    \/ DeleteLogFile \/ PopMessage
    \/ \E target \in {"config", "ipc"} : RemoveTarget(target)

-----------------------------------------------------------------------------

(* The bar is as wide as the window and no higher than allowed, and a text that
   was not cut keeps all its words: neither the close button nor the breaking of
   lines swallows a letter. *)
MessageFits ==
    \A cols \in 1..MaxBarColumns, max_lines \in 0..MaxBarLines :
      \A lines \in {TextLines(barText, cols, max_lines)} :
        LET shown    == SelectSeq(FlattenSeq(lines), LAMBDA c : c \in Letters)
            complete == TextLines(barText, cols, MaxText + 2)
        IN  /\ Len(lines) <= max_lines
            /\ \A i \in DOMAIN lines : Len(lines[i]) = cols
            /\ Len(complete) <= max_lines =>
                 shown = SelectSeq(barText, LAMBDA c : c \in Letters)

(* "See log at": a message the bar shows is in the file it points to, unless
   that file was there before the terminal, or was deleted after the message. *)
ShownIsLogged ==
    logfile.open =>
      \A i \in DOMAIN messages :
        messages[i].record > logfile.deleted => messages[i].record \in logfile.records

=============================================================================
