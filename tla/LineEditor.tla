----------------------------- MODULE LineEditor -----------------------------
(***************************************************************************)
(* Editing the shell's input line: the KeyboardEvent match of shell/mod.rs *)
(* with the console operations it calls (console/mod.rs), against lines    *)
(* the loop prints between two keys (tasks, dropped-input reports).        *)
(*                                                                         *)
(* The text exists twice: the shell owns line, the KWriter owns            *)
(* current_line, which is what stands on the last row of the screen.  Text *)
(* is a sequence of symbols; the prompt is one symbol, which a user may    *)
(* also type.  Pixels, wrapping and scrolling are Screen's, which extends   *)
(* this module; the lines printed before the first prompt are left out     *)
(* here, as no key recalls them.                                           *)
(*                                                                         *)
(* disturbed is a history variable: something was printed into the row     *)
(* since the input was last drawn from line.                               *)
(***************************************************************************)
EXTENDS Integers, Sequences

CONSTANTS
    Chars,            \* the characters a user types, PromptChar among them
    PromptChar,       \* PROMPT
    CancelMark,       \* the ^C that Ctrl+C prints
    Output,           \* a line printed by a command, a task or a report
    COMMAND_NAMES,    \* the names Tab completes
    MAX_INPUT_CHARS,  \* limit of the editable line
    MaxHistory        \* bound: lines of screen history

ASSUME EditorAssumption ==
    /\ PromptChar \in Chars
    /\ CancelMark \notin Chars /\ Output \notin Chars /\ CancelMark # Output
    /\ COMMAND_NAMES \subseteq Seq(Chars)
    /\ MAX_INPUT_CHARS \in Nat
    /\ MaxHistory \in Nat

VARIABLES
    line,          \* the shell's line
    current_line,  \* KWriter.current_line
    input_cursor,  \* KWriter.input_cursor
    history,       \* KWriter.history
    history_index, \* KWriter.history_index plus one; 0 is None
    disturbed

vars == <<line, current_line, input_cursor, history, history_index, disturbed>>

PROMPT == <<PromptChar>>
Lower(a, b) == IF a <= b THEN a ELSE b

------------------------------------------------------------------------------
(* Text.                                                                   *)

\* starts_with(PROMPT)
HasPrompt(l) == l # <<>> /\ l[1] = PromptChar

\* the lines up and down recall
IsCommand(l) == HasPrompt(l) /\ l # <<CancelMark>> /\ l # <<>>

\* command_history: filter and collect
CommandHistory(lines) ==
    LET commands[n \in 0 .. Len(lines)] ==
            IF n = 0 THEN <<>>
            ELSE IF IsCommand(lines[n]) THEN Append(commands[n - 1], lines[n])
            ELSE commands[n - 1]
    IN  commands[Len(lines)]

\* trim_start_matches(PROMPT): every leading prompt goes
Trimmed(l) ==
    LET k == CHOOSE n \in 0 .. Len(l) :
                 /\ \A j \in 1 .. n : l[j] = PromptChar
                 /\ n < Len(l) => l[n + 1] # PromptChar
    IN  SubSeq(l, k + 1, Len(l))

\* insert_char_at, for one character after the other
InsertedAt(text, cursor, s) ==
    SubSeq(text, 1, cursor) \o s \o SubSeq(text, cursor + 1, Len(text))

\* remove_char_at: the character before the cursor
RemovedAt(text, cursor) ==
    SubSeq(text, 1, cursor - 1) \o SubSeq(text, cursor + 1, Len(text))

MoveCursorLeft(cursor) == IF cursor = 0 THEN 0 ELSE cursor - 1

MoveCursorRight(cursor, length) == Lower(cursor + 1, length)

\* complete_command: the one command that starts with the line
Completions(prefix) ==
    LET matches == {c \in COMMAND_NAMES :
                       /\ Len(prefix) <= Len(c)
                       /\ SubSeq(c, 1, Len(prefix)) = prefix}
    IN  IF prefix = <<>> \/ \E a, b \in matches : a # b THEN {} ELSE matches

------------------------------------------------------------------------------
(* Console operations.                                                     *)

\* redraw_input_line: the row is drawn from text
Redraw(text, cursor) ==
    /\ current_line' = PROMPT \o text
    /\ input_cursor' = cursor

\* kprintln of some lines: the first ends the row the input is on
Flushed(tail) == Append(history, current_line \o tail)

\* insert_char for each character of s: those beyond the limit are ignored
TypeText(s) ==
    LET cursor == Lower(input_cursor, Len(line))
        taken  == SubSeq(s, 1, Lower(Len(s), MAX_INPUT_CHARS - Len(line)))
    IN  /\ Len(line) < MAX_INPUT_CHARS /\ s # <<>>
        /\ line' = InsertedAt(line, cursor, taken)
        /\ Redraw(line', cursor + Len(taken))
        /\ disturbed' = FALSE
        /\ UNCHANGED <<history, history_index>>

------------------------------------------------------------------------------
(* Keys.                                                                   *)

Init ==
    /\ line = <<>> /\ current_line = PROMPT
    /\ input_cursor = 0
    /\ history = <<>> /\ history_index = 0
    /\ disturbed = FALSE

Type(c) == TypeText(<<c>>)

Tab == \E c \in Completions(line) : TypeText(SubSeq(c, Len(line) + 1, Len(c)))

Backspace ==
    LET cursor == Lower(input_cursor, Len(line))
    IN  /\ cursor > 0
        /\ line' = RemovedAt(line, cursor)
        /\ Redraw(line', cursor - 1)
        /\ disturbed' = FALSE
        /\ UNCHANGED <<history, history_index>>

\* a fresh prompt after text was printed: line.clear(), PROMPT
Prompt ==
    /\ line' = <<>>
    /\ current_line' = PROMPT
    /\ disturbed' = FALSE

\* what a command prints: nothing, a line, or a line that looks like input
\* (echo with the prompt's text)
Replies == {<<>>, <<<<Output>>>>, <<<<PromptChar, Output>>>>}

\* mutant: the cursor of the old line is kept
EnterKeepsCursor(reply) ==
    /\ Len(history) + 1 + Len(reply) <= MaxHistory
    /\ history' = Flushed(<<>>) \o reply
    /\ Prompt
    /\ UNCHANGED <<history_index, input_cursor>>

\* the line is flushed, run_command prints its reply, a new prompt follows
Enter(reply) ==
    /\ Len(history) + 1 + Len(reply) <= MaxHistory
    /\ history' = Flushed(<<>>) \o reply
    /\ Prompt
    /\ input_cursor' = 0
    /\ UNCHANGED history_index

\* reset: everything but the history
Reset(lines) ==
    /\ history' = lines
    /\ input_cursor' = 0
    /\ history_index' = 0

\* Enter on the clear command
EnterClear ==
    /\ Len(history) + 1 <= MaxHistory
    /\ Reset(Flushed(<<>>))
    /\ Prompt

CtrlL == Reset(history) /\ Prompt

CtrlC ==
    /\ Len(history) + 1 <= MaxHistory
    /\ history' = Flushed(<<CancelMark>>)
    /\ Prompt
    /\ input_cursor' = 0
    /\ UNCHANGED history_index

\* mutant: the prompt is drawn without the input
ZoomDropsInput ==
    /\ current_line' = PROMPT
    /\ disturbed' = FALSE
    /\ UNCHANGED <<line, input_cursor, history, history_index>>

\* zoom_in, zoom_out: the screen is redrawn from the history, then the input
Zoom ==
    /\ current_line' = PROMPT \o line
    /\ disturbed' = FALSE
    /\ UNCHANGED <<line, input_cursor, history, history_index>>

\* redraw_current_input: from current_line, not from the shell's line
RedrawCurrent(cursor) ==
    Redraw(IF HasPrompt(current_line) THEN Tail(current_line) ELSE <<>>, cursor)

ArrowRight ==
    /\ RedrawCurrent(MoveCursorRight(input_cursor,
                         IF current_line = <<>> THEN 0 ELSE Len(current_line) - 1))
    /\ UNCHANGED <<line, history, history_index, disturbed>>

ArrowLeft ==
    /\ RedrawCurrent(MoveCursorLeft(input_cursor))
    /\ UNCHANGED <<line, history, history_index, disturbed>>

\* a recalled text becomes the line and its end the cursor
Recall(index, text) ==
    /\ history_index' = index
    /\ line' = text
    /\ Redraw(text, Len(text))
    /\ disturbed' = FALSE
    /\ UNCHANGED history

ArrowUp ==
    LET commands == CommandHistory(history)
        index == IF history_index = 0 THEN Len(commands)
                 ELSE IF history_index = 1 THEN 1 ELSE history_index - 1
    IN  /\ commands # <<>>
        /\ Recall(index, Trimmed(commands[index]))

ArrowDown ==
    LET commands == CommandHistory(history)
    IN  /\ history_index # 0 /\ commands # <<>>
        /\ IF history_index < Len(commands)
           THEN Recall(history_index + 1, Trimmed(commands[history_index + 1]))
           ELSE Recall(0, <<>>)

\* a task or a report prints a line between two keys
Background ==
    /\ Len(history) + 1 <= MaxHistory
    /\ history' = Flushed(<<Output>>)
    /\ current_line' = <<>>
    /\ disturbed' = TRUE
    /\ UNCHANGED <<line, input_cursor, history_index>>

Next ==
    \/ \E c \in Chars : Type(c)
    \/ Tab
    \/ Backspace
    \/ \E reply \in Replies : Enter(reply)
    \/ EnterClear
    \/ CtrlC
    \/ CtrlL
    \/ Zoom
    \/ ArrowRight
    \/ ArrowLeft
    \/ ArrowUp
    \/ ArrowDown
    \/ Background

Spec == Init /\ [][Next]_vars

------------------------------------------------------------------------------
(* Properties.                                                             *)

\* No index panics: the cursor stays inside the shell's line although it is
\* moved by what the writer displays, and a history index names a recallable
\* line, whatever was cleared, cancelled or printed since it was set.
IndicesAreValid ==
    /\ input_cursor \in 0 .. Len(line)
    /\ history_index <= Len(CommandHistory(history))

\* What stands after the prompt is what Enter will run, unless a line was
\* printed in between; then the row is empty or shows a bare prompt.
ShownIsRun ==
    /\ ~ disturbed => current_line = PROMPT \o line
    /\ disturbed => current_line \in {<<>>, PROMPT}

==============================================================================
