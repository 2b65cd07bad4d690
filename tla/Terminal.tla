------------------------------ MODULE Terminal ------------------------------
(***************************************************************************)
(* The line editor of crypto/ssh/terminal: Terminal.  It keeps the line,   *)
(* the place in it, and where it believes the cursor of the user's screen  *)
(* to be, and sends what it prints and moves to a VT100 screen that it     *)
(* never sees.  That screen is part of the model: it wraps a line only     *)
(* when the next character comes, and a newline takes it to the start of   *)
(* the next row.  Rows are counted from the prompt.                        *)
(*                                                                         *)
(* Keys are handled one by one; Write may come between any two of them,    *)
(* as the lock is released while input is read.                            *)
(***************************************************************************)
EXTENDS Integers, Sequences, SequencesExt

CONSTANTS
    Chars,      \* characters that can be typed, the space " " among them
    Width,      \* columns of the screen
    Prompt,     \* the prompt, a sequence of characters
    MaxLine,    \* maxLineLength
    MaxHistory, \* entries of the history
    MaxRows,    \* rows of the screen that can matter (a bound)
    MaxEntered, \* lines that are entered (a bound)
    MaxKept     \* length of those that enter the history (a bound)

TerminalAssumption ==
    /\ " " \in Chars
    /\ Width \in Nat \ {0} /\ MaxLine \in Nat /\ MaxHistory \in Nat \ {0}
    /\ Prompt \in Seq(Chars) /\ Prompt # <<>>
    /\ MaxRows * Width > Len(Prompt) + MaxLine + Width
    /\ MaxEntered \in Nat /\ MaxKept \in Nat

VARIABLES
    t,          \* the editor: line, pos, cursorX, cursorY, and the screen
    echo,
    reading,    \* "no", "yes" while ReadLine or ReadPassword runs, or "eof"
    paste,      \* pasteActive
    ring,       \* the history: entries, head, size
    index,      \* historyIndex
    pending,    \* historyPending
    entered     \* the lines read with echo, in order

vars == <<t, echo, reading, paste, ring, index, pending, entered>>
history == <<ring, index, pending, entered>>

-----------------------------------------------------------------------------
\* The screen.
Blank == [p \in (0..(MaxRows - 1)) \X (0..(Width - 1)) |-> " "]
NewScreen == [cells |-> Blank, x |-> 0, y |-> 0]

Prints(s, c) ==
    LET wraps == s.x = Width
        row   == IF wraps THEN s.y + 1 ELSE s.y
        col   == IF wraps THEN 0 ELSE s.x
    IN  [cells |-> [s.cells EXCEPT ![<<row, col>>] = c], x |-> col + 1, y |-> row]

Newline(s) == [s EXCEPT !.x = 0, !.y = @ + 1]

ClearToRight(s) ==
    [s EXCEPT !.cells = [p \in DOMAIN @ |-> IF p[1] = s.y /\ p[2] >= s.x THEN " " ELSE @[p]]]

-----------------------------------------------------------------------------
\* advanceCursor: where it believes the cursor is after printing n characters.
\* (Mutant: it relies on the screen to wrap.)
AdvanceUnwrapped(e, n) ==
    LET x == e.cx + n
    IN  [e EXCEPT !.cx = x % Width, !.cy = @ + x \div Width]

Advance(e, n) ==
    LET x == e.cx + n
    IN  [e EXCEPT !.cx = x % Width, !.cy = @ + x \div Width,
                  !.screen = IF n > 0 /\ x % Width = 0 THEN Newline(@) ELSE @]

\* queue and writeLine.
Queue(e, chars) == [e EXCEPT !.screen = FoldLeft(Prints, @, chars)]
WriteLine(e, chars) == FoldLeft(LAMBDA f, c : Advance(Queue(f, <<c>>), 1), e, chars)

Spaces(n) == IF n > 0 THEN [i \in 1..n |-> " "] ELSE <<>>

\* move, by steps relative to the cursor of the screen.
Move(e, dx, dy) == [e EXCEPT !.screen.x = @ + dx, !.screen.y = @ + dy]

MoveCursorTo(e, pos) ==
    IF ~echo THEN e
    ELSE LET p == Len(Prompt) + pos
             x == p % Width
             y == p \div Width
         IN  [Move(e, x - e.cx, y - e.cy) EXCEPT !.cx = x, !.cy = y]

ToPos(e, pos) == MoveCursorTo([e EXCEPT !.pos = pos], pos)

SetLine(e, line, pos) ==
    LET drawn == MoveCursorTo(WriteLine(MoveCursorTo(e, 0),
                                        line \o Spaces(Len(e.line) - Len(line))), pos)
    IN  [(IF echo THEN drawn ELSE e) EXCEPT !.line = line, !.pos = pos]

Erase(e, n) ==
    LET back == ToPos(e, e.pos - n)
        cut  == [back EXCEPT !.line = SubSeq(@, 1, back.pos) \o SubSeq(@, e.pos + 1, Len(@))]
        rest == SubSeq(cut.line, cut.pos + 1, Len(cut.line))
    IN  IF n = 0 THEN e
        ELSE IF ~echo THEN cut
        ELSE MoveCursorTo(Advance(Queue(WriteLine(cut, rest), Spaces(n)), n), cut.pos)

AddKey(e, c) ==
    LET line == SubSeq(e.line, 1, e.pos) \o <<c>> \o SubSeq(e.line, e.pos + 1, Len(e.line))
        into == [e EXCEPT !.line = line]
        seen == IF echo THEN WriteLine(into, SubSeq(line, e.pos + 1, Len(line))) ELSE into
    IN  ToPos(seen, e.pos + 1)

\* countToLeftWord and countToRightWord: the words before and after the
\* cursor.  A space at the start of the line counts as part of its first word.
LeftWord(e) ==
    LET letters == {i \in 1..e.pos : e.line[i] # " "}
        last    == CHOOSE i \in letters : \A j \in letters : j <= i
        gaps    == {i \in 2..last : e.line[i] = " "}
    IN  IF letters = {} THEN e.pos
        ELSE IF gaps = {} THEN e.pos
        ELSE e.pos - (CHOOSE i \in gaps : \A j \in gaps : j <= i)

RightWord(e) ==
    LET gaps  == {i \in (e.pos + 1)..Len(e.line) : e.line[i] = " "}
        first == CHOOSE i \in gaps : \A j \in gaps : i <= j
        words == {i \in first..Len(e.line) : e.line[i] # " "}
    IN  IF gaps = {} \/ words = {} THEN Len(e.line) - e.pos
        ELSE (CHOOSE i \in words : \A j \in words : i <= j) - 1 - e.pos

-----------------------------------------------------------------------------
\* stRingBuffer.  (Mutant: the index does not wrap.)
RingAdd(r, line) ==
    LET head == (r.head + 1) % MaxHistory
    IN  [entries |-> [r.entries EXCEPT ![head] = line], head |-> head,
         size |-> IF r.size < MaxHistory THEN r.size + 1 ELSE r.size]

NthPrevious(r, n) == r.entries[IF r.head < n THEN r.head - n + MaxHistory ELSE r.head - n]

-----------------------------------------------------------------------------
Init ==
    /\ t = [line |-> <<>>, pos |-> 0, cx |-> 0, cy |-> 0, screen |-> NewScreen]
    /\ echo = TRUE /\ reading = "no" /\ paste = FALSE
    /\ ring = [entries |-> [i \in 0..(MaxHistory - 1) |-> <<>>], head |-> 0, size |-> 0]
    /\ index = -1 /\ pending = <<>> /\ entered = <<>>

\* ReadLine, and ReadPassword without echo: the prompt, unless it is there.
Read ==
    /\ reading = "no" /\ Len(entered) < MaxEntered
    /\ reading' = "yes"
    /\ echo' \in BOOLEAN
    /\ t' = IF t.cx = 0 /\ t.cy = 0 THEN WriteLine(t, Prompt) ELSE t
    /\ UNCHANGED <<paste, history>>

Handles(e) == reading = "yes" /\ t' = e /\ UNCHANGED <<echo, reading, paste, history>>

Type(c) ==
    /\ Len(t.line) < MaxLine    \* not tested during a paste, where it is a bound
    /\ Handles(AddKey(t, c))

Backspace == ~paste /\ t.pos > 0 /\ Handles(Erase(t, 1))
AltLeft   == ~paste /\ Handles(ToPos(t, t.pos - LeftWord(t)))
AltRight  == ~paste /\ Handles(ToPos(t, t.pos + RightWord(t)))
Left      == ~paste /\ t.pos > 0 /\ Handles(ToPos(t, t.pos - 1))
Right     == ~paste /\ t.pos < Len(t.line) /\ Handles(ToPos(t, t.pos + 1))
Home      == ~paste /\ t.pos > 0 /\ Handles(ToPos(t, 0))
End       == ~paste /\ t.pos < Len(t.line) /\ Handles(ToPos(t, Len(t.line)))
DeleteWord == ~paste /\ Handles(Erase(t, LeftWord(t)))
DeleteAll == ~paste /\ Handles(Erase(t, t.pos))
Delete    == ~paste /\ t.pos < Len(t.line) /\ Handles(Erase([t EXCEPT !.pos = @ + 1], 1))

\* It writes spaces even without echo, when only the bound on rows stops it.
DeleteLine ==
    /\ ~paste /\ t.cy < MaxRows - 2
    /\ LET blank == WriteLine(t, Spaces(Len(t.line) - t.pos))
       IN  Handles(MoveCursorTo([blank EXCEPT !.line = SubSeq(@, 1, t.pos)], t.pos))

ClearScreen ==
    /\ ~paste
    /\ LET prompt == Advance(Queue([t EXCEPT !.screen = NewScreen, !.cx = 0, !.cy = 0], Prompt),
                             Len(Prompt))
       IN  Handles(SetLine(prompt, t.line, t.pos))

Up ==
    /\ reading = "yes" /\ ~paste /\ index + 1 < ring.size
    /\ LET entry == NthPrevious(ring, index + 1)
       IN  t' = SetLine(t, entry, Len(entry))
    /\ pending' = IF index = -1 THEN t.line ELSE pending
    /\ index' = index + 1
    /\ UNCHANGED <<echo, reading, paste, ring, entered>>

Down ==
    /\ reading = "yes" /\ ~paste /\ index # -1
    /\ LET line == IF index = 0 THEN pending ELSE NthPrevious(ring, index - 1)
       IN  t' = SetLine(t, line, Len(line))
    /\ index' = index - 1
    /\ UNCHANGED <<echo, reading, paste, ring, pending, entered>>

\* The line is read; one without echo does not enter the history.
Enter ==
    /\ reading = "yes"
    /\ reading' = "no" /\ echo' = TRUE
    /\ t' = [line |-> <<>>, pos |-> 0, cx |-> 0, cy |-> 0, screen |-> NewScreen]
    /\ IF echo THEN /\ Len(t.line) <= MaxKept
                    /\ index' = -1 /\ ring' = RingAdd(ring, t.line)
                    /\ entered' = Append(entered, t.line)
       ELSE UNCHANGED <<ring, index, entered>>
    /\ UNCHANGED <<paste, pending>>

\* ^D on an empty line ends the reading, and the caller reads no more.
EndOfFile ==
    /\ reading = "yes" /\ ~paste /\ t.line = <<>>
    /\ reading' = "eof" /\ echo' = TRUE
    /\ UNCHANGED <<t, paste, history>>

Paste ==
    /\ reading = "yes" /\ paste' = ~paste
    /\ UNCHANGED <<t, echo, reading, history>>

\* Write: what is on the screen is cleared, the text is written, which ends
\* with a newline, and the prompt and the line are drawn again below it.
Cleared(s) == [ClearToRight(s) EXCEPT !.y = s.y - 1]
RowsCleared(e) ==
    LET row == Move(e, -e.cx, 0).screen
    IN  ClearToRight([FoldLeft(LAMBDA s, i : Cleared(s), row, Spaces(e.cy)) EXCEPT !.x = 0])

\* The text takes one row, which is off the rows that are counted.
Scrolled(s) ==
    [s EXCEPT !.cells = [p \in DOMAIN @ |-> IF p[1] + 1 < MaxRows THEN @[<<p[1] + 1, p[2]>>] ELSE " "]]

Write ==
    /\ t' = IF t.cx = 0 /\ t.cy = 0 THEN t
            ELSE LET fresh == [t EXCEPT !.screen = Scrolled(RowsCleared(t)), !.cx = 0, !.cy = 0]
                     again == WriteLine(fresh, Prompt \o (IF echo THEN t.line ELSE <<>>))
                 IN  MoveCursorTo(again, t.pos)
    /\ UNCHANGED <<echo, reading, paste, history>>

Next ==
    \/ Read \/ Enter \/ EndOfFile \/ Paste \/ Write \/ Up \/ Down
    \/ \E c \in Chars : Type(c)
    \/ Backspace \/ AltLeft \/ AltRight \/ Left \/ Right \/ Home \/ End
    \/ DeleteWord \/ DeleteAll \/ Delete \/ DeleteLine \/ ClearScreen

Spec == Init /\ [][Next]_vars

-----------------------------------------------------------------------------
\* While a line is read with echo, the screen shows the prompt and the line
\* and nothing else, and its cursor is where the next character will go,
\* whatever was typed, moved, erased and written in between, and wherever the
\* line wraps (the arithmetic of terminal.go:230-360).
ScreenTrue ==
    reading = "yes" /\ echo =>
        LET shown == Prompt \o t.line
            place == Len(Prompt) + t.pos
        IN  /\ \A p \in DOMAIN t.screen.cells :
                  LET i == p[1] * Width + p[2] + 1
                  IN  t.screen.cells[p] = IF i <= Len(shown) THEN shown[i] ELSE " "
            /\ t.screen.y * Width + t.screen.x = place
            /\ t.cx = t.screen.x /\ t.cy = t.screen.y

\* The history is the last lines that were read with echo, latest first
\* (terminal.go:879, "returns the value passed to the nth previous call to
\* Add"), and never one that was read without.
HistoryTrue ==
    \A n \in 0..(ring.size - 1) :
        /\ n < Len(entered)
        /\ NthPrevious(ring, n) = entered[Len(entered) - n]

\* The editor is true to its user and to its history.
EditorTrue == ScreenTrue /\ HistoryTrue

=============================================================================
