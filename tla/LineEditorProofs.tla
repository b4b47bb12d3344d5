-------------------------- MODULE LineEditorProofs --------------------------
(***************************************************************************)
(* Theorems about LineEditor, for every alphabet, command table and limit. *)
(* The inductive invariant is EditorInv.  What command_history computes is *)
(* derived from its recursive definition by the least-number principle.    *)
(***************************************************************************)
EXTENDS LineEditor, FiniteSetTheorems, SequenceTheorems, TLAPS

Symbols == Chars \cup {CancelMark, Output}
Lines == Seq(Symbols)
Histories == Seq(Lines)

Types ==
    /\ line \in Lines /\ current_line \in Lines
    /\ input_cursor \in Nat
    /\ history \in Histories /\ history_index \in Nat
    /\ disturbed \in BOOLEAN

EditorInv == Types /\ IndicesAreValid /\ ShownIsRun

------------------------------------------------------------------------------
(* command_history.                                                        *)

\* A set of naturals that is not empty has a least element.
LEMMA LeastElement ==
    ASSUME NEW S \in SUBSET Nat, NEW n \in S
    PROVE  \E m \in S : \A k \in S : m <= k
<1>1. PICK m \in S : \A k \in S : ~ (<<k, m>> \in OpToRel(<, Nat))
    BY NatLessThanWellFounded, WFMin
<1>2. \A k \in S : ~ (k < m)
    BY <1>1 DEF OpToRel
<1> QED  BY <1>2

\* A stretch of a sequence.
LEMMA SubSeqIs ==
    ASSUME NEW S, NEW s \in Seq(S), NEW m \in 1 .. Len(s) + 1, NEW n \in 0 .. Len(s)
    PROVE  /\ SubSeq(s, m, n) \in Seq(S)
           /\ Len(SubSeq(s, m, n)) = IF m <= n THEN n - m + 1 ELSE 0
           /\ \A i \in 1 .. n - m + 1 : SubSeq(s, m, n)[i] = s[m + i - 1]
<1>1. m \in Int /\ n \in Int /\ \A i \in m .. n : s[i] \in S
    OBVIOUS
<1> QED  BY <1>1, SubSeqProperties

\* f lists, for every n, the commands among the first n lines
Collects(f, lines) ==
    f = [n \in 0 .. Len(lines) |->
            IF n = 0 THEN <<>>
            ELSE IF IsCommand(lines[n]) THEN Append(f[n - 1], lines[n])
            ELSE f[n - 1]]

\* There is such a function for the empty history, and from one for a history
\* there is one for the next.
LEMMA CollectsNone ==
    ASSUME NEW lines \in Histories, Len(lines) = 0
    PROVE  \E f : Collects(f, lines)
<1> DEFINE f == [n \in 0 .. 0 |-> <<>>]
<1>1. Collects(f, lines)
    BY DEF Collects
<1> QED  BY <1>1

\* From one for all lines but the last there is one for all.
LEMMA CollectsOneMore ==
    ASSUME NEW lines \in Histories, Len(lines) # 0, NEW f,
           Collects(f, SubSeq(lines, 1, Len(lines) - 1))
    PROVE  \E g : Collects(g, lines)
<1> DEFINE m == Len(lines)
           front == SubSeq(lines, 1, m - 1)
           g == [n \in 0 .. m |->
                    IF n < m THEN f[n]
                    ELSE IF IsCommand(lines[m]) THEN Append(f[m - 1], lines[m])
                    ELSE f[m - 1]]
<1>1. m \in Nat \ {0}
    BY DEF Histories
<1>2. Len(front) = m - 1 /\ \A n \in 1 .. m - 1 : front[n] = lines[n]
    <2>1. lines \in Seq(Lines) /\ 1 \in 1 .. Len(lines) + 1 /\ m - 1 \in 0 .. Len(lines)
        BY <1>1 DEF Histories
    <2>2. /\ Len(front) = IF 1 <= m - 1 THEN (m - 1) - 1 + 1 ELSE 0
          /\ \A i \in 1 .. (m - 1) - 1 + 1 : front[i] = lines[1 + i - 1]
        BY <2>1, SubSeqIs
    <2> HIDE DEF front, m
    <2> QED  BY <1>1, <2>2
<1> HIDE DEF front, m
<1>3. \A n \in 0 .. m - 1 :
          f[n] = IF n = 0 THEN <<>>
                 ELSE IF IsCommand(lines[n]) THEN Append(f[n - 1], lines[n]) ELSE f[n - 1]
    <2>1. Collects(f, front) /\ Len(front) = m - 1
        BY <1>2 DEF front, m
    <2>2. \A n \in 0 .. m - 1 :
              f[n] = IF n = 0 THEN <<>>
                     ELSE IF IsCommand(front[n]) THEN Append(f[n - 1], front[n]) ELSE f[n - 1]
        BY <2>1 DEF Collects
    <2>3. \A n \in 0 .. m - 1 : n # 0 => front[n] = lines[n]
        BY <1>1, <1>2
    <2> QED  BY <2>2, <2>3
<1>4. \A n \in 0 .. m :
          g[n] = IF n = 0 THEN <<>>
                 ELSE IF IsCommand(lines[n]) THEN Append(g[n - 1], lines[n]) ELSE g[n - 1]
    BY <1>1, <1>3, SMTT(30)
<1>5. g = [n \in 0 .. m |->
              IF n = 0 THEN <<>>
              ELSE IF IsCommand(lines[n]) THEN Append(g[n - 1], lines[n]) ELSE g[n - 1]]
    BY <1>4, SMTT(30)
<1>6. Collects(g, lines)
    BY <1>5 DEF Collects, m
<1> QED  BY <1>6

\* So there is one for every history.
LEMMA CollectsExists ==
    ASSUME NEW lines \in Histories
    PROVE  \E f : Collects(f, lines)
<1> DEFINE S == {n \in Nat : \E h \in Histories : Len(h) = n /\ ~ \E f : Collects(f, h)}
<1>0. Len(lines) \in Nat
    BY DEF Histories
<1> SUFFICES ASSUME Len(lines) \in S PROVE FALSE
    BY <1>0
<1>1. PICK m \in S : \A k \in S : m <= k
    BY LeastElement
<1>2. PICK h \in Histories : Len(h) = m /\ ~ \E f : Collects(f, h)
    BY <1>1
<1>3. m # 0
    BY <1>2, CollectsNone
<1> DEFINE front == SubSeq(h, 1, m - 1)
<1>4. front \in Histories /\ Len(front) = m - 1 /\ m - 1 \in Nat
    BY <1>2, <1>3 DEF Histories
<1>5. m - 1 \notin S
    BY <1>1
<1>6. \E f : Collects(f, front)
    BY <1>4, <1>5
<1> QED  BY <1>2, <1>3, <1>6, CollectsOneMore

\* command_history is what such a function has at the end.
LEMMA CommandHistoryIs ==
    ASSUME NEW lines \in Histories
    PROVE  \E f : Collects(f, lines) /\ CommandHistory(lines) = f[Len(lines)]
<1> DEFINE f == CHOOSE f : Collects(f, lines)
<1>1. Collects(f, lines)
    BY CollectsExists
<1>2. CommandHistory(lines) = f[Len(lines)]
    BY DEF CommandHistory, Collects
<1> QED  BY <1>1, <1>2

\* It is a list of lines.
LEMMA CommandHistoryType ==
    ASSUME NEW lines \in Histories
    PROVE  CommandHistory(lines) \in Histories /\ Len(CommandHistory(lines)) \in Nat
<1>0. Len(lines) \in Nat /\ \A n \in 1 .. Len(lines) : lines[n] \in Lines
    BY DEF Histories
<1>1. PICK f : Collects(f, lines) /\ CommandHistory(lines) = f[Len(lines)]
    BY CommandHistoryIs
<1>2. \A n \in 0 .. Len(lines) :
          f[n] = IF n = 0 THEN <<>>
                 ELSE IF IsCommand(lines[n]) THEN Append(f[n - 1], lines[n]) ELSE f[n - 1]
    BY <1>1 DEF Collects
<1> DEFINE S == {n \in 0 .. Len(lines) : f[n] \notin Histories}
<1>3. S = {}
    <2> SUFFICES ASSUME NEW i \in S PROVE FALSE
        OBVIOUS
    <2>1. S \in SUBSET Nat
        BY <1>0
    <2>2. PICK m \in S : \A k \in S : m <= k
        BY <2>1, LeastElement
    <2>3. m \in 0 .. Len(lines) /\ f[m] \notin Histories
        BY <2>2
    <2>4. m # 0
        <3>1. <<>> \in Histories /\ (m = 0 => f[m] = <<>>)
            BY <1>2, <2>3, EmptySeq DEF Histories
        <3> QED  BY <2>3, <3>1
    <2>5. m - 1 \in 0 .. Len(lines) /\ ~ (m <= m - 1)
        BY <1>0, <2>3, <2>4
    <2>6. f[m - 1] \in Histories
        BY <2>2, <2>5
    <2>7. lines[m] \in Lines
        BY <1>0, <2>3, <2>4
    <2>8. Append(f[m - 1], lines[m]) \in Histories
        BY <2>6, <2>7 DEF Histories
    <2> QED  BY <1>2, <2>3, <2>4, <2>6, <2>8
<1>4. Len(lines) \in 0 .. Len(lines)
    BY <1>0
<1>5. CommandHistory(lines) \in Histories
    BY <1>1, <1>3, <1>4
<1> QED  BY <1>5 DEF Histories

\* A line more is at most a command more, and no command less.
LEMMA CommandHistoryGrows ==
    ASSUME NEW h \in Histories, NEW l \in Lines
    PROVE  /\ Append(h, l) \in Histories
           /\ CommandHistory(Append(h, l)) =
                  IF IsCommand(l) THEN Append(CommandHistory(h), l) ELSE CommandHistory(h)
           /\ Len(CommandHistory(h)) <= Len(CommandHistory(Append(h, l)))
<1> DEFINE new == Append(h, l)
<1>0. /\ Len(h) \in Nat /\ new \in Histories /\ Len(new) = Len(h) + 1
      /\ new[Len(h) + 1] = l /\ \A n \in 1 .. Len(h) : new[n] = h[n]
    BY DEF Histories
<1> HIDE DEF new
<1>1. PICK f : Collects(f, h) /\ CommandHistory(h) = f[Len(h)]
    BY CommandHistoryIs
<1>2. PICK g : Collects(g, new) /\ CommandHistory(new) = g[Len(new)]
    BY <1>0, CommandHistoryIs
<1>3. \A n \in 0 .. Len(h) :
          f[n] = IF n = 0 THEN <<>>
                 ELSE IF IsCommand(h[n]) THEN Append(f[n - 1], h[n]) ELSE f[n - 1]
    BY <1>1 DEF Collects
<1>4. \A n \in 0 .. Len(new) :
          g[n] = IF n = 0 THEN <<>>
                 ELSE IF IsCommand(new[n]) THEN Append(g[n - 1], new[n]) ELSE g[n - 1]
    BY <1>2 DEF Collects
<1> DEFINE S == {n \in 0 .. Len(h) : f[n] # g[n]}
<1>5. S = {}
    <2> SUFFICES ASSUME NEW i \in S PROVE FALSE
        OBVIOUS
    <2>1. S \in SUBSET Nat
        BY <1>0
    <2>2. PICK m \in S : \A k \in S : m <= k
        BY <2>1, LeastElement
    <2>3. m \in 0 .. Len(h) /\ f[m] # g[m]
        BY <2>2
    <2>4. m \in 0 .. Len(new)
        BY <1>0, <2>3
    <2>5. m # 0
        BY <1>3, <1>4, <2>3, <2>4
    <2>6. m - 1 \in 0 .. Len(h) /\ ~ (m <= m - 1) /\ m \in 1 .. Len(h)
        BY <1>0, <2>3, <2>5
    <2>7. f[m - 1] = g[m - 1]
        BY <2>2, <2>6
    <2>8. h[m] = new[m]
        BY <1>0, <2>6
    <2> QED  BY <1>3, <1>4, <2>3, <2>4, <2>5, <2>7, <2>8
<1>6. f[Len(h)] = g[Len(h)]
    <2>1. Len(h) \in 0 .. Len(h)
        BY <1>0
    <2> QED  BY <1>5, <2>1
<1>7. Len(new) \in 0 .. Len(new) /\ Len(new) # 0 /\ Len(new) - 1 = Len(h) /\ new[Len(new)] = l
    BY <1>0
<1>8. CommandHistory(new) =
          IF IsCommand(l) THEN Append(CommandHistory(h), l) ELSE CommandHistory(h)
    BY <1>1, <1>2, <1>4, <1>6, <1>7
<1>9. CommandHistory(h) \in Seq(Lines) /\ Len(CommandHistory(h)) \in Nat
    BY CommandHistoryType DEF Histories
<1>10. Len(CommandHistory(h)) <= Len(CommandHistory(new))
    <2>1. CASE IsCommand(l)
        <3>1. Len(Append(CommandHistory(h), l)) = Len(CommandHistory(h)) + 1
            BY <1>9
        <3> QED  BY <1>8, <1>9, <2>1, <3>1
    <2>2. CASE ~ IsCommand(l)
        BY <1>8, <1>9, <2>2
    <2> QED  BY <2>1, <2>2
<1> QED  BY <1>0, <1>8, <1>10 DEF new

\* trim_start_matches leaves a line.
LEMMA TrimmedType ==
    ASSUME NEW l \in Lines
    PROVE  Trimmed(l) \in Lines
<1>0. Len(l) \in Nat
    BY DEF Lines
<1> DEFINE P(n) == /\ \A j \in 1 .. n : l[j] = PromptChar
                   /\ n < Len(l) => l[n + 1] # PromptChar
           S == {n \in 0 .. Len(l) : n = Len(l) \/ l[n + 1] # PromptChar}
<1>1. S \in SUBSET Nat /\ Len(l) \in S
    BY <1>0
<1>2. PICK m \in S : \A k \in S : m <= k
    BY <1>1, LeastElement
<1>3. m \in 0 .. Len(l) /\ (m < Len(l) => l[m + 1] # PromptChar)
    BY <1>0, <1>2
<1>4. ASSUME NEW j \in 1 .. m PROVE l[j] = PromptChar
    <2>1. j - 1 \in 0 .. Len(l) /\ j - 1 # Len(l) /\ ~ (m <= j - 1) /\ (j - 1) + 1 = j
        BY <1>0, <1>3
    <2>2. j - 1 \notin S
        BY <1>2, <2>1
    <2> QED  BY <2>1, <2>2
<1>5. \E n \in 0 .. Len(l) : P(n)
    BY <1>3, <1>4
<1> DEFINE k == CHOOSE n \in 0 .. Len(l) : P(n)
<1>6. k \in 0 .. Len(l)
    BY <1>5
<1>7. Trimmed(l) = SubSeq(l, k + 1, Len(l))
    BY DEF Trimmed
<1> HIDE DEF k
<1>8. k + 1 \in 1 .. Len(l) + 1 /\ Len(l) \in 0 .. Len(l)
    BY <1>0, <1>6
<1> QED  BY <1>7, <1>8, SubSeqIs DEF Lines

------------------------------------------------------------------------------
(* The line and its cursor.                                                *)

\* The prompt and what stands after it.
LEMMA PromptIs ==
    ASSUME NEW text \in Lines
    PROVE  /\ PROMPT \in Lines /\ <<>> \in Lines /\ PROMPT # <<>>
           /\ PROMPT \o <<>> = PROMPT
           /\ PROMPT \o text \in Lines /\ Len(PROMPT \o text) = 1 + Len(text)
           /\ HasPrompt(PROMPT \o text) /\ Tail(PROMPT \o text) = text
           /\ HasPrompt(PROMPT) /\ Tail(PROMPT) = <<>> /\ ~ HasPrompt(<<>>)
<1>1. PromptChar \in Symbols
    BY EditorAssumption DEF Symbols
<1>2. PROMPT \in Seq(Symbols) /\ Len(PROMPT) = 1 /\ PROMPT[1] = PromptChar /\ PROMPT # <<>>
    BY <1>1 DEF PROMPT
<1>3. text \in Seq(Symbols) /\ Len(text) \in Nat
    BY DEF Lines
<1> DEFINE all == PROMPT \o text
<1>4. /\ all \in Seq(Symbols) /\ Len(all) = 1 + Len(text)
      /\ all[1] = PromptChar /\ \A n \in 1 .. Len(text) : all[1 + n] = text[n]
    <2>1. /\ all \in Seq(Symbols) /\ Len(all) = Len(PROMPT) + Len(text)
          /\ \A i \in 1 .. Len(PROMPT) + Len(text) :
                 all[i] = IF i <= Len(PROMPT) THEN PROMPT[i] ELSE text[i - Len(PROMPT)]
        BY <1>2, <1>3, ConcatProperties
    <2> HIDE DEF all
    <2>2. all \in Seq(Symbols) /\ Len(all) = 1 + Len(text)
        BY <1>2, <2>1
    <2>3. all[1] = PromptChar
        BY <1>2, <1>3, <2>1
    <2>4. ASSUME NEW n \in 1 .. Len(text) PROVE all[1 + n] = text[n]
        <3>1. 1 + n \in 1 .. Len(PROMPT) + Len(text) /\ ~ (1 + n <= 1) /\ (1 + n) - 1 = n
            BY <1>2, <1>3
        <3> QED  BY <1>2, <2>1, <3>1
    <2> QED  BY <2>2, <2>3, <2>4
<1> HIDE DEF all
<1>5. all # <<>> /\ HasPrompt(all)
    BY <1>3, <1>4 DEF HasPrompt
<1>6. Tail(all) = text
    <2>1. Tail(all) \in Seq(Symbols) /\ Len(Tail(all)) = Len(text)
        BY <1>3, <1>4, <1>5
    <2>2. \A n \in 1 .. Len(text) : Tail(all)[n] = text[n]
        BY <1>3, <1>4, <1>5
    <2> QED  BY <1>3, <2>1, <2>2, SeqEqual
<1>7. HasPrompt(PROMPT) /\ Tail(PROMPT) = <<>> /\ ~ HasPrompt(<<>>)
    BY <1>2 DEF HasPrompt, PROMPT
<1>8. PROMPT \o <<>> = PROMPT
    BY <1>2, ConcatEmptySeq
<1> QED  BY <1>2, <1>4, <1>5, <1>6, <1>7, <1>8, EmptySeq DEF Lines, all

\* The lengths of the two halves of a line and of the text typed between them.
LEMMA Regrouped ==
    ASSUME NEW a \in Int, NEW b \in Int, NEW c \in Int
    PROVE  (a + b) + (c - a) = c + b
OBVIOUS

\* insert_char_at adds what it inserts.
LEMMA InsertedAtIs ==
    ASSUME NEW text \in Lines, NEW cursor \in 0 .. Len(text), NEW s \in Lines
    PROVE  /\ InsertedAt(text, cursor, s) \in Lines
           /\ Len(InsertedAt(text, cursor, s)) = Len(text) + Len(s)
<1>0. Len(text) \in Nat /\ Len(s) \in Nat /\ text \in Seq(Symbols) /\ s \in Seq(Symbols)
    BY DEF Lines
<1> DEFINE left == SubSeq(text, 1, cursor)
           right == SubSeq(text, cursor + 1, Len(text))
<1>1. left \in Seq(Symbols) /\ Len(left) = cursor
    <2>1. 1 \in 1 .. Len(text) + 1 /\ cursor \in 0 .. Len(text)
        BY <1>0
    <2>2. left \in Seq(Symbols) /\ Len(left) = IF 1 <= cursor THEN cursor - 1 + 1 ELSE 0
        BY <1>0, <2>1, SubSeqIs
    <2> HIDE DEF left
    <2> QED  BY <1>0, <2>2
<1>2. right \in Seq(Symbols) /\ Len(right) = Len(text) - cursor
    <2>1. cursor + 1 \in 1 .. Len(text) + 1 /\ Len(text) \in 0 .. Len(text)
        BY <1>0
    <2>2. /\ right \in Seq(Symbols)
          /\ Len(right) = IF cursor + 1 <= Len(text) THEN Len(text) - (cursor + 1) + 1 ELSE 0
        BY <1>0, <2>1, SubSeqIs
    <2> HIDE DEF right
    <2> QED  BY <1>0, <2>2
<1> HIDE DEF left, right
<1> DEFINE front == left \o s
<1>3. front \in Seq(Symbols) /\ Len(front) = cursor + Len(s)
    <2>1. front \in Seq(Symbols) /\ Len(front) = Len(left) + Len(s)
        BY <1>0, <1>1, ConcatProperties
    <2> HIDE DEF front
    <2> QED  BY <1>1, <2>1
<1>5. InsertedAt(text, cursor, s) = front \o right
    BY DEF InsertedAt, left, right
<1> HIDE DEF front
<1>4. /\ front \o right \in Seq(Symbols)
      /\ Len(front \o right) = (cursor + Len(s)) + (Len(text) - cursor)
    <2>1. front \o right \in Seq(Symbols) /\ Len(front \o right) = Len(front) + Len(right)
        BY <1>2, <1>3, ConcatProperties
    <2> QED  BY <1>2, <1>3, <2>1
<1>6. (cursor + Len(s)) + (Len(text) - cursor) = Len(text) + Len(s)
    <2>1. Len(text) \in Int /\ Len(s) \in Int /\ cursor \in Int
        BY <1>0
    <2> QED  BY <2>1, Regrouped, ZenonT(40)
<1> QED  BY <1>4, <1>5, <1>6 DEF Lines

\* remove_char_at removes one character.
LEMMA RemovedAtIs ==
    ASSUME NEW text \in Lines, NEW cursor \in 1 .. Len(text)
    PROVE  /\ RemovedAt(text, cursor) \in Lines
           /\ Len(RemovedAt(text, cursor)) = Len(text) - 1
<1>0. Len(text) \in Nat /\ text \in Seq(Symbols)
    BY DEF Lines
<1> DEFINE left == SubSeq(text, 1, cursor - 1)
           right == SubSeq(text, cursor + 1, Len(text))
<1>1. left \in Seq(Symbols) /\ Len(left) = cursor - 1
    <2>1. 1 \in 1 .. Len(text) + 1 /\ cursor - 1 \in 0 .. Len(text)
        BY <1>0
    <2>2. /\ left \in Seq(Symbols)
          /\ Len(left) = IF 1 <= cursor - 1 THEN (cursor - 1) - 1 + 1 ELSE 0
        BY <1>0, <2>1, SubSeqIs
    <2> HIDE DEF left
    <2> QED  BY <1>0, <2>2
<1>2. right \in Seq(Symbols) /\ Len(right) = Len(text) - cursor
    <2>1. cursor + 1 \in 1 .. Len(text) + 1 /\ Len(text) \in 0 .. Len(text)
        BY <1>0
    <2>2. /\ right \in Seq(Symbols)
          /\ Len(right) = IF cursor + 1 <= Len(text) THEN Len(text) - (cursor + 1) + 1 ELSE 0
        BY <1>0, <2>1, SubSeqIs
    <2> HIDE DEF right
    <2> QED  BY <1>0, <2>2
<1> HIDE DEF left, right
<1>3. left \o right \in Seq(Symbols) /\ Len(left \o right) = (cursor - 1) + (Len(text) - cursor)
    BY <1>1, <1>2
<1>4. RemovedAt(text, cursor) = left \o right
    BY DEF RemovedAt, left, right
<1>5. (cursor - 1) + (Len(text) - cursor) = Len(text) - 1
    BY <1>0
<1> QED  BY <1>3, <1>4, <1>5 DEF Lines

------------------------------------------------------------------------------
(* Every key keeps the invariant.                                          *)

\* A row redrawn from the line, with a cursor inside it and the history as
\* it was, is sound.
LEMMA RedrawKeeps ==
    ASSUME EditorInv, NEW cursor \in 0 .. Len(line'), line' \in Lines,
           Redraw(line', cursor), disturbed' = FALSE,
           history' = history, history_index' = history_index
    PROVE  EditorInv'
<1>1. PROMPT \o line' \in Lines /\ Len(line') \in Nat
    BY PromptIs DEF Lines
<1>2. Types'
    <2>1. history \in Histories /\ history_index \in Nat
        BY DEF EditorInv, Types
    <2>2. current_line' \in Lines /\ input_cursor' \in Nat
        BY <1>1 DEF Redraw
    <2> QED  BY <2>1, <2>2 DEF Types
<1>3. IndicesAreValid'
    BY DEF EditorInv, IndicesAreValid, Redraw
<1>4. ShownIsRun'
    BY DEF ShownIsRun, Redraw
<1> QED  BY <1>2, <1>3, <1>4 DEF EditorInv

\* insert_char, for typed and for completed text.
LEMMA TypeTextKeeps ==
    ASSUME EditorInv, NEW s \in Lines, TypeText(s)
    PROVE  EditorInv'
<1> DEFINE cursor == Lower(input_cursor, Len(line))
           room == MAX_INPUT_CHARS - Len(line)
           n == Lower(Len(s), room)
           taken == SubSeq(s, 1, n)
<1>1. /\ line \in Lines /\ Len(line) \in Nat /\ Len(s) \in Nat
      /\ input_cursor \in 0 .. Len(line) /\ MAX_INPUT_CHARS \in Nat
    BY EditorAssumption DEF EditorInv, Types, IndicesAreValid, Lines
<1>2. cursor = input_cursor /\ cursor \in 0 .. Len(line)
    BY <1>1 DEF Lower
<1>3. Len(line) < MAX_INPUT_CHARS
    BY DEF TypeText
<1>4. n \in 0 .. Len(s)
    BY <1>1, <1>3 DEF Lower
<1>5. taken \in Lines /\ Len(taken) \in Nat
    <2>1. 1 \in 1 .. Len(s) + 1
        BY <1>1
    <2> HIDE DEF n
    <2>2. taken \in Seq(Symbols)
        BY <1>4, <2>1, SubSeqIs DEF Lines
    <2> QED  BY <2>2 DEF Lines
<1>6. /\ line' = InsertedAt(line, cursor, taken)
      /\ Redraw(line', cursor + Len(taken)) /\ disturbed' = FALSE
      /\ history' = history /\ history_index' = history_index
    BY DEF TypeText
<1> HIDE DEF cursor, taken
<1>7. line' \in Lines /\ Len(line') = Len(line) + Len(taken)
    BY <1>1, <1>2, <1>5, <1>6, InsertedAtIs
<1>8. cursor + Len(taken) \in 0 .. Len(line')
    BY <1>1, <1>2, <1>5, <1>7
<1> QED  BY <1>6, <1>7, <1>8, RedrawKeeps

\* A character key.
LEMMA TypeKeeps ==
    ASSUME EditorInv, NEW c \in Chars, Type(c)
    PROVE  EditorInv'
<1>1. <<c>> \in Lines
    BY DEF Lines, Symbols
<1> QED  BY <1>1, TypeTextKeeps DEF Type

\* complete_command appends the rest of a name that starts with the line.
LEMMA TabKeeps ==
    ASSUME EditorInv, Tab
    PROVE  EditorInv'
<1>1. PICK c \in Completions(line) : TypeText(SubSeq(c, Len(line) + 1, Len(c)))
    BY DEF Tab
<1> DEFINE rest == SubSeq(c, Len(line) + 1, Len(c))
<1>2. c \in Seq(Chars) /\ Chars \subseteq Symbols
    BY EditorAssumption DEF Completions, Symbols
<1>3. c \in Seq(Symbols) /\ Len(c) \in Nat /\ Len(line) \in Nat
    BY <1>2 DEF EditorInv, Types, Lines
<1>4. rest \in Lines
    <2>1. \A i \in Len(line) + 1 .. Len(c) : c[i] \in Symbols
        BY <1>3
    <2>2. Len(line) + 1 \in Int /\ Len(c) \in Int
        BY <1>3
    <2> QED  BY <1>3, <2>1, <2>2, SubSeqProperties DEF Lines
<1> QED  BY <1>1, <1>4, TypeTextKeeps

\* Backspace moves the cursor with the text before it.
LEMMA BackspaceKeeps ==
    ASSUME EditorInv, Backspace
    PROVE  EditorInv'
<1> DEFINE cursor == Lower(input_cursor, Len(line))
<1>1. line \in Lines /\ Len(line) \in Nat /\ input_cursor \in 0 .. Len(line)
    BY DEF EditorInv, Types, IndicesAreValid, Lines
<1>2. cursor \in 1 .. Len(line)
    BY <1>1 DEF Backspace, Lower
<1>3. /\ line' = RemovedAt(line, cursor)
      /\ Redraw(line', cursor - 1) /\ disturbed' = FALSE
      /\ history' = history /\ history_index' = history_index
    BY DEF Backspace
<1> HIDE DEF cursor
<1>4. line' \in Lines /\ Len(line') = Len(line) - 1
    BY <1>1, <1>2, <1>3, RemovedAtIs
<1>5. cursor - 1 \in 0 .. Len(line')
    BY <1>1, <1>2, <1>4
<1> QED  BY <1>3, <1>4, <1>5, RedrawKeeps

\* A fresh prompt under a history in which the index still names a command.
LEMMA FreshPromptKeeps ==
    ASSUME EditorInv, Prompt, input_cursor' = 0,
           history' \in Histories, history_index' \in Nat,
           history_index' <= Len(CommandHistory(history'))
    PROVE  EditorInv'
<1>1. /\ PROMPT \in Lines /\ <<>> \in Lines /\ PROMPT \o <<>> = PROMPT
      /\ Len(<<>>) = 0
    BY PromptIs, EmptySeq DEF Lines
<1>2. line' = <<>> /\ current_line' = PROMPT /\ disturbed' = FALSE
    BY DEF Prompt
<1>3. Types'
    BY <1>1, <1>2 DEF Types
<1>4. IndicesAreValid'
    BY <1>1, <1>2 DEF IndicesAreValid
<1>5. ShownIsRun'
    BY <1>1, <1>2 DEF ShownIsRun
<1> QED  BY <1>3, <1>4, <1>5 DEF EditorInv

\* Ending the row loses no command.
LEMMA FlushedIs ==
    ASSUME EditorInv, NEW tail \in Lines
    PROVE  /\ Flushed(tail) \in Histories
           /\ history_index \in Nat
           /\ history_index <= Len(CommandHistory(Flushed(tail)))
<1>1. /\ history \in Histories /\ current_line \in Seq(Symbols) /\ tail \in Seq(Symbols)
      /\ history_index \in Nat /\ history_index <= Len(CommandHistory(history))
    BY DEF EditorInv, Types, IndicesAreValid, Lines
<1> DEFINE row == current_line \o tail
<1>2. row \in Lines
    BY <1>1 DEF Lines
<1> HIDE DEF row
<1>3. /\ Append(history, row) \in Histories
      /\ Len(CommandHistory(history)) <= Len(CommandHistory(Append(history, row)))
    BY <1>1, <1>2, CommandHistoryGrows
<1>4. Len(CommandHistory(history)) \in Nat /\ Len(CommandHistory(Append(history, row))) \in Nat
    BY <1>1, <1>3, CommandHistoryType
<1>5. history_index <= Len(CommandHistory(Append(history, row)))
    BY <1>1, <1>3, <1>4
<1>6. Flushed(tail) = Append(history, row)
    BY DEF Flushed, row
<1> QED  BY <1>1, <1>3, <1>5, <1>6

\* Nor does a line printed after it.
LEMMA ReplyIs ==
    ASSUME NEW h \in Histories, NEW reply \in Replies
    PROVE  /\ h \o reply \in Histories
           /\ Len(CommandHistory(h)) <= Len(CommandHistory(h \o reply))
<1>0. h \in Seq(Lines) /\ Len(CommandHistory(h)) \in Nat
    BY CommandHistoryType DEF Histories
<1>1. CASE reply = <<>>
    <2>1. h \o reply = h
        BY <1>0, <1>1, ConcatEmptySeq
    <2> QED  BY <1>0, <2>1
<1>2. ASSUME NEW l \in Lines, reply = <<l>>
      PROVE  /\ h \o reply \in Histories
             /\ Len(CommandHistory(h)) <= Len(CommandHistory(h \o reply))
    <2>1. h \o reply = Append(h, l)
        BY <1>0, <1>2, AppendIsConcat
    <2> QED  BY <2>1, CommandHistoryGrows
<1>3. <<Output>> \in Lines /\ <<PromptChar, Output>> \in Lines
    BY EditorAssumption DEF Lines, Symbols
<1> QED  BY <1>1, <1>2, <1>3 DEF Replies

\* Enter: the row, the reply and a fresh prompt.
LEMMA EnterKeeps ==
    ASSUME EditorInv, NEW reply \in Replies, Enter(reply)
    PROVE  EditorInv'
<1> DEFINE h == Flushed(<<>>)
<1>0. <<>> \in Lines
    BY EmptySeq DEF Lines
<1>1. h \in Histories /\ history_index \in Nat /\ history_index <= Len(CommandHistory(h))
    BY <1>0, FlushedIs
<1>2. /\ history' = h \o reply /\ Prompt /\ input_cursor' = 0
      /\ history_index' = history_index
    BY DEF Enter
<1> HIDE DEF h
<1>3. /\ h \o reply \in Histories
      /\ Len(CommandHistory(h)) <= Len(CommandHistory(h \o reply))
    BY <1>1, ReplyIs
<1>4. Len(CommandHistory(h)) \in Nat /\ Len(CommandHistory(h \o reply)) \in Nat
    BY <1>1, <1>3, CommandHistoryType
<1>5. history_index <= Len(CommandHistory(h \o reply))
    BY <1>1, <1>3, <1>4
<1> QED  BY <1>1, <1>2, <1>3, <1>5, FreshPromptKeeps

\* clear and Ctrl+L forget the index with the screen.
LEMMA ResetKeeps ==
    ASSUME EditorInv, NEW lines \in Histories, Reset(lines), Prompt
    PROVE  EditorInv'
<1>1. history' = lines /\ input_cursor' = 0 /\ history_index' = 0
    BY DEF Reset
<1>2. Len(CommandHistory(lines)) \in Nat
    BY CommandHistoryType
<1>3. history_index' \in Nat /\ history_index' <= Len(CommandHistory(history'))
    BY <1>1, <1>2
<1> QED  BY <1>1, <1>3, FreshPromptKeeps

\* Ctrl+C ends the row with its mark.
LEMMA CtrlCKeeps ==
    ASSUME EditorInv, CtrlC
    PROVE  EditorInv'
<1>1. <<CancelMark>> \in Lines
    BY DEF Lines, Symbols
<1>2. /\ history' = Flushed(<<CancelMark>>) /\ Prompt /\ input_cursor' = 0
      /\ history_index' = history_index
    BY DEF CtrlC
<1> QED  BY <1>1, <1>2, FlushedIs, FreshPromptKeeps

\* Zooming redraws the row from the line.
LEMMA ZoomKeeps ==
    ASSUME EditorInv, Zoom
    PROVE  EditorInv'
<1>1. line \in Lines /\ input_cursor \in 0 .. Len(line)
    BY DEF EditorInv, Types, IndicesAreValid
<1>2. /\ line' = line /\ Redraw(line', input_cursor) /\ disturbed' = FALSE
      /\ history' = history /\ history_index' = history_index
    BY DEF Zoom, Redraw
<1> QED  BY <1>1, <1>2, RedrawKeeps

\* A cursor movement redraws what the row shows.  Undisturbed it is the line;
\* otherwise nothing is shown, and the cursor must stay inside the line.
LEMMA RedrawCurrentKeeps ==
    ASSUME EditorInv, NEW cursor \in 0 .. Len(line), RedrawCurrent(cursor),
           UNCHANGED <<line, history, history_index, disturbed>>
    PROVE  EditorInv'
<1>1. line \in Lines /\ Len(line) \in Nat /\ disturbed \in BOOLEAN
    BY DEF EditorInv, Types, Lines
<1>2. CASE ~ disturbed
    <2>1. current_line = PROMPT \o line
        BY <1>2 DEF EditorInv, ShownIsRun
    <2>2. HasPrompt(current_line) /\ Tail(current_line) = line
        BY <1>1, <2>1, PromptIs
    <2>3. line' = line /\ Redraw(line', cursor) /\ disturbed' = FALSE
        BY <1>1, <1>2, <2>2 DEF RedrawCurrent
    <2> QED  BY <1>1, <2>3, RedrawKeeps
<1>3. CASE disturbed
    <2>1. /\ ~ HasPrompt(<<>>) /\ HasPrompt(PROMPT) /\ Tail(PROMPT) = <<>>
          /\ PROMPT \o <<>> = PROMPT /\ PROMPT \in Lines
        BY <1>1, PromptIs
    <2>2. current_line = <<>> \/ current_line = PROMPT
        BY <1>3 DEF EditorInv, ShownIsRun
    <2>3. current_line' = PROMPT /\ input_cursor' = cursor
        BY <2>1, <2>2 DEF RedrawCurrent, Redraw
    <2>4. cursor \in Nat
        BY <1>1
    <2>5. Types'
        <3>1. history \in Histories /\ history_index \in Nat
            BY DEF EditorInv, Types
        <3> QED  BY <1>1, <2>1, <2>3, <2>4, <3>1 DEF Types
    <2>6. IndicesAreValid'
        BY <2>3 DEF EditorInv, IndicesAreValid
    <2>7. ShownIsRun'
        BY <1>3, <2>3 DEF ShownIsRun
    <2> QED  BY <2>5, <2>6, <2>7 DEF EditorInv
<1> QED  BY <1>1, <1>2, <1>3

\* The cursor moves right over what the row shows, which is never more than
\* the line.
LEMMA ArrowRightKeeps ==
    ASSUME EditorInv, ArrowRight
    PROVE  EditorInv'
<1> DEFINE length == IF current_line = <<>> THEN 0 ELSE Len(current_line) - 1
<1>1. /\ line \in Lines /\ Len(line) \in Nat /\ disturbed \in BOOLEAN
      /\ input_cursor \in 0 .. Len(line)
    BY DEF EditorInv, Types, IndicesAreValid, Lines
<1>2. length \in 0 .. Len(line)
    <2>1. CASE ~ disturbed
        <3>1. current_line = PROMPT \o line
            BY <2>1 DEF EditorInv, ShownIsRun
        <3>2. Len(current_line) = 1 + Len(line)
            BY <1>1, <3>1, PromptIs
        <3> QED  BY <1>1, <3>2
    <2>2. CASE disturbed
        <3>1. current_line = <<>> \/ current_line = PROMPT
            BY <2>2 DEF EditorInv, ShownIsRun
        <3>2. Len(PROMPT) - 1 = 0
            BY DEF PROMPT
        <3>3. length = 0
            BY <3>1, <3>2
        <3> HIDE DEF length
        <3> QED  BY <1>1, <3>3
    <2> QED  BY <1>1, <2>1, <2>2
<1>3. RedrawCurrent(MoveCursorRight(input_cursor, length))
    BY DEF ArrowRight
<1> HIDE DEF length
<1>4. MoveCursorRight(input_cursor, length) \in 0 .. Len(line)
    BY <1>1, <1>2 DEF MoveCursorRight, Lower
<1>5. UNCHANGED <<line, history, history_index, disturbed>>
    BY DEF ArrowRight
<1> QED  BY <1>3, <1>4, <1>5, RedrawCurrentKeeps

\* The cursor moves left.
LEMMA ArrowLeftKeeps ==
    ASSUME EditorInv, ArrowLeft
    PROVE  EditorInv'
<1>1. Len(line) \in Nat /\ input_cursor \in 0 .. Len(line)
    BY DEF EditorInv, Types, IndicesAreValid, Lines
<1>2. MoveCursorLeft(input_cursor) \in 0 .. Len(line)
    BY <1>1 DEF MoveCursorLeft
<1> QED  BY <1>2, RedrawCurrentKeeps DEF ArrowLeft

\* Recalling a command, or nothing.
LEMMA RecallKeeps ==
    ASSUME EditorInv, NEW text \in Lines,
           NEW index \in 0 .. Len(CommandHistory(history)), Recall(index, text)
    PROVE  EditorInv'
<1>1. history \in Histories /\ Len(text) \in Nat
    BY DEF EditorInv, Types, Lines
<1>2. Len(CommandHistory(history)) \in Nat
    BY <1>1, CommandHistoryType
<1>3. /\ history_index' = index /\ line' = text /\ current_line' = PROMPT \o text
      /\ input_cursor' = Len(text) /\ disturbed' = FALSE /\ history' = history
    BY DEF Recall, Redraw
<1>4. PROMPT \o text \in Lines
    BY PromptIs
<1>5. index \in Nat /\ index <= Len(CommandHistory(history))
    BY <1>2
<1>6. Types'
    BY <1>1, <1>3, <1>4, <1>5 DEF Types
<1>7. IndicesAreValid'
    BY <1>1, <1>3, <1>5 DEF IndicesAreValid
<1>8. ShownIsRun'
    BY <1>3 DEF ShownIsRun
<1> QED  BY <1>6, <1>7, <1>8 DEF EditorInv

\* Arrow up recalls the last command or the one before.
LEMMA ArrowUpKeeps ==
    ASSUME EditorInv, ArrowUp
    PROVE  EditorInv'
<1> DEFINE commands == CommandHistory(history)
           index == IF history_index = 0 THEN Len(commands)
                    ELSE IF history_index = 1 THEN 1 ELSE history_index - 1
<1>1. history_index \in Nat /\ history_index <= Len(commands) /\ history \in Histories
    BY DEF EditorInv, Types, IndicesAreValid
<1>2. commands \in Seq(Lines) /\ Len(commands) \in Nat
    BY <1>1, CommandHistoryType DEF Histories
<1>3. commands # <<>> /\ Recall(index, Trimmed(commands[index]))
    BY DEF ArrowUp
<1> HIDE DEF commands
<1>4. Len(commands) # 0
    BY <1>2, <1>3, EmptySeq
<1>5. index \in 1 .. Len(commands)
    BY <1>1, <1>2, <1>4
<1> HIDE DEF index
<1>6. index \in 0 .. Len(commands) /\ commands[index] \in Lines
    BY <1>2, <1>5
<1>7. Trimmed(commands[index]) \in Lines
    BY <1>6, TrimmedType
<1> QED  BY <1>3, <1>6, <1>7, RecallKeeps DEF commands

\* Arrow down recalls the next command, or nothing after the last.
LEMMA ArrowDownKeeps ==
    ASSUME EditorInv, ArrowDown
    PROVE  EditorInv'
<1> DEFINE commands == CommandHistory(history)
<1>1. history_index \in Nat /\ history_index <= Len(commands) /\ history \in Histories
    BY DEF EditorInv, Types, IndicesAreValid
<1>2. commands \in Seq(Lines) /\ Len(commands) \in Nat
    BY <1>1, CommandHistoryType DEF Histories
<1>3. IF history_index < Len(commands)
      THEN Recall(history_index + 1, Trimmed(commands[history_index + 1]))
      ELSE Recall(0, <<>>)
    BY DEF ArrowDown
<1> HIDE DEF commands
<1>4. CASE history_index < Len(commands)
    <2> DEFINE index == history_index + 1
    <2>1. index \in 1 .. Len(commands) /\ index \in 0 .. Len(commands)
        BY <1>1, <1>2, <1>4
    <2>2. Recall(index, Trimmed(commands[index]))
        BY <1>3, <1>4
    <2> HIDE DEF index
    <2>3. Trimmed(commands[index]) \in Lines
        BY <1>2, <2>1, TrimmedType
    <2> QED  BY <2>1, <2>2, <2>3, RecallKeeps DEF commands
<1>5. CASE ~ (history_index < Len(commands))
    <2>1. Recall(0, <<>>) /\ <<>> \in Lines
        BY <1>3, <1>5, EmptySeq DEF Lines
    <2>2. 0 \in 0 .. Len(commands)
        BY <1>2
    <2> QED  BY <2>1, <2>2, RecallKeeps DEF commands
<1> QED  BY <1>4, <1>5

\* A line printed between two keys takes the row, and leaves line and index.
LEMMA BackgroundKeeps ==
    ASSUME EditorInv, Background
    PROVE  EditorInv'
<1>1. <<Output>> \in Lines /\ <<>> \in Lines
    BY EmptySeq DEF Lines, Symbols
<1>2. /\ history' = Flushed(<<Output>>) /\ current_line' = <<>> /\ disturbed' = TRUE
      /\ line' = line /\ input_cursor' = input_cursor /\ history_index' = history_index
    BY DEF Background
<1>3. /\ history' \in Histories /\ history_index' \in Nat
      /\ history_index' <= Len(CommandHistory(history'))
    BY <1>1, <1>2, FlushedIs
<1>4. Types'
    BY <1>1, <1>2, <1>3 DEF EditorInv, Types
<1>5. IndicesAreValid'
    BY <1>2, <1>3 DEF EditorInv, IndicesAreValid
<1>6. ShownIsRun'
    BY <1>2 DEF ShownIsRun
<1> QED  BY <1>4, <1>5, <1>6 DEF EditorInv

------------------------------------------------------------------------------
(* The theorems.                                                           *)

\* The invariant holds at the first prompt.
LEMMA EditorInvInit == Init => EditorInv
<1> SUFFICES ASSUME Init PROVE EditorInv
    OBVIOUS
<1>1. /\ PROMPT \in Lines /\ <<>> \in Lines /\ PROMPT \o <<>> = PROMPT
      /\ Len(<<>>) = 0 /\ <<>> \in Histories
    BY PromptIs, EmptySeq DEF Lines, Histories
<1>2. Len(CommandHistory(<<>>)) \in Nat
    BY <1>1, CommandHistoryType
<1>3. Types
    BY <1>1 DEF Init, Types
<1>4. IndicesAreValid
    BY <1>1, <1>2 DEF Init, IndicesAreValid
<1>5. ShownIsRun
    BY <1>1 DEF Init, ShownIsRun
<1> QED  BY <1>3, <1>4, <1>5 DEF EditorInv

\* Every key keeps it.
LEMMA EditorInvNext == EditorInv /\ [Next]_vars => EditorInv'
<1> SUFFICES ASSUME EditorInv, [Next]_vars PROVE EditorInv'
    OBVIOUS
<1>1. CASE UNCHANGED vars
    BY <1>1 DEF vars, EditorInv, Types, IndicesAreValid, ShownIsRun
<1>2. ASSUME NEW c \in Chars, Type(c) PROVE EditorInv'
    BY <1>2, TypeKeeps
<1>3. CASE Tab
    BY <1>3, TabKeeps
<1>4. CASE Backspace
    BY <1>4, BackspaceKeeps
<1>5. ASSUME NEW reply \in Replies, Enter(reply) PROVE EditorInv'
    BY <1>5, EnterKeeps
<1>6. CASE EnterClear
    <2>1. <<>> \in Lines
        BY EmptySeq DEF Lines
    <2> QED  BY <1>6, <2>1, FlushedIs, ResetKeeps DEF EnterClear
<1>7. CASE CtrlC
    BY <1>7, CtrlCKeeps
<1>8. CASE CtrlL
    <2>1. history \in Histories
        BY DEF EditorInv, Types
    <2> QED  BY <1>8, <2>1, ResetKeeps DEF CtrlL
<1>9. CASE Zoom
    BY <1>9, ZoomKeeps
<1>10. CASE ArrowRight
    BY <1>10, ArrowRightKeeps
<1>11. CASE ArrowLeft
    BY <1>11, ArrowLeftKeeps
<1>12. CASE ArrowUp
    BY <1>12, ArrowUpKeeps
<1>13. CASE ArrowDown
    BY <1>13, ArrowDownKeeps
<1>14. CASE Background
    BY <1>14, BackgroundKeeps
<1> QED  BY <1>1, <1>2, <1>3, <1>4, <1>5, <1>6, <1>7, <1>8, <1>9, <1>10, <1>11,
            <1>12, <1>13, <1>14 DEF Next

\* So it holds always.
LEMMA EditorInvAlways == Spec => []EditorInv
<1> QED  BY EditorInvInit, EditorInvNext, PTL DEF Spec

\* The cursor that the console moves over the row it shows is always a place
\* in the shell's line, so String::insert and remove never panic, and the
\* recall index names a command whatever was printed, cancelled or cleared
\* since it was set (shell/mod.rs, console/mod.rs).
THEOREM IndicesStayValid == Spec => []IndicesAreValid
<1>1. EditorInv => IndicesAreValid
    BY DEF EditorInv
<1> QED  BY <1>1, EditorInvAlways, PTL

\* Enter runs what the row shows: the shell's line and the console's copy of
\* it agree after every key, unless something was printed into the row, and
\* then the row is empty or a bare prompt (shell/mod.rs, console/mod.rs).
THEOREM ShownTextIsRun == Spec => []ShownIsRun
<1>1. EditorInv => ShownIsRun
    BY DEF EditorInv
<1> QED  BY <1>1, EditorInvAlways, PTL

==============================================================================
