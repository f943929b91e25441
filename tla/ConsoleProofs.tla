---------------------------- MODULE ConsoleProofs ----------------------------
(* The properties of the console hold for any number of threads, any screen   *)
(* and any number of keys and clears.  Everything rests on one fact: of the   *)
(* threads inside terminal_write_char there is only one, while the keyboard's *)
(* handler and terminal_reset come in anywhere.                               *)
EXTENDS Console, TLAPS

(* A thread inside printf owns terminal_lock. *)
TerminalOwned == \A t \in Threads : pc[t] \in Printing => terminal_lock = t

(* Only a character is echoed. *)
EchoHasChar == \A t \in Threads : pc[t] = "echo" => c[t] # NoChar

Control == TypeOK /\ TerminalOwned /\ EchoHasChar

(* The character in the buffer is newer than any that was returned. *)
BufferIsNew == character_buf # NoChar => \A t \in Threads : got[t] < character_buf.n

KeyInv == KeysInOrder /\ BufferIsNew

(* ReaderIsWoken for a reader that has decided to sleep. *)
SleeperIsLate ==
    \A t \in Threads : pc[t] = "tosleep" /\ character_buf # NoChar => irq = "wakeup" \/ late[t]

WakeInv == ReaderIsWoken /\ SleeperIsLate

(* What the thread inside printf has tested or loaded still holds. *)
LocationTested ==
    \A t \in Threads : pc[t] \in {"put", "put_last", "load_next", "load_last"} => buffer_write_location < Size

RegisterSane ==
    ~ cleared => \A t \in Threads :
        /\ pc[t] = "load_back" => buffer_write_location > 0
        /\ pc[t] = "back" => reg[t] \in 1 .. Size
        /\ pc[t] \in {"endline", "printed"} => reg[t] <= Size
        /\ pc[t] \in {"next", "last"} => reg[t] < Size

OffScreen == \E t \in Threads : pc[t] \in {"test_endline", "scroll_line"}

LocationSane == buffer_write_location > Size => cleared \/ OffScreen

TermInv == LocationTested /\ RegisterSane /\ LocationSane

-----------------------------------------------------------------------------
(* Arithmetic of 32-bit locations *)

LEMMA ModBound == \A a \in Int : a % WORD \in 0 .. WORD - 1
BY ConsoleAssumption

LEMMA ModSmall == \A a \in 0 .. WORD - 1 : a % WORD = a
BY ConsoleAssumption

LEMMA RowStart == \A a \in Nat : a % Row \in 0 .. Row - 1
BY ConsoleAssumption

-----------------------------------------------------------------------------
(* What a step of printf may do *)

LEMMA PrintfFrame ==
    ASSUME Control, NEW t \in Threads, printf(t)
    PROVE  /\ pc[t] \in Printing \cup {"echo"}
           /\ \E label \in Printing \cup {"user"} : pc' = [pc EXCEPT ![t] = label]
           /\ c' = c \/ c' = [c EXCEPT ![t] = NoChar]
           /\ UNCHANGED termRest
<1>1. CASE LockTerminal(t)
  <2>1. c[t].char \in Chars
    BY <1>1 DEF LockTerminal, Control, TypeOK, EchoHasChar
  <2> QED BY <1>1, <2>1 DEF LockTerminal, Goto, Printing
<1>2. CASE ~ LockTerminal(t)
  BY <1>2, printf(t) DEF printf, Load, Store, LoadAgain, Endline, TestEndline, TestBackspace, Backspace, TestFull,
     terminal_scroll_down, Put, Advance, Printed, UnlockTerminal, Goto, Printing, Chars, termVars
<1> QED BY <1>1, <1>2

-----------------------------------------------------------------------------
(* Control *)

LEMMA InitControl == Init => Control
<1> SUFFICES ASSUME Init PROVE Control
  OBVIOUS
<1>1. TypeOK
  <2>1. /\ typed \in 0 .. MaxKeys /\ buffer_write_location \in 0 .. WORD - 1
        /\ got \in [Threads -> 0 .. typed] /\ reg \in [Threads -> 0 .. WORD - 1]
    BY ConsoleAssumption DEF Init
  <2>2. /\ shift_pressed \in BOOLEAN /\ cleared \in BOOLEAN
        /\ can_wakeup \in [Threads -> BOOLEAN] /\ late \in [Threads -> BOOLEAN]
    BY DEF Init
  <2>3. /\ character_buf \in {NoChar} \cup [n : 1 .. typed, char : Chars]
        /\ c \in [Threads -> {NoChar} \cup [n : 1 .. typed, char : Chars]]
    BY DEF Init
  <2> QED BY <2>1, <2>2, <2>3 DEF Init, TypeOK, Reading
<1>2. TerminalOwned /\ EchoHasChar
  BY DEF Init, TerminalOwned, EchoHasChar, Printing, Chars
<1> QED BY <1>1, <1>2 DEF Control

LEMMA KeyControl ==
    ASSUME Control, (\E key \in Keys : KeyPressed(key) \/ KeyReleased(key)) \/ KeyWakeup
    PROVE  Control'
<1>1. CASE \E key \in Keys : KeyPressed(key)
  <2>1. PICK key \in Keys : KeyPressed(key)
    BY <1>1
  <2>2. PICK char \in scancode_to_char(key) :
          IF is_ascii(char)
          THEN /\ typed' = typed + 1
               /\ character_buf' = [n |-> typed + 1, char |-> char]
               /\ irq' = "wakeup"
          ELSE UNCHANGED <<typed, character_buf, irq>>
    BY <2>1 DEF KeyPressed
  <2>3. /\ typed' \in 0 .. MaxKeys /\ typed <= typed'
        /\ irq' \in {"idle", "wakeup"}
        /\ character_buf' \in {NoChar} \cup [n : 1 .. typed', char : Chars]
    BY <2>1, <2>2, ConsoleAssumption DEF KeyPressed, is_ascii, Control, TypeOK
  <2>4. /\ c' \in [Threads -> {NoChar} \cup [n : 1 .. typed', char : Chars]]
        /\ got' \in [Threads -> 0 .. typed']
    BY <2>1, <2>3 DEF KeyPressed, Control, TypeOK
  <2>5. shift_pressed' \in BOOLEAN
    BY <2>1 DEF KeyPressed, Control, TypeOK
  <2> QED BY <2>1, <2>3, <2>4, <2>5
          DEF KeyPressed, Control, TypeOK, TerminalOwned, EchoHasChar, termVars
<1>2. CASE \E key \in Keys : KeyReleased(key)
  BY <1>2 DEF KeyReleased, Control, TypeOK, TerminalOwned, EchoHasChar, termVars
<1>3. CASE KeyWakeup
  <2>1. /\ can_wakeup' \in [Threads -> BOOLEAN]
        /\ late' \in [Threads -> BOOLEAN]
    BY <1>3 DEF KeyWakeup, Control, TypeOK
  <2> QED BY <1>3, <2>1 DEF KeyWakeup, Control, TypeOK, TerminalOwned, EchoHasChar, termVars
<1> QED BY <1>1, <1>2, <1>3

LEMMA GetcharControl ==
    ASSUME Control, NEW t \in Threads, getchar(t)
    PROVE  Control'
<1> USE DEF Control, TypeOK, TerminalOwned, EchoHasChar, Goto, keyVars, termVars, Reading, Printing, Chars
<1>1. CASE LockBuffer(t)
  BY <1>1 DEF LockBuffer
<1>2. CASE TestBuffer(t)
  BY <1>2 DEF TestBuffer
<1>3. CASE Sleep(t)
  BY <1>3 DEF Sleep
<1>4. CASE WakeUp(t)
  BY <1>4 DEF WakeUp
<1>5. CASE ReadBuffer(t)
  BY <1>5 DEF ReadBuffer
<1>6. CASE ClearBuffer(t)
  BY <1>6 DEF ClearBuffer, NoChar
<1> QED BY <1>1, <1>2, <1>3, <1>4, <1>5, <1>6, getchar(t) DEF getchar

LEMMA PrintfLocation ==
    ASSUME Control, NEW t \in Threads, printf(t)
    PROVE  /\ buffer_write_location' \in 0 .. WORD - 1
           /\ reg' \in [Threads -> 0 .. WORD - 1]
<1>1. (reg[t] - 1) % WORD \in 0 .. WORD - 1 /\ (reg[t] + 1) % WORD \in 0 .. WORD - 1
  BY ModBound, ConsoleAssumption DEF Control, TypeOK
<1>2. \A x, y \in 0 .. WORD - 1 : NextRow(x, y) \in 0 .. WORD - 1
  <2> SUFFICES ASSUME NEW x \in 0 .. WORD - 1, NEW y \in 0 .. WORD - 1 PROVE NextRow(x, y) \in 0 .. WORD - 1
    OBVIOUS
  <2>1. x \in Nat /\ y \in Nat
    BY ConsoleAssumption
  <2>2. x + Row - (y % Row) \in Int
    BY <2>1, RowStart, ConsoleAssumption
  <2> QED BY <2>2, ModBound DEF NextRow
<1>3. Size - Row \in 0 .. WORD - 1
  BY ConsoleAssumption
<1>4. CASE LoadAgain(t)
  <2>1. PICK x \in 0 .. WORD - 1, y \in 0 .. WORD - 1 : x = reg[t] /\ y = buffer_write_location
    BY DEF Control, TypeOK
  <2>2. NextRow(x, y) \in 0 .. WORD - 1 /\ NextRow(y, x) \in 0 .. WORD - 1
    BY <1>2
  <2> QED BY <1>4, <2>1, <2>2 DEF LoadAgain, Control, TypeOK
<1>5. CASE ~ LoadAgain(t)
  BY <1>1, <1>3, <1>5, ConsoleAssumption, printf(t)
     DEF printf, LockTerminal, Load, Store, Endline, TestEndline, TestBackspace, Backspace, TestFull,
         terminal_scroll_down, Put, Advance, Printed, UnlockTerminal, Control, TypeOK, termVars
<1> QED BY <1>4, <1>5

(* printf takes terminal_lock first and releases it last. *)
LEMMA PrintfOwner ==
    ASSUME Control, NEW t \in Threads, printf(t)
    PROVE  /\ pc'[t] \in Printing => terminal_lock' = t
           /\ \A u \in Threads \ {t} : pc[u] \notin Printing
           /\ terminal_lock' \in Threads \cup {NULL}
           /\ UNCHANGED cleared
<1>1. CASE LockTerminal(t)
  BY <1>1, ConsoleAssumption DEF LockTerminal, Control, TypeOK, TerminalOwned
<1>2. CASE UnlockTerminal(t)
  BY <1>2 DEF UnlockTerminal, Goto, Control, TypeOK, TerminalOwned, Printing, Chars
<1>3. CASE ~ LockTerminal(t) /\ ~ UnlockTerminal(t)
  <2>1. UNCHANGED <<terminal_lock, cleared>> /\ pc[t] \in Printing
    BY <1>3, printf(t)
       DEF printf, Load, Store, LoadAgain, Endline, TestEndline, TestBackspace, Backspace, TestFull,
           terminal_scroll_down, Put, Advance, Printed, termVars, Printing, Chars
  <2> QED BY <2>1 DEF Control, TypeOK, TerminalOwned
<1> QED BY <1>1, <1>2, <1>3

LEMMA PrintfControl ==
    ASSUME Control, NEW t \in Threads, printf(t)
    PROVE  Control'
<1>1. PICK label \in Printing \cup {"user"} : pc' = [pc EXCEPT ![t] = label]
  BY PrintfFrame
<1>2. c' = c \/ c' = [c EXCEPT ![t] = NoChar]
  BY PrintfFrame
<1>3. UNCHANGED termRest
  BY PrintfFrame
<1>4. c' \in [Threads -> {NoChar} \cup [n : 1 .. typed', char : Chars]]
  BY <1>2, <1>3 DEF Control, TypeOK, termRest, keyVars
<1>5. pc' \in [Threads -> Reading \cup Printing]
  BY <1>1 DEF Control, TypeOK, Reading
<1>6. TypeOK'
  BY <1>3, <1>4, <1>5, PrintfLocation, PrintfOwner DEF Control, TypeOK, termRest, keyVars
<1>7. TerminalOwned'
  BY <1>1, PrintfOwner DEF TerminalOwned, Control, TypeOK
<1>8. EchoHasChar'
  BY <1>1, <1>2 DEF EchoHasChar, Control, TypeOK, Printing, Chars
<1> QED BY <1>6, <1>7, <1>8 DEF Control

LEMMA ResetControl ==
    ASSUME Control, NEW t \in Threads, terminal_reset(t)
    PROVE  Control'
BY ConsoleAssumption DEF terminal_reset, Control, TypeOK, TerminalOwned, EchoHasChar, keyVars

LEMMA NextControl == Control /\ [Next]_vars => Control'
<1> SUFFICES ASSUME Control, [Next]_vars PROVE Control'
  OBVIOUS
<1>1. CASE UNCHANGED vars
  BY <1>1 DEF vars, keyVars, termVars, Control, TypeOK, TerminalOwned, EchoHasChar
<1> QED BY <1>1, KeyControl, GetcharControl, PrintfControl, ResetControl DEF Next

-----------------------------------------------------------------------------
(* The keyboard's buffer *)

(* Steps that leave the buffer, got and the wakeups alone and do not move a   *)
(* thread into getchar. *)
LEMMA OtherStepsKeep ==
    ASSUME Control, KeyInv, WakeInv, UNCHANGED <<keyVars, can_wakeup, got, late>>,
           \A u \in Threads : pc'[u] \in {"clear", "tosleep", "asleep"} => pc'[u] = pc[u] /\ c'[u] = c[u]
    PROVE  KeyInv' /\ WakeInv'
BY DEF KeyInv, KeysInOrder, BufferIsNew, WakeInv, ReaderIsWoken, SleeperIsLate, keyVars

LEMMA PrintfKeeps ==
    ASSUME Control, KeyInv, WakeInv, NEW t \in Threads, printf(t)
    PROVE  KeyInv' /\ WakeInv'
<1>1. PICK label \in Printing \cup {"user"} : pc' = [pc EXCEPT ![t] = label]
  BY PrintfFrame
<1>2. (c' = c \/ c' = [c EXCEPT ![t] = NoChar]) /\ UNCHANGED <<keyVars, can_wakeup, got, late>>
  BY PrintfFrame DEF termRest
<1>3. \A u \in Threads : pc'[u] \in {"clear", "tosleep", "asleep"} => pc'[u] = pc[u] /\ c'[u] = c[u]
  BY <1>1, <1>2 DEF Control, TypeOK, Printing, Chars
<1> QED BY <1>2, <1>3, OtherStepsKeep

LEMMA InitKeys == Init => KeyInv /\ WakeInv
BY DEF Init, KeyInv, KeysInOrder, BufferIsNew, WakeInv, ReaderIsWoken, SleeperIsLate

LEMMA KeyboardKeeps ==
    ASSUME Control, KeyInv, WakeInv, (\E key \in Keys : KeyPressed(key) \/ KeyReleased(key)) \/ KeyWakeup
    PROVE  KeyInv' /\ WakeInv'
<1>1. ASSUME NEW key \in Keys, KeyPressed(key)
      PROVE  KeyInv' /\ WakeInv'
  <2>1. UNCHANGED <<pc, c, got, late, can_wakeup>>
    BY <1>1 DEF KeyPressed
  <2>2. CASE UNCHANGED <<typed, character_buf, irq>>
    BY <2>1, <2>2 DEF KeyInv, KeysInOrder, BufferIsNew, WakeInv, ReaderIsWoken, SleeperIsLate
  <2>3. CASE ~ UNCHANGED <<typed, character_buf, irq>>
    <3>1. character_buf'.n = typed + 1 /\ irq' = "wakeup"
      BY <1>1, <2>3 DEF KeyPressed
    <3>2. \A t \in Threads : got[t] <= typed /\ got[t] \in Nat /\ typed \in Nat
      BY DEF Control, TypeOK
    <3>3. BufferIsNew'
      BY <2>1, <3>1, <3>2 DEF BufferIsNew
    <3> QED BY <2>1, <3>1, <3>3 DEF KeyInv, KeysInOrder, WakeInv, ReaderIsWoken, SleeperIsLate
  <2> QED BY <2>2, <2>3
<1>2. ASSUME NEW key \in Keys, KeyReleased(key)
      PROVE  KeyInv' /\ WakeInv'
  BY <1>2 DEF KeyReleased, KeyInv, KeysInOrder, BufferIsNew, WakeInv, ReaderIsWoken, SleeperIsLate
<1>3. CASE KeyWakeup
  <2>1. KeyInv'
    BY <1>3 DEF KeyWakeup, KeyInv, KeysInOrder, BufferIsNew
  <2>2. WakeInv'
    BY <1>3 DEF KeyWakeup, WakeInv, ReaderIsWoken, SleeperIsLate
  <2> QED BY <2>1, <2>2
<1> QED BY <1>1, <1>2, <1>3

LEMMA GetcharKeeps ==
    ASSUME Control, KeyInv, WakeInv, NEW t \in Threads, getchar(t)
    PROVE  KeyInv' /\ WakeInv'
<1>1. CASE ReadBuffer(t)
  <2>1. c' = [c EXCEPT ![t] = character_buf] /\ pc' = [pc EXCEPT ![t] = "clear"]
    BY <1>1 DEF ReadBuffer, Goto
  <2>2. KeyInv'
    BY <1>1, <2>1 DEF ReadBuffer, KeyInv, KeysInOrder, BufferIsNew, keyVars, Control, TypeOK
  <2>3. WakeInv'
    BY <1>1, <2>1 DEF ReadBuffer, WakeInv, ReaderIsWoken, SleeperIsLate, keyVars, Control, TypeOK
  <2> QED BY <2>2, <2>3
<1>2. CASE ClearBuffer(t)
  <2>1. character_buf' = NoChar /\ c' = c
    BY <1>2 DEF ClearBuffer
  <2>2. \A u \in Threads : pc'[u] = "clear" => pc[u] = "clear" /\ u # t /\ got'[u] = got[u]
    BY <1>2 DEF ClearBuffer, Goto, Control, TypeOK
  <2>3. KeyInv'
    BY <2>1, <2>2 DEF KeyInv, KeysInOrder, BufferIsNew
  <2>4. WakeInv'
    BY <2>1 DEF WakeInv, ReaderIsWoken, SleeperIsLate
  <2> QED BY <2>3, <2>4
<1>3. CASE LockBuffer(t)
  <2>1. \A u \in Threads : pc'[u] \in {"clear", "tosleep", "asleep"} => pc'[u] = pc[u] /\ c'[u] = c[u]
    BY <1>3 DEF LockBuffer, Goto, Control, TypeOK
  <2> QED BY <1>3, <2>1, OtherStepsKeep DEF LockBuffer
<1>4. CASE TestBuffer(t)
  BY <1>4 DEF TestBuffer, Goto, keyVars, KeyInv, KeysInOrder, BufferIsNew, WakeInv, ReaderIsWoken,
              SleeperIsLate, Control, TypeOK
<1>5. CASE Sleep(t)
  BY <1>5 DEF Sleep, Goto, keyVars, KeyInv, KeysInOrder, BufferIsNew, WakeInv, ReaderIsWoken,
              SleeperIsLate, Control, TypeOK
<1>6. CASE WakeUp(t)
  BY <1>6 DEF WakeUp, Goto, keyVars, KeyInv, KeysInOrder, BufferIsNew, WakeInv, ReaderIsWoken,
              SleeperIsLate, Control, TypeOK
<1> QED BY <1>1, <1>2, <1>3, <1>4, <1>5, <1>6, getchar(t) DEF getchar

LEMMA NextKeys == Control /\ KeyInv /\ WakeInv /\ [Next]_vars => KeyInv' /\ WakeInv'
<1> SUFFICES ASSUME Control, KeyInv, WakeInv, [Next]_vars PROVE KeyInv' /\ WakeInv'
  OBVIOUS
<1>1. ASSUME NEW t \in Threads, terminal_reset(t) PROVE KeyInv' /\ WakeInv'
  BY <1>1, OtherStepsKeep DEF terminal_reset
<1>2. CASE UNCHANGED vars
  BY <1>2, OtherStepsKeep DEF vars
<1> QED BY <1>1, <1>2, KeyboardKeeps, GetcharKeeps, PrintfKeeps DEF Next

-----------------------------------------------------------------------------
(* The terminal *)

(* Steps of the keyboard, of readers and of nobody. *)
LEMMA ReadingKeepsTerminal ==
    ASSUME TermInv, UNCHANGED termVars,
           \A u \in Threads : pc[u] \in Printing \/ pc'[u] \in Printing => pc'[u] = pc[u]
    PROVE  TermInv'
BY DEF TermInv, LocationTested, RegisterSane, LocationSane, OffScreen, termVars, Printing

LEMMA ResetKeepsTerminal ==
    ASSUME Control, TermInv, NEW t \in Threads, terminal_reset(t)
    PROVE  TermInv'
<1>1. ~ cleared' => ~ cleared /\ \A u \in Threads : pc[u] # "load_back"
  BY Zenon DEF terminal_reset
<1>2. pc' = pc /\ reg' = reg /\ buffer_write_location' = 0 /\ Size \in Nat /\ Size > 0
  BY ConsoleAssumption DEF terminal_reset
<1>3. LocationTested' /\ LocationSane'
  BY <1>2 DEF LocationTested, LocationSane
<1>4. RegisterSane'
  BY <1>1, <1>2 DEF TermInv, RegisterSane
<1> QED BY <1>3, <1>4 DEF TermInv

LEMMA PrintfKeepsTerminal ==
    ASSUME Control, TermInv, NEW t \in Threads, printf(t)
    PROVE  TermInv'
<1> DEFINE w == buffer_write_location
<1>1. /\ w \in Nat /\ w' \in Nat /\ reg \in [Threads -> Nat] /\ reg' \in [Threads -> Nat]
      /\ Row \in Nat \ {0} /\ Size \in Nat /\ Row <= Size /\ WORD \in Nat
  BY PrintfLocation, ConsoleAssumption DEF Control, TypeOK
(* Nobody else is inside printf, so TermInv is about t alone. *)
<1>2. /\ \A u \in Threads \ {t} : pc[u] \notin Printing /\ pc'[u] = pc[u]
      /\ cleared' = cleared
  BY PrintfOwner, PrintfFrame DEF Control, TypeOK
<1>3. /\ ~ cleared /\ pc[t] \notin {"test_endline", "scroll_line"} => w <= Size
  BY <1>1, <1>2 DEF TermInv, LocationSane, OffScreen, Printing
<1>4. SUFFICES
        /\ pc'[t] \in {"put", "put_last", "load_next", "load_last"} => w' < Size
        /\ ~ cleared =>
             /\ pc'[t] = "load_back" => w' > 0
             /\ pc'[t] = "back" => reg'[t] \in 1 .. Size
             /\ pc'[t] \in {"endline", "printed"} => reg'[t] <= Size
             /\ pc'[t] \in {"next", "last"} => reg'[t] < Size
             /\ w' <= Size \/ pc'[t] \in {"test_endline", "scroll_line"}
  BY <1>1, <1>2 DEF TermInv, LocationTested, RegisterSane, LocationSane, OffScreen, Printing
<1> USE <1>1, <1>3 DEF Control, TypeOK, TermInv, LocationTested, RegisterSane, Goto, termVars
<1>5. CASE LockTerminal(t)
  <2>1. w' = w /\ pc'[t] \in Chars
    BY <1>5 DEF LockTerminal, EchoHasChar
  <2> QED BY <1>5, <2>1 DEF LockTerminal, Chars
<1>6. CASE LoadAgain(t) \/ Endline(t)
  BY <1>6 DEF LoadAgain, Endline, Store
<1>7. CASE TestEndline(t)
  BY <1>7 DEF TestEndline
<1>8. CASE TestBackspace(t)
  BY <1>8 DEF TestBackspace
<1>9. CASE Backspace(t)
  <2>1. ~ cleared => (reg[t] - 1) % WORD = reg[t] - 1 /\ reg[t] \in 1 .. Size
    BY <1>9, ModSmall, ConsoleAssumption DEF Backspace, Store
  <2> QED BY <1>9, <2>1 DEF Backspace, Store
<1>10. CASE TestFull(t)
  BY <1>10 DEF TestFull
<1>11. CASE terminal_scroll_down(t)
  BY <1>11 DEF terminal_scroll_down, Store
<1>12. CASE Put(t)
  BY <1>12 DEF Put
<1>13. CASE Advance(t)
  <2>1. ~ cleared => (reg[t] + 1) % WORD = reg[t] + 1 /\ reg[t] < Size
    BY <1>13, ModSmall, ConsoleAssumption DEF Advance, Store
  <2> QED BY <1>13, <2>1 DEF Advance, Store
<1>14. CASE Printed(t)
  BY <1>14 DEF Printed, Store
<1>15. CASE UnlockTerminal(t)
  BY <1>15 DEF UnlockTerminal
<1>16. CASE Load(t, "newline", "endline") \/ Load(t, "print", "printed")
  BY <1>16 DEF Load
<1>17. CASE Load(t, "load_back", "back")
  BY <1>17 DEF Load
<1>18. CASE Load(t, "load_next", "next") \/ Load(t, "load_last", "last")
  BY <1>18 DEF Load
<1> QED BY <1>5, <1>6, <1>7, <1>8, <1>9, <1>10, <1>11, <1>12, <1>13, <1>14, <1>15, <1>16, <1>17, <1>18,
           printf(t) DEF printf

LEMMA NextTerminal == Control /\ TermInv /\ [Next]_vars => TermInv'
<1> SUFFICES ASSUME Control, TermInv, [Next]_vars PROVE TermInv'
  OBVIOUS
<1>1. CASE (\E key \in Keys : KeyPressed(key) \/ KeyReleased(key)) \/ KeyWakeup
  BY <1>1, ReadingKeepsTerminal DEF KeyPressed, KeyReleased, KeyWakeup
<1>2. ASSUME NEW t \in Threads, getchar(t) PROVE TermInv'
  <2>1. UNCHANGED termVars /\ \E label \in Reading : pc' = [pc EXCEPT ![t] = label] /\ pc[t] \in Reading
    BY <1>2 DEF getchar, LockBuffer, TestBuffer, Sleep, WakeUp, ReadBuffer, ClearBuffer, Goto, Reading
  <2> QED BY <2>1, ReadingKeepsTerminal DEF Control, TypeOK, Reading, Printing, Chars
<1>3. CASE UNCHANGED vars
  BY <1>3, ReadingKeepsTerminal DEF vars
<1> QED BY <1>1, <1>2, <1>3, ResetKeepsTerminal, PrintfKeepsTerminal DEF Next

LEMMA InitTerminal == Init => TermInv
BY ConsoleAssumption DEF Init, TermInv, LocationTested, RegisterSane, LocationSane

-----------------------------------------------------------------------------
(* The location is a 32-bit number, and what threads hold of the keyboard are *)
(* key presses that happened (terminal.c, ps2_keyboard.c).                    *)
THEOREM ConsoleTypes == Spec => []TypeOK
<1>1. Spec => []Control
  BY InitControl, NextControl, PTL DEF Spec
<1>2. Control => TypeOK
  BY DEF Control
<1> QED BY <1>1, <1>2, PTL

(* retrieve_character_buf returns every key press at most once to a reader,   *)
(* and in order, though it reads and clears the buffer without its lock.      *)
THEOREM ConsoleKeysInOrder == Spec => []KeysInOrder
<1>1. Spec => [](Control /\ KeyInv /\ WakeInv)
  BY InitControl, InitKeys, NextControl, NextKeys, PTL DEF Spec
<1>2. KeyInv => KeysInOrder
  BY DEF KeyInv
<1> QED BY <1>1, <1>2, PTL

(* Only the handler's Wakeup between the test of the buffer and can_wakeup =  *)
(* false leaves a reader asleep on a full buffer.                             *)
THEOREM ConsoleReaderIsWoken == Spec => []ReaderIsWoken
<1>1. Spec => [](Control /\ KeyInv /\ WakeInv)
  BY InitControl, InitKeys, NextControl, NextKeys, PTL DEF Spec
<1>2. WakeInv => ReaderIsWoken
  BY DEF WakeInv
<1> QED BY <1>1, <1>2, PTL

(* terminal_write_char writes inside terminal_buf for every screen size, with *)
(* terminal_reset at any moment on any other CPU.                             *)
THEOREM ConsoleTerminalInBounds == Spec => []TerminalInBounds
<1>1. Spec => [](Control /\ TermInv)
  BY InitControl, InitTerminal, NextControl, NextTerminal, PTL DEF Spec
<1>2. TermInv => TerminalInBounds
  BY DEF TermInv, LocationTested, LocationSane, OffScreen, TerminalInBounds
<1> QED BY <1>1, <1>2, PTL
=============================================================================
