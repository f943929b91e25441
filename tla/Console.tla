------------------------------ MODULE Console ------------------------------
(***************************************************************************)
(* The console: the keyboard's interrupt handler and its one-character     *)
(* buffer (ps2_keyboard.c), the terminal (terminal.c, video.c), and user   *)
(* threads that read characters, echo them and clear the screen, as the    *)
(* shell and the clear program do.                                         *)
(*                                                                         *)
(* The handler runs on the boot CPU and takes no lock of the buffer; the   *)
(* threads run on any CPU.  printf holds terminal_lock, terminal_reset     *)
(* does not, so the accesses to buffer_write_location are steps of their   *)
(* own.  The build is -O0: every access goes to memory, "x++" is a load    *)
(* and a store.  The scheduler is in Scheduler; here a sleeping thread may *)
(* go on with can_wakeup set, or without when its CPU has nothing else to  *)
(* run (HandleNoSchedule).                                                 *)
(***************************************************************************)
EXTENDS Integers

CONSTANTS
    Threads, NULL,
    Row,               \* characters in a row (max_x / 16)
    Size,              \* terminal_buf_size
    WORD,              \* 2^32: buffer_write_location is 32 bits wide
    MaxKeys, MaxClears \* bounds on characters typed and on calls of clear

ASSUME ConsoleAssumption ==
    /\ Row \in Nat \ {0} /\ Size \in Nat /\ Row <= Size
    /\ WORD \in Nat /\ Size + Row < WORD
    /\ NULL \notin Threads
    /\ MaxKeys \in Nat

VARIABLES
    typed,                  \* number of characters put into the buffer so far
    shift_pressed,          \* KeyboardDriver.shift_pressed
    character_buf,          \* the character and its number, NoChar for 0
    irq,                    \* progress of keyboard_irq_handler
    char_buf_lock,          \* owner of char_buf_spinlock
    terminal_lock,          \* owner
    buffer_write_location,
    can_wakeup,             \* Thread.can_wakeup
    pc, c,                  \* progress of a thread, and its character
    reg,                    \* value a thread has loaded
    clears,
    got,                    \* number of the character getchar last returned to a thread
    late,                   \* history: woken before the sleep was complete
    cleared                 \* history: reset between a backspace's test and its load

keyVars  == <<typed, shift_pressed, character_buf, irq>>
termVars == <<terminal_lock, buffer_write_location, reg, cleared>>
vars     == <<keyVars, termVars, char_buf_lock, can_wakeup, pc, c, clears, got, late>>

Chars  == {"lower", "upper", "newline", "backspace"}
NoChar == [n |-> 0, char |-> "none"]

(* Where a thread is: in getchar or user code, or inside terminal_lock; in    *)
(* terminal_write_char the label is first the character it writes.            *)
Reading  == {"user", "test", "tosleep", "asleep", "woken", "read", "clear", "echo"}
Printing == Chars \cup {"endline", "store_line", "test_endline", "scroll_line", "load_back", "back", "scroll",
                        "put", "put_last", "load_next", "next", "load_last", "last",
                        "print", "printed", "unlock"}

TypeOK ==
    /\ typed \in 0 .. MaxKeys
    /\ shift_pressed \in BOOLEAN
    /\ character_buf \in {NoChar} \cup [n : 1 .. typed, char : Chars]
    /\ irq \in {"idle", "wakeup"}
    /\ {char_buf_lock, terminal_lock} \subseteq Threads \cup {NULL}
    /\ buffer_write_location \in 0 .. WORD - 1
    /\ can_wakeup \in [Threads -> BOOLEAN]
    /\ pc \in [Threads -> Reading \cup Printing]
    /\ c \in [Threads -> {NoChar} \cup [n : 1 .. typed, char : Chars]]
    /\ got \in [Threads -> 0 .. typed]
    /\ reg \in [Threads -> 0 .. WORD - 1]
    /\ late \in [Threads -> BOOLEAN] /\ cleared \in BOOLEAN

Init ==
    /\ typed = 0 /\ shift_pressed = FALSE /\ character_buf = NoChar /\ irq = "idle"
    /\ char_buf_lock = NULL /\ terminal_lock = NULL
    /\ buffer_write_location = 0
    /\ can_wakeup = [t \in Threads |-> TRUE]
    /\ pc = [t \in Threads |-> "user"]
    /\ c = [t \in Threads |-> NoChar] /\ reg = [t \in Threads |-> 0]
    /\ clears = 0
    /\ got = [t \in Threads |-> 0]
    /\ late = [t \in Threads |-> FALSE]
    /\ cleared = FALSE

Goto(t, label) == pc' = [pc EXCEPT ![t] = label]

-----------------------------------------------------------------------------
(* The keyboard *)

Keys == {"letter", "enter", "backspace", "shift", "other"}

(* What the two tables hold for a key; "other" keys have no printable entry.  *)
(* Pressing shift returns true without writing *outchar: c is then whatever   *)
(* was on the stack.                                                          *)
scancode_to_char(key) ==
    CASE key = "letter" -> {IF shift_pressed THEN "upper" ELSE "lower"}
      [] key = "enter" -> {"newline"}
      [] key = "backspace" -> {"backspace"}
      [] key = "shift" -> Chars \cup {"none"}
      [] OTHER -> {"none"}

is_ascii(char) == char \in Chars

(* A key is pressed: the character overwrites the one in the buffer. *)
KeyPressed(key) ==
    /\ irq = "idle" /\ typed < MaxKeys
    /\ shift_pressed' = (shift_pressed \/ key = "shift")
    /\ \E char \in scancode_to_char(key) :
          IF is_ascii(char)
          THEN /\ typed' = typed + 1
               /\ character_buf' = [n |-> typed + 1, char |-> char]
               /\ irq' = "wakeup"
          ELSE UNCHANGED <<typed, character_buf, irq>>
    /\ UNCHANGED <<termVars, char_buf_lock, can_wakeup, pc, c, clears, got, late>>

(* Either shift key counts. *)
KeyReleased(key) ==
    /\ irq = "idle"
    /\ shift_pressed' = (shift_pressed /\ key # "shift")
    /\ UNCHANGED <<typed, character_buf, irq, termVars, char_buf_lock, can_wakeup, pc, c, clears, got, late>>

(* Mutant: one sleeping thread is woken. *)
WakeupOne ==
    /\ irq = "wakeup" /\ irq' = "idle"
    /\ can_wakeup' = IF \E t \in Threads : pc[t] = "asleep"
                     THEN [can_wakeup EXCEPT ![CHOOSE t \in Threads : pc[t] = "asleep"] = TRUE]
                     ELSE can_wakeup
    /\ late' = [t \in Threads |-> late[t] \/ pc[t] = "tosleep"]
    /\ UNCHANGED <<typed, shift_pressed, character_buf, termVars, char_buf_lock, pc, c, clears, got>>

(* Wakeup(&character_buf) of the handler. *)
KeyWakeup ==
    /\ irq = "wakeup" /\ irq' = "idle"
    /\ can_wakeup' = [t \in Threads |-> can_wakeup[t] \/ pc[t] = "asleep"]
    /\ late' = [t \in Threads |-> late[t] \/ pc[t] = "tosleep"]
    /\ UNCHANGED <<typed, shift_pressed, character_buf, termVars, char_buf_lock, pc, c, clears, got>>

-----------------------------------------------------------------------------
(* SYSHANDLER_getchar and retrieve_character_buf *)

LockBuffer(t) ==
    /\ pc[t] \in {"user", "woken"} /\ char_buf_lock = NULL
    /\ char_buf_lock' = t
    /\ Goto(t, "test")
    /\ UNCHANGED <<keyVars, termVars, can_wakeup, c, clears, got, late>>

(* The loop condition; a character ends the loop and the lock is released. *)
TestBuffer(t) ==
    /\ pc[t] = "test"
    /\ IF character_buf = NoChar THEN Goto(t, "tosleep") /\ UNCHANGED char_buf_lock
       ELSE Goto(t, "read") /\ char_buf_lock' = NULL
    /\ UNCHANGED <<keyVars, termVars, can_wakeup, c, clears, got, late>>

(* ThreadSleep up to can_wakeup = false, which undoes an earlier Wakeup, and  *)
(* the release of the lock.                                                   *)
Sleep(t) ==
    /\ pc[t] = "tosleep"
    /\ can_wakeup' = [can_wakeup EXCEPT ![t] = FALSE]
    /\ char_buf_lock' = NULL
    /\ Goto(t, "asleep")
    /\ UNCHANGED <<keyVars, termVars, c, clears, got, late>>

WakeUp(t) ==
    /\ pc[t] = "asleep"
    /\ late' = [late EXCEPT ![t] = FALSE]
    /\ Goto(t, "woken")
    /\ UNCHANGED <<keyVars, termVars, char_buf_lock, can_wakeup, c, clears, got>>

(* ret = character_buf, without the lock: another reader, or another key, may *)
(* have changed it.                                                           *)
ReadBuffer(t) ==
    /\ pc[t] = "read"
    /\ c' = [c EXCEPT ![t] = character_buf]
    /\ Goto(t, "clear")
    /\ UNCHANGED <<keyVars, termVars, char_buf_lock, can_wakeup, clears, got, late>>

(* Mutant: the buffer keeps its character. *)
ReturnKeepsBuffer(t) ==
    /\ pc[t] = "clear"
    /\ IF c[t] = NoChar THEN Goto(t, "user") /\ UNCHANGED got
       ELSE Goto(t, "echo") /\ got' = [got EXCEPT ![t] = c[t].n]
    /\ UNCHANGED <<keyVars, termVars, char_buf_lock, can_wakeup, c, clears, late>>

(* character_buf = 0; getchar starts again when it got none. *)
ClearBuffer(t) ==
    /\ pc[t] = "clear"
    /\ character_buf' = NoChar
    /\ IF c[t] = NoChar THEN Goto(t, "user") /\ UNCHANGED got
       ELSE Goto(t, "echo") /\ got' = [got EXCEPT ![t] = c[t].n]
    /\ UNCHANGED <<typed, shift_pressed, irq, termVars, char_buf_lock, can_wakeup, c, clears, late>>

getchar(t) == LockBuffer(t) \/ TestBuffer(t) \/ Sleep(t) \/ WakeUp(t) \/ ReadBuffer(t) \/ ClearBuffer(t)

-----------------------------------------------------------------------------
(* The terminal: printf of one character, terminal_write_char *)

termRest == <<keyVars, char_buf_lock, can_wakeup, clears, got, late>>

LockTerminal(t) ==
    /\ pc[t] = "echo" /\ terminal_lock = NULL
    /\ terminal_lock' = t
    /\ Goto(t, c[t].char)
    /\ c' = [c EXCEPT ![t] = NoChar]
    /\ UNCHANGED <<termRest, buffer_write_location, reg, cleared>>

Load(t, at, next) ==
    /\ pc[t] = at
    /\ reg' = [reg EXCEPT ![t] = buffer_write_location]
    /\ Goto(t, next)
    /\ UNCHANGED <<termRest, c, terminal_lock, buffer_write_location, cleared>>

Store(t, at, value, next) ==
    /\ pc[t] = at
    /\ buffer_write_location' = value
    /\ reg' = [reg EXCEPT ![t] = 0]
    /\ Goto(t, next)
    /\ UNCHANGED <<termRest, c, terminal_lock, cleared>>

(* handle_endline: "x += row - (x % row)" loads x twice, in either order.     *)
NextRow(x, y) == (x + Row - (y % Row)) % WORD

LoadAgain(t) ==
    /\ pc[t] = "endline"
    /\ \E sum \in {NextRow(reg[t], buffer_write_location), NextRow(buffer_write_location, reg[t])} :
          reg' = [reg EXCEPT ![t] = sum]
    /\ Goto(t, "store_line")
    /\ UNCHANGED <<termRest, c, terminal_lock, buffer_write_location, cleared>>

Endline(t) == Store(t, "store_line", reg[t], "test_endline")

(* The scroll if the end of line left the screen. *)
TestEndline(t) ==
    /\ pc[t] = "test_endline"
    /\ Goto(t, IF buffer_write_location >= Size THEN "scroll_line" ELSE "unlock")
    /\ UNCHANGED <<termRest, c, termVars>>

(* The rows move up and the location goes to the last row; the buffer is then *)
(* printed, after the character is in it.                                     *)
terminal_scroll_down(t) ==
    \/ Store(t, "scroll", Size - Row, "put_last")
    \/ Store(t, "scroll_line", Size - Row, "print")

(* Mutant: the test for zero is missing. *)
TestNothing(t) ==
    /\ pc[t] = "backspace"
    /\ Goto(t, "load_back")
    /\ UNCHANGED <<termRest, c, termVars>>

(* A backspace at the start of the screen does nothing. *)
TestBackspace(t) ==
    /\ pc[t] = "backspace"
    /\ Goto(t, IF buffer_write_location = 0 THEN "unlock" ELSE "load_back")
    /\ UNCHANGED <<termRest, c, termVars>>

Backspace(t) == Store(t, "back", (reg[t] - 1) % WORD, "unlock")

TestFull(t) ==
    /\ pc[t] \in {"lower", "upper"}
    /\ Goto(t, IF buffer_write_location >= Size THEN "scroll" ELSE "put")
    /\ UNCHANGED <<termRest, c, termVars>>

(* terminal_buf[buffer_write_location] = c *)
Put(t) ==
    /\ pc[t] \in {"put", "put_last"}
    /\ Goto(t, IF pc[t] = "put" THEN "load_next" ELSE "load_last")
    /\ UNCHANGED <<termRest, c, termVars>>

Advance(t) == Store(t, "next", (reg[t] + 1) % WORD, "unlock") \/ Store(t, "last", (reg[t] + 1) % WORD, "print")

(* terminal_print_buffer counts buffer_write_location itself from 0 up to the *)
(* value it had; a reset meanwhile starts it over.                            *)
Printed(t) == Store(t, "printed", reg[t], "unlock")

UnlockTerminal(t) ==
    /\ pc[t] = "unlock"
    /\ terminal_lock' = NULL
    /\ Goto(t, "user")
    /\ UNCHANGED <<termRest, c, buffer_write_location, reg, cleared>>

printf(t) ==
    \/ LockTerminal(t)
    \/ Load(t, "newline", "endline") \/ LoadAgain(t) \/ Endline(t) \/ TestEndline(t)
    \/ TestBackspace(t) \/ Load(t, "load_back", "back") \/ Backspace(t)
    \/ TestFull(t) \/ terminal_scroll_down(t) \/ Put(t)
    \/ Load(t, "load_next", "next") \/ Load(t, "load_last", "last") \/ Advance(t)
    \/ Load(t, "print", "printed") \/ Printed(t)
    \/ UnlockTerminal(t)

(* SYSHANDLER_clear: terminal_reset takes no lock. *)
terminal_reset(t) ==
    /\ pc[t] = "user" /\ clears < MaxClears
    /\ clears' = clears + 1
    /\ buffer_write_location' = 0
    /\ cleared' = (cleared \/ \E u \in Threads : pc[u] = "load_back")
    /\ UNCHANGED <<keyVars, char_buf_lock, terminal_lock, can_wakeup, pc, c, reg, got, late>>

-----------------------------------------------------------------------------
Next == \/ \E key \in Keys : KeyPressed(key) \/ KeyReleased(key)
        \/ KeyWakeup
        \/ \E t \in Threads : getchar(t) \/ printf(t) \/ terminal_reset(t)

Spec == Init /\ [][Next]_vars

-----------------------------------------------------------------------------
(* Properties *)

(* A reader gets every key press at most once and in the order of typing, in  *)
(* spite of the reads and writes of the buffer outside its lock.  (A press    *)
(* may be lost, and two readers may both get it.)                             *)
KeysInOrder == \A t \in Threads : pc[t] = "clear" /\ c[t] # NoChar => c[t].n > got[t]

(* A reader does not sleep on a buffer that holds a character, unless the     *)
(* handler ran between its test of the buffer and can_wakeup = false.         *)
ReaderIsWoken ==
    \A t \in Threads : pc[t] = "asleep" /\ character_buf # NoChar =>
        can_wakeup[t] \/ irq = "wakeup" \/ late[t]

(* terminal_buf is written inside its bounds, whenever other CPUs reset the   *)
(* location, and even after it has wrapped.  The location, which the cursor   *)
(* is drawn at, stays on the screen or at its end, but for the moment between *)
(* an end of line and its scroll: only a reset between the test of a          *)
(* backspace and its decrement makes it wrap to 2^32 - 1.                     *)
TerminalInBounds ==
    /\ \A t \in Threads : pc[t] \in {"put", "put_last"} => buffer_write_location < Size
    /\ buffer_write_location > Size =>
          cleared \/ \E t \in Threads : pc[t] \in {"test_endline", "scroll_line"}
=============================================================================
