------------------------------- MODULE OXGame -------------------------------
(***************************************************************************)
(* applications/OXGame.c: the shell command that sets the game up, the     *)
(* three threads (keys, LCD, commands), the two interrupt handlers and     *)
(* the objects they share: lcd_mutex, key_sem, uart_rx_sem and cmd_rb.     *)
(*                                                                         *)
(* A step is what a thread does between two points where another thread    *)
(* or an interrupt can matter: a blocking call, a delay, an access to      *)
(* cmd_rb or a semaphore.  The game state is read and written under        *)
(* lcd_mutex, and a critical section is one step, except that the placing  *)
(* of a piece is cut in two: a thread may lose the processor between the   *)
(* store to the board and the stores that follow from it, and only         *)
(* lcd_mutex keeps the others from seeing half of it.  A delay ends at any *)
(* time.  cmd_rb is the bounded FIFO that RingBuffer implements.           *)
(***************************************************************************)
EXTENDS OXBoard, Sequences

CONSTANTS
    RbSize,         \* CMD_BUF_SIZE
    NameMax,        \* sizeof(buf) - 1 characters of a player name
    SemMax,         \* RT_SEM_VALUE_MAX
    Chars,          \* the characters the user types
    Buttons,        \* the buttons the user presses
    Batch,          \* most characters one receive indication delivers
    MaxChars,       \* bound: receive indications in a behaviour
    MaxPresses,     \* bound: button presses in a behaviour
    StartBoards     \* boards of games under way at the start

ASSUME SizesAssumption ==
    /\ RbSize \in Nat \ {0} /\ NameMax \in Nat \ {0} /\ SemMax \in Nat \ {0}
    /\ Batch \in Nat \ {0} /\ MaxChars \in Nat /\ MaxPresses \in Nat
    /\ StartBoards \subseteq [Cells -> 0..2]
    /\ Buttons \subseteq {"LEFT", "RIGHT", "DOWN", "OK"}

Threads == {"shell", "key", "lcd", "cmd"}
Pins == {"LEFT", "RIGHT", "DOWN", "OK"}

VARIABLES
    pc,             \* where each thread is
    blocked,        \* what each thread is suspended on, "no" if it is not
    owner, hold,    \* lcd_mutex
    key_sem, uart_rx_sem,
    cmd_rb,         \* the characters in the ring buffer, oldest first
    cmd,            \* the character cmd_thread_entry is executing
    name_x, name_o, \* length of the two player names
    len,            \* input_player_name's local
    active_pin,     \* key_thread_entry's local
    pressed,        \* the buttons held down
    irq,            \* the pins whose interrupt is enabled
    shown,          \* what the LCD shows of the game, <<>> if something else
    typed, presses  \* inputs so far

lockVars == <<owner, hold>>
semVars == <<key_sem, uart_rx_sem>>
nameVars == <<name_x, name_o, len>>
pinVars == <<pressed, irq>>
envVars == <<typed, presses>>
vars == <<gameVars, pc, blocked, lockVars, semVars, cmd_rb, cmd, nameVars,
          active_pin, pinVars, shown, envVars>>

\* What ox_game_draw_board puts on the screen.
Visible == <<board, cursor, current_player, name_x, name_o>>

-----------------------------------------------------------------------------
(* The kernel objects, as far as this application uses them.  Of the mutex *)
(* only ownership is kept (module Mutex has the rest): any thread that is   *)
(* not suspended may run here, so priorities lent to an owner change        *)
(* nothing, and among waiters for the one mutex none is ever boosted.       *)

\* Priorities of ox_game_start; the shell thread has FINSH_THREAD_PRIORITY.
Priority(t) == CASE t = "cmd" -> 7 [] t = "key" -> 10
                 [] t = "lcd" -> 11 [] t = "shell" -> 20

At(t, label) == pc[t] = label /\ blocked[t] = "no"
Goto(t, label) == pc' = [pc EXCEPT ![t] = label]

\* rt_mutex_take(lcd_mutex, RT_WAITING_FOREVER), then on to next.
Take(t, next) ==
    /\ Goto(t, next)
    /\ IF owner \in {"none", t}
       THEN owner' = t /\ hold' = hold + 1 /\ UNCHANGED blocked
       ELSE blocked' = [blocked EXCEPT ![t] = "mutex"] /\ UNCHANGED lockVars

\* rt_mutex_release(lcd_mutex): the outermost release hands the mutex to the
\* waiter of highest priority.
Release ==
    LET waiters == {t \in Threads : blocked[t] = "mutex"}
        best == CHOOSE t \in waiters :
                    \A u \in waiters : Priority(t) <= Priority(u)
    IN  IF hold > 1
        THEN hold' = hold - 1 /\ UNCHANGED <<owner, blocked>>
        ELSE IF waiters = {}
        THEN owner' = "none" /\ hold' = 0 /\ UNCHANGED blocked
        ELSE owner' = best /\ hold' = 1 /\ blocked' = [blocked EXCEPT ![best] = "no"]

\* rt_sem_take(uart_rx_sem, RT_WAITING_FOREVER), then on to next.
TakeRxSem(t, next) ==
    /\ Goto(t, next)
    /\ IF uart_rx_sem > 0
       THEN uart_rx_sem' = uart_rx_sem - 1 /\ UNCHANGED blocked
       ELSE blocked' = [blocked EXCEPT ![t] = "uart_rx_sem"] /\ UNCHANGED uart_rx_sem

\* rt_sem_release(uart_rx_sem): a waiter (there is never more than one) gets
\* the token, else the count goes up unless it is at its limit.
ReleaseRxSem ==
    IF \E t \in Threads : blocked[t] = "uart_rx_sem"
    THEN /\ blocked' = [t \in Threads |->
                          IF blocked[t] = "uart_rx_sem" THEN "no" ELSE blocked[t]]
         /\ UNCHANGED uart_rx_sem
    ELSE /\ uart_rx_sem' = IF uart_rx_sem < SemMax THEN uart_rx_sem + 1
                                                   ELSE uart_rx_sem
         /\ UNCHANGED blocked

-----------------------------------------------------------------------------
(* Interrupts and the user *)

\* rt_ringbuffer_putchar for each character of s.
PutChars(s) ==
    LET room == RbSize - Len(cmd_rb)
    IN  cmd_rb \o SubSeq(s, 1, IF Len(s) < room THEN Len(s) ELSE room)

\* Mutant: the semaphore is released only for the first character in the
\* buffer.
uart_rx_indFirstOnly(s) ==
    /\ typed < MaxChars
    /\ cmd_rb' = PutChars(s)
    /\ IF cmd_rb = <<>> THEN ReleaseRxSem ELSE UNCHANGED <<blocked, uart_rx_sem>>
    /\ typed' = typed + 1
    /\ UNCHANGED <<gameVars, pc, lockVars, key_sem, cmd, nameVars, active_pin,
                   pinVars, shown, presses>>

\* The UART receives s: uart_rx_ind stores it and releases uart_rx_sem.
uart_rx_ind(s) ==
    /\ typed < MaxChars
    /\ cmd_rb' = PutChars(s)
    /\ ReleaseRxSem
    /\ typed' = typed + 1
    /\ UNCHANGED <<gameVars, pc, lockVars, key_sem, cmd, nameVars, active_pin,
                   pinVars, shown, presses>>

\* A button goes down.  If the interrupt of its pin is enabled, button_isr
\* disables it and releases key_sem.
Press(p) ==
    /\ presses < MaxPresses
    /\ p \notin pressed
    /\ pressed' = pressed \cup {p}
    /\ presses' = presses + 1
    /\ IF p \in irq
       THEN /\ irq' = irq \ {p}
            /\ IF blocked["key"] = "key_sem"
               THEN blocked' = [blocked EXCEPT !["key"] = "no"] /\ UNCHANGED key_sem
               ELSE /\ key_sem' = IF key_sem < SemMax THEN key_sem + 1 ELSE key_sem
                    /\ UNCHANGED blocked
       ELSE UNCHANGED <<irq, key_sem, blocked>>
    /\ UNCHANGED <<gameVars, pc, lockVars, uart_rx_sem, cmd_rb, cmd, nameVars,
                   active_pin, shown, typed>>

\* It comes up again: not the edge the interrupt is set for.
LetGo(p) ==
    /\ p \in pressed
    /\ pressed' = pressed \ {p}
    /\ UNCHANGED <<gameVars, pc, blocked, lockVars, semVars, cmd_rb, cmd,
                   nameVars, active_pin, irq, shown, envVars>>

-----------------------------------------------------------------------------
(* reset_game, called by the shell, lcd and cmd threads *)

\* Where the caller goes on after reset_game.
AfterReset(t) == CASE t = "shell" -> "start" [] t = "lcd" -> "relock"
                   [] t = "cmd" -> "unlock"

ResetTake(t) ==
    /\ \/ At(t, "resetFull") /\ Take(t, "clearFull")
       \/ At(t, "resetCurrent") /\ Take(t, "clearCurrent")
    /\ UNCHANGED <<gameVars, semVars, cmd_rb, cmd, nameVars, active_pin, pinVars,
                   shown, envVars>>

\* The common part, LCD_Clear, and for RESET_FULL the names.
ResetClear(t) ==
    /\ \/ /\ At(t, "clearFull") /\ Goto(t, "flushX")
          /\ name_x' = 0 /\ name_o' = 0
       \/ /\ At(t, "clearCurrent") /\ Goto(t, "resetDelay")
          /\ UNCHANGED <<name_x, name_o>>
    /\ ResetRound
    /\ shown' = <<>>
    /\ UNCHANGED <<blocked, lockVars, semVars, cmd_rb, cmd, len, active_pin,
                   pinVars, envVars>>

\* input_player_name: rt_ringbuffer_reset first.
NameFlush(t) ==
    /\ \/ At(t, "flushX") /\ Goto(t, "getX")
       \/ At(t, "flushO") /\ Goto(t, "getO")
    /\ cmd_rb' = <<>> /\ len' = 0
    /\ UNCHANGED <<gameVars, blocked, lockVars, semVars, cmd, name_x, name_o,
                   active_pin, pinVars, shown, envVars>>

\* No character: wait for the semaphore, then look again.
NameEmpty(t) ==
    /\ cmd_rb = <<>>
    /\ \/ At(t, "getX") /\ Goto(t, "waitX")
       \/ At(t, "getO") /\ Goto(t, "waitO")
    /\ UNCHANGED <<gameVars, blocked, lockVars, semVars, cmd_rb, cmd, nameVars,
                   active_pin, pinVars, shown, envVars>>

NameWait(t) ==
    /\ \/ At(t, "waitX") /\ TakeRxSem(t, "getX")
       \/ At(t, "waitO") /\ TakeRxSem(t, "getO")
    /\ UNCHANGED <<gameVars, lockVars, key_sem, cmd_rb, cmd, nameVars, active_pin,
                   pinVars, shown, envVars>>

\* Mutant: "len <= sizeof(buf) - 1", one character too many.
NameCharTooLong(t) ==
    LET eol  == Head(cmd_rb) = "eol"
        size == IF eol THEN len ELSE len + 1
        done == size > 0 /\ (eol \/ size > NameMax)
    IN  /\ cmd_rb # <<>>
        /\ At(t, "getX") \/ At(t, "getO")
        /\ cmd_rb' = Tail(cmd_rb)
        /\ len' = size
        /\ IF done
           THEN IF pc[t] = "getX"
                THEN name_x' = size /\ Goto(t, "flushO") /\ UNCHANGED name_o
                ELSE name_o' = size /\ Goto(t, "resetDelay") /\ UNCHANGED name_x
           ELSE UNCHANGED <<pc, name_x, name_o>>
        /\ UNCHANGED <<gameVars, blocked, lockVars, semVars, cmd, active_pin,
                       pinVars, shown, envVars>>

\* One character: a line end closes a name that is not empty and is skipped
\* otherwise; the name also ends when the buffer is full.
NameChar(t) ==
    LET eol  == Head(cmd_rb) = "eol"
        size == IF eol THEN len ELSE len + 1
        done == size > 0 /\ (eol \/ size = NameMax)
    IN  /\ cmd_rb # <<>>
        /\ At(t, "getX") \/ At(t, "getO")
        /\ cmd_rb' = Tail(cmd_rb)
        /\ len' = size
        /\ IF done
           THEN IF pc[t] = "getX"
                THEN name_x' = size /\ Goto(t, "flushO") /\ UNCHANGED name_o
                ELSE name_o' = size /\ Goto(t, "resetDelay") /\ UNCHANGED name_x
           ELSE UNCHANGED <<pc, name_x, name_o>>
        /\ UNCHANGED <<gameVars, blocked, lockVars, semVars, cmd, active_pin,
                       pinVars, shown, envVars>>

\* rt_thread_mdelay(2000) has passed: release and return.
ResetReturn(t) ==
    /\ At(t, "resetDelay") /\ Goto(t, AfterReset(t))
    /\ Release
    /\ UNCHANGED <<gameVars, semVars, cmd_rb, cmd, nameVars, active_pin, pinVars,
                   shown, envVars>>

-----------------------------------------------------------------------------
(* ox_game_start in the shell thread *)

Start ==
    /\ At("shell", "start")
    /\ pc' = [shell |-> "done", key |-> "take", lcd |-> "lock", cmd |-> "take"]
    /\ UNCHANGED <<gameVars, blocked, lockVars, semVars, cmd_rb, cmd, nameVars,
                   active_pin, pinVars, shown, envVars>>

-----------------------------------------------------------------------------
(* BUTTON_OK and 'e', cut in two *)

MayPlace == board[cursor] = 0 /\ state = "PLAYING"

\* The store to the board.
PutPiece ==
    /\ MayPlace
    /\ board' = [board EXCEPT ![cursor] = current_player + 1]
    /\ UNCHANGED <<cursor_x, cursor_y, current_player, total_steps, state, state_changed>>

\* The stores after it, the release, and on.
SettlePiece(t) ==
    /\ At(t, "settle") /\ Goto(t, IF t = "key" THEN "enable" ELSE "get")
    /\ total_steps' = total_steps + 1
    /\ state' = check_win(board, total_steps')
    /\ current_player' = 1 - current_player
    /\ state_changed' = TRUE
    /\ Release
    /\ UNCHANGED <<board, cursor_x, cursor_y, semVars, cmd_rb, cmd, nameVars, active_pin,
                   pinVars, shown, envVars>>

-----------------------------------------------------------------------------
(* key_thread_entry *)

KeyTake ==
    /\ At("key", "take") /\ Goto("key", "debounce")
    /\ IF key_sem > 0
       THEN key_sem' = key_sem - 1 /\ UNCHANGED blocked
       ELSE blocked' = [blocked EXCEPT !["key"] = "key_sem"] /\ UNCHANGED key_sem
    /\ UNCHANGED <<gameVars, lockVars, uart_rx_sem, cmd_rb, cmd, nameVars,
                   active_pin, pinVars, shown, envVars>>

\* Mutant: the game is changed without the mutex.
KeyLockNoTake ==
    /\ At("key", "debounce") /\ Goto("key", "scan")
    /\ UNCHANGED <<gameVars, blocked, lockVars, semVars, cmd_rb, cmd, nameVars, active_pin,
                   pinVars, shown, envVars>>

\* rt_thread_mdelay(20) has passed: take the mutex.
KeyLock ==
    /\ At("key", "debounce") /\ Take("key", "scan")
    /\ UNCHANGED <<gameVars, semVars, cmd_rb, cmd, nameVars, active_pin, pinVars,
                   shown, envVars>>

\* The levels rt_pin_read may see: a pressed button reads active; disabling
\* its interrupt (HAL_GPIO_DeInit) also switched off its pull resistor, so a
\* released button then reads either way.
Readings == {r \in SUBSET Pins : pressed \subseteq r /\ r \cap irq \subseteq pressed}

\* The first active button in the order of the if-chain.  Nothing active
\* leaves RT_NULL in active_pin, which is 0 and so is GET_PIN(A, 0), the OK pin.
ActivePin(r) ==
    CASE "LEFT" \in r -> "LEFT"
      [] "LEFT" \notin r /\ "RIGHT" \in r -> "RIGHT"
      [] r \cap {"LEFT", "RIGHT"} = {} /\ "DOWN" \in r -> "DOWN"
      [] OTHER -> "OK"

\* What is done at once: the moves, and nothing if no piece may be placed.
HandlePin(p) ==
    CASE p = "LEFT" -> MoveLeft
      [] p = "RIGHT" -> MoveRight
      [] p = "DOWN" -> MoveDown
      [] p = "OK" -> ~MayPlace /\ UNCHANGED gameVars

\* Mutant: the mutex is not released.
KeyScanNoRelease ==
    \E r \in Readings :
        /\ At("key", "scan")
        /\ active_pin' = ActivePin(r)
        /\ \/ /\ HandlePin(ActivePin(r))
              /\ Goto("key", "enable")
           \/ /\ ActivePin(r) = "OK" /\ PutPiece
              /\ Goto("key", "settle")
        /\ UNCHANGED <<blocked, lockVars, semVars, cmd_rb, cmd, nameVars,
                       pinVars, shown, envVars>>

KeyScan ==
    \E r \in Readings :
        /\ At("key", "scan")
        /\ active_pin' = ActivePin(r)
        /\ \/ /\ HandlePin(ActivePin(r))
              /\ Goto("key", "enable") /\ Release
           \/ /\ ActivePin(r) = "OK" /\ PutPiece
              /\ Goto("key", "settle") /\ UNCHANGED <<blocked, lockVars>>
        /\ UNCHANGED <<semVars, cmd_rb, cmd, nameVars, pinVars, shown, envVars>>

\* rt_pin_irq_enable(active_pin, RT_TRUE)
KeyEnable ==
    /\ At("key", "enable") /\ Goto("key", "take")
    /\ irq' = irq \cup {active_pin}
    /\ UNCHANGED <<gameVars, blocked, lockVars, semVars, cmd_rb, cmd, nameVars,
                   active_pin, pressed, shown, envVars>>

-----------------------------------------------------------------------------
(* lcd_thread_entry *)

LcdLock ==
    /\ \/ At("lcd", "lock") /\ Take("lcd", "draw")
       \/ At("lcd", "relock") /\ Take("lcd", "unlock")
    /\ UNCHANGED <<gameVars, semVars, cmd_rb, cmd, nameVars, active_pin, pinVars,
                   shown, envVars>>

\* Redraw if something changed; a finished game is announced for 2 s with
\* the mutex released.
LcdDraw ==
    /\ At("lcd", "draw")
    /\ IF state_changed
       THEN Redraw /\ shown' = Visible
       ELSE UNCHANGED <<gameVars, shown>>
    /\ Goto("lcd", IF state = "PLAYING" THEN "lock" ELSE "announce")
    /\ Release
    /\ UNCHANGED <<semVars, cmd_rb, cmd, nameVars, active_pin, pinVars, envVars>>

\* rt_thread_mdelay(2000) has passed: reset_game(RESET_CURRENT).
LcdAnnounced ==
    /\ At("lcd", "announce") /\ Goto("lcd", "resetCurrent")
    /\ UNCHANGED <<gameVars, blocked, lockVars, semVars, cmd_rb, cmd, nameVars,
                   active_pin, pinVars, shown, envVars>>

\* Mutant: the release after the announcement is missing.
LcdUnlockNoRelease ==
    /\ At("lcd", "unlock") /\ Goto("lcd", "lock")
    /\ UNCHANGED <<gameVars, blocked, lockVars, semVars, cmd_rb, cmd, nameVars,
                   active_pin, pinVars, shown, envVars>>

LcdUnlock ==
    /\ At("lcd", "unlock") /\ Goto("lcd", "lock")
    /\ Release
    /\ UNCHANGED <<gameVars, semVars, cmd_rb, cmd, nameVars, active_pin, pinVars,
                   shown, envVars>>

-----------------------------------------------------------------------------
(* cmd_thread_entry *)

CmdTake ==
    /\ At("cmd", "take") /\ TakeRxSem("cmd", "get")
    /\ UNCHANGED <<gameVars, lockVars, key_sem, cmd_rb, cmd, nameVars, active_pin,
                   pinVars, shown, envVars>>

CmdGet ==
    /\ At("cmd", "get")
    /\ IF cmd_rb = <<>>
       THEN Goto("cmd", "release") /\ UNCHANGED <<cmd_rb, cmd>>
       ELSE Goto("cmd", "lock") /\ cmd' = Head(cmd_rb) /\ cmd_rb' = Tail(cmd_rb)
    /\ UNCHANGED <<gameVars, blocked, lockVars, semVars, nameVars, active_pin,
                   pinVars, shown, envVars>>

CmdLock ==
    /\ At("cmd", "lock") /\ Take("cmd", "exec")
    /\ UNCHANGED <<gameVars, semVars, cmd_rb, cmd, nameVars, active_pin, pinVars,
                   shown, envVars>>

\* The commands that finish at once; line ends and anything else do nothing,
\* nor does 'e' if no piece may be placed.
HandleCmd(ch) ==
    CASE ch = "a" -> MoveLeft
      [] ch = "d" -> MoveRight
      [] ch = "s" -> MoveDown
      [] ch = "w" -> MoveUp
      [] ch = "e" -> ~MayPlace /\ UNCHANGED gameVars
      [] OTHER -> UNCHANGED gameVars

CmdExec ==
    /\ At("cmd", "exec") /\ cmd \notin {"r", "c"}
    /\ \/ /\ HandleCmd(cmd)
          /\ Goto("cmd", "get") /\ Release
       \/ /\ cmd = "e" /\ PutPiece
          /\ Goto("cmd", "settle") /\ UNCHANGED <<blocked, lockVars>>
    /\ UNCHANGED <<semVars, cmd_rb, cmd, nameVars, active_pin, pinVars, shown,
                   envVars>>

\* The resets take the mutex a second time.
CmdReset ==
    /\ At("cmd", "exec") /\ cmd \in {"r", "c"}
    /\ Goto("cmd", IF cmd = "r" THEN "resetFull" ELSE "resetCurrent")
    /\ UNCHANGED <<gameVars, blocked, lockVars, semVars, cmd_rb, cmd, nameVars,
                   active_pin, pinVars, shown, envVars>>

\* Mutant: the command returns with the mutex still held once.
CmdUnlockNoRelease ==
    /\ At("cmd", "unlock") /\ Goto("cmd", "get")
    /\ UNCHANGED <<gameVars, blocked, lockVars, semVars, cmd_rb, cmd, nameVars,
                   active_pin, pinVars, shown, envVars>>

CmdUnlock ==
    /\ At("cmd", "unlock") /\ Goto("cmd", "get")
    /\ Release
    /\ UNCHANGED <<gameVars, semVars, cmd_rb, cmd, nameVars, active_pin, pinVars,
                   shown, envVars>>

\* The buffer was empty: the thread releases the semaphore it waits on, then
\* sleeps for 5 ms.
CmdRelease ==
    /\ At("cmd", "release") /\ Goto("cmd", "take")
    /\ ReleaseRxSem
    /\ UNCHANGED <<gameVars, lockVars, key_sem, cmd_rb, cmd, nameVars, active_pin,
                   pinVars, shown, envVars>>

-----------------------------------------------------------------------------
ResetGame(t) == \/ ResetTake(t) \/ ResetClear(t) \/ ResetReturn(t)
                \/ NameFlush(t) \/ NameEmpty(t) \/ NameWait(t) \/ NameChar(t)

ShellThread == ResetGame("shell") \/ Start
KeyThread == KeyTake \/ KeyLock \/ KeyScan \/ SettlePiece("key") \/ KeyEnable
LcdThread == LcdLock \/ LcdDraw \/ LcdAnnounced \/ LcdUnlock \/ ResetGame("lcd")
CmdThread == \/ CmdTake \/ CmdGet \/ CmdLock \/ CmdExec \/ SettlePiece("cmd")
             \/ CmdReset \/ CmdUnlock \/ CmdRelease \/ ResetGame("cmd")

Environment ==
    \/ \E n \in 1..Batch : \E s \in [1..n -> Chars] : uart_rx_ind(s)
    \/ \E p \in Buttons : Press(p) \/ LetGo(p)

InitObjects ==
    /\ blocked = [t \in Threads |-> "no"]
    /\ owner = "none" /\ hold = 0
    /\ key_sem = 0 /\ uart_rx_sem = 0 /\ cmd_rb = <<>>
    /\ cmd = "eol" /\ len = 0 /\ active_pin = "OK"
    /\ pressed = {} /\ irq = Pins
    /\ shown = <<>>
    /\ typed = 0 /\ presses = 0

\* ox_game_init has created the objects and is about to call
\* reset_game(RESET_FULL); the static game is all zeros and the threads do
\* not exist yet.
FreshStart ==
    /\ board = EmptyBoard /\ cursor_x = 0 /\ cursor_y = 0
    /\ current_player = 0 /\ total_steps = 0
    /\ state = "PLAYING" /\ state_changed = FALSE
    /\ pc = [shell |-> "resetFull", key |-> "off", lcd |-> "off", cmd |-> "off"]
    /\ name_x = 0 /\ name_o = 0

\* The threads are running, a game is under way and nothing is pending: the
\* state after the moves on one of the StartBoards.
GameUnderWay ==
    /\ board \in StartBoards
    /\ cursor_x = 1 /\ cursor_y = 1
    /\ total_steps = Cardinality(Taken(board))
    /\ current_player = total_steps % 2
    /\ state = "PLAYING" /\ state_changed = TRUE
    /\ pc = [shell |-> "done", key |-> "take", lcd |-> "lock", cmd |-> "take"]
    /\ name_x = 1 /\ name_o = 1

Init == InitObjects /\ (FreshStart \/ GameUnderWay)

Next == ShellThread \/ KeyThread \/ LcdThread \/ CmdThread \/ Environment

Spec == Init /\ [][Next]_vars

\* A thread that can run does run in the end and a delay ends: the inputs
\* are finitely many, so no thread is starved for ever by one of higher
\* priority.  The user and the interrupts owe nothing.
Fairness == /\ WF_vars(ShellThread) /\ WF_vars(KeyThread)
            /\ WF_vars(LcdThread) /\ WF_vars(CmdThread)

FairSpec == Spec /\ Fairness

-----------------------------------------------------------------------------
(* Properties *)

Labels == {"off", "done", "resetFull", "resetCurrent", "clearFull",
           "clearCurrent", "flushX", "flushO", "getX", "getO", "waitX", "waitO",
           "resetDelay", "start", "take", "debounce", "scan", "enable", "lock",
           "draw", "announce", "relock", "unlock", "get", "exec", "settle", "release"}

\* The names fit their buffer, the ring buffer and the semaphores stay in
\* their limits and lcd_mutex nests at most twice.
TypeOK ==
    /\ BoardTypeOK
    /\ pc \in [Threads -> Labels]
    /\ blocked \in [Threads -> {"no", "mutex", "key_sem", "uart_rx_sem"}]
    /\ owner \in Threads \cup {"none"} /\ hold \in 0..2
    /\ key_sem \in 0..SemMax /\ uart_rx_sem \in 0..SemMax
    /\ cmd_rb \in Seq(Chars) /\ Len(cmd_rb) <= RbSize
    /\ cmd \in Chars \cup {"eol"}
    /\ name_x \in 0..NameMax /\ name_o \in 0..NameMax /\ len \in 0..NameMax
    /\ active_pin \in Pins
    /\ pressed \subseteq Pins /\ irq \subseteq Pins

\* How many times a thread at this point holds lcd_mutex: the reset inside a
\* command holds it twice.
Nesting(t) ==
    IF pc[t] \in {"clearFull", "clearCurrent", "flushX", "flushO", "getX",
                  "getO", "waitX", "waitO", "resetDelay"}
    THEN IF t = "cmd" THEN 2 ELSE 1
    ELSE IF pc[t] \in {"scan", "draw", "exec", "settle", "unlock"} THEN 1
    ELSE IF t = "cmd" /\ pc[t] \in {"resetFull", "resetCurrent"} THEN 1
    ELSE 0

\* lcd_mutex is held exactly as deep as the threads' code says: two threads
\* never draw or change the game at once, and every path through the nested
\* take and release calls is balanced.
LockBalanced ==
    \A t \in Threads :
        blocked[t] # "mutex" =>
            Nesting(t) = IF owner = t THEN hold ELSE 0

\* A thread is in the middle of placing a piece.
HalfPlaced == \E t \in Threads : pc[t] = "settle"

\* Once the game runs, the LCD shows it as it is whenever nothing is marked
\* as changed: no input, reset or name is ever missed by the refresh thread.
ScreenUpToDate == ~state_changed /\ ~HalfPlaced /\ pc["lcd"] # "off" => shown = Visible

\* The board without the piece that is being placed.
BoardSoFar == IF HalfPlaced THEN [board EXCEPT ![cursor] = 0] ELSE board

Rules == INSTANCE OXBoard WITH board <- BoardSoFar

\* Whatever the threads do to the game, and wherever one of them loses the
\* processor while it places a piece, the game goes by whole inputs: nobody
\* moves the cursor, places another piece, redraws or resets the game in the
\* middle of it.  So the invariants of OXBoard hold under concurrency.
PlaysByRules == [][Rules!BoardNext]_(Rules!gameVars)

\* The command thread never sleeps on the semaphore while a character is
\* waiting in the ring buffer: "process all instructions available in the
\* buffer" (OXGame.c, cmd_thread_entry).
NoCharForgotten == blocked["cmd"] = "uart_rx_sem" => cmd_rb = <<>>

\* A change is drawn in the end, unless a player is being asked for a name
\* (with the mutex held) and does not type one.
AskingName == \E t \in Threads : pc[t] \in {"getX", "getO", "waitX", "waitO"}
ChangesGetDrawn == state_changed ~> (~state_changed \/ AskingName)

\* A finished game gives way to a new one without any input.
GameRestarts == (state # "PLAYING") ~> (state = "PLAYING")

\* Every key event is consumed in the end, unless a name is being asked for.
KeysGetHandled == (key_sem > 0) ~> (key_sem = 0 \/ AskingName)

\* "temporarily disable the interrupt" (OXGame.c, button_isr): a pin whose
\* interrupt was switched off gets it back.
ButtonComesBack == \A p \in Pins : (p \notin irq) ~> (p \in irq \/ AskingName)

=============================================================================
