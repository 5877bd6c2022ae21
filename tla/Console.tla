------------------------------ MODULE Console -------------------------------
(***************************************************************************)
(* The console of the demo (demo/console.c): print() and read_line() on    *)
(* any core and the interrupt handler of core 0 share the UART, the screen *)
(* and the line that is being typed, under the spin lock.                  *)
(*                                                                         *)
(* Core c goes through the operations in todo[c].  Every access to memory  *)
(* that others can see is a step of its own; what is only seen inside of   *)
(* the lock is done at once, and with the store that frees it.  A key of   *)
(* the model is a word of a command, and takes one place on the screen.    *)
(***************************************************************************)
EXTENDS SpinLock, JtagUart, SequencesExt

CONSTANT InputMax   \* the size of the line that is read (64)

\* Core 0 exists, and has the interrupt and the user's commands.
ASSUME BspAssumption == 0 \in Cpu

VARIABLES
  alive, stopped,   \* the cores that exist, and those that are halted
  todo,       \* per core: operations that are left
  step,       \* per core: how far it is with the first of them
  num,        \* per core: this_cpu->num
  irqAt, irqOn,   \* core 0: where the handler is; that interrupts are on
  uart,
  screen,     \* the line with the cursor, its column, the line above
  input,      \* the line in the caller's memory
  inputBuf,   \* whether input_buf points to it
  inputLen, inputRun

consoleVars == <<uart, screen, input, inputBuf, inputLen, inputRun>>
line == <<input, inputBuf, inputLen, inputRun>>

\* Core 0 has an interrupt, which only the UART can give.  It is taken before the next
\* instruction, unless the core is somewhere between spin_lock and spin_unlock.
Interrupted == UartIrq(uart) /\ irqOn /\ irqAt = "no" /\ lk[0] = "out"

\* Core c goes on with its program.
Runs(c) == c \in alive /\ ~stopped[c] /\ (c = 0 => irqAt = "no" /\ ~Interrupted)
Next0(c, op) == Runs(c) /\ todo[c] # <<>> /\ Head(todo[c]).op = op
Become(c, ops) == todo' = [todo EXCEPT ![c] = ops \o Tail(@)]
Goto(c, s) == step' = [step EXCEPT ![c] = s]

-----------------------------------------------------------------------------
(***************************************************************************)
(* The screen.                                                             *)
(***************************************************************************)
Space == " "
Blanks(n) == [i \in 1 .. n |-> Space]

\* A line without the blanks at its end.
Visible(s) ==
  LET inked == {i \in DOMAIN s : s[i] # Space}
  IN IF inked = {} THEN <<>> ELSE SubSeq(s, 1, CHOOSE i \in inked : \A j \in inked : j <= i)

\* print_str, for what moves the cursor on, back to the margin, to a new line, and
\* back over a place that is blanked.  The UART takes every character.
Put(s, cells) ==
  LET end == s.col + Len(cells)
      cell(i) == IF s.col < i /\ i <= end THEN cells[i - s.col] ELSE s.line[i]
  IN [s EXCEPT !.col = end, !.line = [i \in 1 .. (IF end > Len(@) THEN end ELSE Len(@)) |-> cell(i)]]

Return(s) == [s EXCEPT !.col = 0]
NewLine(s) == [line |-> <<>>, col |-> 0, above |-> Visible(s.line)]
RubOut(s) == [s EXCEPT !.col = @ - 1, !.line[s.col] = Space]

Label(n) == <<"cpu0:", "cpu1:", "cpu2:", "cpu3:">>[n + 1]
Prompt(s) == Put(NewLine(s), <<">", Space>>)

-----------------------------------------------------------------------------
(***************************************************************************)
(* console_init, print and read_line.                                      *)
(***************************************************************************)
ConsoleInit(c) ==
  /\ Next0(c, "consoleinit") /\ Become(c, <<>>)
  /\ SpinInit
  /\ inputBuf' = FALSE
  /\ uart' = AfterControlWrite(uart, TRUE, FALSE, FALSE)
  /\ irqOn' = TRUE
  /\ UNCHANGED <<step, irqAt, screen, input, inputLen, inputRun>>

Locking == {"print", "setline", "poll"}

\* spin_lock for the program of the core.
LockStep(c) ==
  /\ \E op \in Locking : Next0(c, op)
  /\ Enter(c) \/ Ldrex(c) \/ Strex(c)
  /\ UNCHANGED <<todo, step, irqAt, irqOn, consoleVars>>

Holds(c, op) == Next0(c, op) /\ lk[c] = "in"

\* Every character that is written sets ac again; without a key or another tick of
\* the UART nothing else does.
PrintWait(c) ==
  /\ Holds(c, "print") /\ step[c] = "go" /\ ControlRead(uart).ac
  /\ Goto(c, "text")
  /\ UNCHANGED <<lockVars, todo, irqAt, irqOn, consoleVars>>

\* The prompt and what has been typed are blanked before something shorter is put there.
EraseNothing(s) == Put(Return(s), Blanks(2))
Erase(s) == Put(Return(s), Blanks(2 + inputLen))

PrintText(c) ==
  /\ Holds(c, "print") /\ step[c] = "text"
  /\ screen' = Put(Return(Erase(screen)), <<Label(num[c]), Head(todo[c]).text>>)
  /\ uart' = AfterDataWrite(uart)
  /\ Goto(c, "prompt")
  /\ UNCHANGED <<lockVars, todo, irqAt, irqOn, line>>

\* What is shown again behind the prompt.
AgainAlways == IF inputBuf THEN input ELSE <<>>
Again == IF ~inputRun /\ inputBuf THEN input ELSE <<>>

PrintPrompt(c) ==
  /\ Holds(c, "print") /\ step[c] = "prompt"
  /\ screen' = Put(Prompt(screen), Again)
  /\ uart' = AfterControlWrite(AfterDataWrite(uart), TRUE, FALSE, TRUE)
  /\ Unlock(c) /\ Become(c, <<>>) /\ Goto(c, "go")
  /\ UNCHANGED <<irqAt, irqOn, line>>

\* read_line.  buf[0] is written before the lock is taken; nobody looks at it then.
SetLine(c) ==
  /\ Holds(c, "setline")
  /\ input' = <<>> /\ inputBuf' = TRUE /\ inputLen' = 0
  /\ Unlock(c) /\ Become(c, <<>>)
  /\ UNCHANGED <<step, irqAt, irqOn, uart, screen, inputRun>>

PollAgain(c) ==
  /\ Holds(c, "poll") /\ ~inputRun
  /\ Unlock(c)
  /\ UNCHANGED <<todo, step, irqAt, irqOn, consoleVars>>

\* A line has been typed; the caller goes on with `ops'.
Poll(c, ops) ==
  /\ Holds(c, "poll") /\ inputRun
  /\ inputBuf' = FALSE /\ inputLen' = 0 /\ inputRun' = FALSE
  /\ Unlock(c) /\ Become(c, ops)
  /\ UNCHANGED <<step, irqAt, irqOn, uart, screen, input>>

-----------------------------------------------------------------------------
(***************************************************************************)
(* The interrupt of core 0.                                                *)
(***************************************************************************)
Irq ==
  /\ Interrupted /\ ~stopped[0]
  /\ irqAt' = "lock"
  /\ UNCHANGED <<lockVars, todo, step, irqOn, consoleVars>>

IrqLock ==
  /\ irqAt # "no" /\ ~stopped[0]
  /\ Enter(0) \/ Ldrex(0) \/ Strex(0)
  /\ UNCHANGED <<todo, step, irqAt, irqOn, consoleVars>>

\* What a key does to the line and the screen.
Key(key) ==
  CASE inputRun \/ ~inputBuf -> UNCHANGED <<screen, line>>
    [] ~inputRun /\ inputBuf /\ key = "del" ->
         /\ UNCHANGED <<inputBuf, inputRun>>
         /\ IF inputLen > 0
              THEN /\ inputLen' = inputLen - 1
                   /\ input' = Front(input)
                   /\ screen' = RubOut(screen)
              ELSE UNCHANGED <<inputLen, input, screen>>
    [] ~inputRun /\ inputBuf /\ key = "nl" ->
         /\ inputRun' = TRUE /\ inputLen' = 0
         /\ screen' = Prompt(screen)
         /\ UNCHANGED <<input, inputBuf>>
    [] OTHER ->
         /\ UNCHANGED <<inputBuf, inputRun>>
         /\ IF inputLen < InputMax - 1 /\ key # "esc"
              THEN /\ inputLen' = inputLen + 1
                   /\ input' = Append(input, key)
                   /\ screen' = Put(screen, <<key>>)
              ELSE UNCHANGED <<inputLen, input, screen>>

Wrote == screen' # screen

\* One turn of the loop.  The handler ends when there was no key, or none is left.
IrqKey ==
  LET data == DataRead(uart)
  IN /\ irqAt = "lock" /\ lk[0] = "in" /\ ~stopped[0]
     /\ IF data.valid THEN Key(data.key) ELSE UNCHANGED <<screen, line>>
     /\ uart' = IF Wrote THEN AfterDataWrite(AfterDataRead(uart)) ELSE AfterDataRead(uart)
     /\ IF data.valid /\ data.left > 0
          THEN UNCHANGED <<lockVars, irqAt>>
          ELSE Unlock(0) /\ irqAt' = "no"
     /\ UNCHANGED <<todo, step, irqOn>>

ConsoleStep(c, ops) ==
  \/ ConsoleInit(c) \/ LockStep(c)
  \/ PrintWait(c) \/ PrintText(c) \/ PrintPrompt(c)
  \/ SetLine(c) \/ PollAgain(c) \/ Poll(c, ops)

IrqStep == Irq \/ IrqLock \/ IrqKey

ConsoleStart ==
  /\ LockInit
  /\ irqAt = "no" /\ irqOn = FALSE
  /\ uart = UartReset
  /\ screen = [line |-> <<>>, col |-> 0, above |-> <<>>]
  /\ input = <<>> /\ inputBuf = FALSE /\ inputLen = 0 /\ inputRun = FALSE

-----------------------------------------------------------------------------
\* Whenever the lock is free the line with the cursor shows exactly what a newline
\* would hand to read_line: the prompt and the typed line, or the prompt alone when
\* none is being read or it is complete, however prints, keys and deletions fall
\* (console.c:100-104 blank the line, 156-158 show it again).
PromptShowsInput ==
  lockVal = 0 =>
    \/ Visible(screen.line) = <<>>
    \/ Visible(screen.line) = Visible(<<">", Space>> \o (IF inputBuf /\ ~inputRun THEN input ELSE <<>>))

\* A line that has scrolled up is what one core has printed in one piece, with
\* nothing left of a longer line that had been typed there, or a prompt with at most
\* a whole typed line.
LinesWhole ==
  LET above == screen.above
  IN \/ above = <<>> \/ above[1] = ">"
     \/ Len(above) = 2 /\ \E c \in alive : above[1] = Label(c)
=============================================================================
