------------------------------ MODULE Console ------------------------------
(***************************************************************************)
(* kernel/printk.c and arch/aarch64/uart.c, with the kernel's callers: the *)
(* kernel_main() thread, tasks A and B, and scheduler_tick(), which prints *)
(* from the timer's interrupt.  They share the UART without a lock.        *)
(*                                                                         *)
(* Who runs is RoundRobin's matter, which module Kernel implements; a tick *)
(* may come between any two steps of a task, and runs to its end.          *)
(* printk() reads its arguments once and keeps nothing outside its stack,  *)
(* so a call is the sequence of characters that it hands to uart_putc().   *)
(* A run of ordinary characters of a format counts as one.                 *)
(***************************************************************************)
EXTENDS Integers, SequencesExt

CONSTANTS
  Depth,                \* characters that the UART's FIFO takes, 16 in a PL011
  UnmaskAtBoot,         \* as in module Kernel: is main.c:98 in effect?
  Slice,                \* ticks in a turn, Priority of module Scheduler
  Period,               \* ticks between two messages of the tick, 1000 in the source
  Seconds               \* bound: system_ticks goes back by the last one over and over

ASSUME ConsoleAssumption ==
  /\ Depth \in Nat \ {0} /\ UnmaskAtBoot \in BOOLEAN
  /\ Slice \in Nat \ {0} /\ Period \in Nat \ {0}
  /\ Seconds \in 1 .. 99      \* of which Numeral has the digits

\* Slots 1 to 3 of task[], and the timer's handler.
KernelMain == 1
TaskA == 2
TaskB == 3
Tasks == {KernelMain, TaskA, TaskB}
Tick == 0
Writers == Tasks \cup {Tick}

VARIABLES
  instant,              \* the UART sends what it is given at once: QEMU's does
  masked,               \* SPSR/DAIF's I bit while a task runs
  n, turn, left,        \* RoundRobin's: tasks, whose turn it is, ticks left of it
  path,                 \* "task", or where the timer's interrupt is
  ticks,                \* system_ticks
  told,                 \* lines that kernel_main() has printed
  line,                 \* for each writer, its latest call of printk()
  todo,                 \* for each writer, what that call has still to put
  ready,                \* uart_putc() has found room, for each writer
  room,                 \* free places in the FIFO
  shown                 \* for each writer, what of its latest call went out

schedVars == <<n, turn, left>>
uartVars == <<todo, ready, room, shown>>
vars == <<instant, masked, schedVars, path, ticks, told, line, uartVars>>

Sched == INSTANCE RoundRobin

-----------------------------------------------------------------------------
(* What the kernel prints: formats and arguments, and what a reader should see *)

DIGITS == <<"0", "1", "2", "3", "4", "5", "6", "7",
            "8", "9", "a", "b", "c", "d", "e", "f">>

\* The numeral of v, which has two digits at most.
Numeral(v, base) ==
  IF v < base THEN <<DIGITS[v + 1]>>
  ELSE <<DIGITS[(v \div base) + 1], DIGITS[(v % base) + 1]>>

\* The newline, which belongs to the last run of characters if there is one.
NEWLINE == "newline"

Line(format, args, text) == [format |-> format, args |-> args, text |-> text]

NoLine == Line(<<>>, <<>>, <<>>)

\* main.c:53: printk("[%s:%] Initialize kernel start.\n", __FUNCTION__, __LINE__)
StartLine ==
  Line(<<"[", "%", "s", ":", "%", "]", "start">>, <<<<"kernel_main">>, 53>>,
       <<"[", "kernel_main", ":">> \o Numeral(53, 10) \o <<"]", "start">>)

\* main.c:103: printk("p_mem = %x\n", (uint64_t)p_mem), of whose value two digits
MemLine ==
  Line(<<"p_mem=", "%", "x", NEWLINE>>, <<176>>,
       <<"p_mem=">> \o Numeral(176, 16) \o <<NEWLINE>>)

\* One line that is printed masked and one that is not, for the others of main.c.
KernelMainLines == <<StartLine, MemLine>>

\* A task's line is two characters, so that something can come between them.
TaskLine(t) ==
  LET text == <<IF t = TaskA THEN "Task_A" ELSE "Task_B", "is_running">>
  IN Line(text, <<>>, text)

\* schedule.c:104: printk("System Time: %d seconds.\n", this->system_ticks / 1000)
TickLine(seconds) ==
  Line(<<"System_Time:", "%", "d", "seconds.">>, <<seconds>>,
       <<"System_Time:">> \o Numeral(seconds, 10) \o <<"seconds.">>)

-----------------------------------------------------------------------------
(* printk() *)

\* buff of print_number(): the digits from the last to the first.
Buff(val, base) ==
  LET digits[v \in 0 .. val] ==
        IF v = 0 THEN <<>> ELSE <<DIGITS[(v % base) + 1]>> \o digits[v \div base]
  IN digits[val]

PrintNumber(val, base) ==
  IF val = 0 THEN <<"0">> ELSE Reverse(Buff(val, base))

\* One directive, its argument the next one: what it puts and how many it takes.
Directive(c, args) ==
  CASE c = "s" -> [text |-> args[1], takes |-> 1]
    [] c = "d" -> [text |-> PrintNumber(args[1], 10), takes |-> 1]
    [] c = "x" -> [text |-> PrintNumber(args[1], 16), takes |-> 1]
    [] c = "%" -> [text |-> <<"%">>, takes |-> 0]
    [] OTHER   -> [text |-> <<"%", c>>, takes |-> 0]

\* What printk() hands to uart_putc(), from the i-th character of the format on.
Output(f, args) ==
  LET put[i \in Nat \ {0}] ==
        [k \in Nat |->
          IF i > Len(f) THEN <<>>
          ELSE IF f[i] # "%" THEN <<f[i]>> \o put[i + 1][k]
          ELSE LET d == Directive(f[i + 1], SubSeq(args, k, Len(args)))
               IN d.text \o put[i + 2][k + d.takes]]
  IN put[1][1]

Printk_SharedBuffer(w, call) ==
  /\ line' = [line EXCEPT ![w] = call]
  /\ todo' = [v \in Writers |-> IF v = w \/ todo[v] # <<>> THEN Output(call.format, call.args) ELSE <<>>]
  /\ shown' = [shown EXCEPT ![w] = <<>>]
  /\ UNCHANGED <<ready, room>>

\* A call of printk().
Printk(w, call) ==
  /\ line' = [line EXCEPT ![w] = call]
  /\ todo' = [todo EXCEPT ![w] = Output(call.format, call.args)]
  /\ shown' = [shown EXCEPT ![w] = <<>>]
  /\ UNCHANGED <<ready, room>>

Printing(w) == todo[w] # <<>>

-----------------------------------------------------------------------------
(* uart_putc() by the code that runs, and the UART *)

\* The code that has the CPU; none between the tick and the switch.
Runs(w) ==
  \/ w = Tick /\ path = "tick"
  \/ w = turn /\ path = "task"

FindRoom_NotAwaited(w) ==
  /\ Runs(w) /\ Printing(w) /\ ~ ready[w]
  /\ ready' = [ready EXCEPT ![w] = TRUE]
  /\ UNCHANGED <<instant, masked, schedVars, path, ticks, told, line, todo, room, shown>>

\* FR.TXFF is clear: the loop ends.  Set, it goes on.
FindRoom(w) ==
  /\ Runs(w) /\ Printing(w) /\ ~ ready[w]
  /\ room > 0
  /\ ready' = [ready EXCEPT ![w] = TRUE]
  /\ UNCHANGED <<instant, masked, schedVars, path, ticks, told, line, todo, room, shown>>

\* What has gone out of a line that has lost a character: no more is said of it.
CUT == <<"cut">>

SendChar_NotAdvanced(w) ==
  /\ Runs(w) /\ ready[w]
  /\ ready' = [ready EXCEPT ![w] = FALSE]
  /\ room' = IF room = 0 \/ instant THEN room ELSE room - 1
  /\ UNCHANGED <<instant, masked, schedVars, path, ticks, told, line, todo, shown>>

\* The write to DR, and on to the next character.  A full FIFO drops what is written.
SendChar(w) ==
  /\ Runs(w) /\ ready[w]
  /\ ready' = [ready EXCEPT ![w] = FALSE]
  /\ todo' = [todo EXCEPT ![w] = Tail(@)]
  /\ IF room = 0 THEN shown' = [shown EXCEPT ![w] = CUT] /\ UNCHANGED room
     ELSE /\ shown' = [shown EXCEPT ![w] = IF @ = CUT THEN CUT ELSE Append(@, Head(todo[w]))]
          /\ room' = IF instant THEN room ELSE room - 1
  /\ UNCHANGED <<instant, masked, schedVars, path, ticks, told, line>>

\* The UART sends a character of its FIFO.
Transmit ==
  /\ room < Depth
  /\ room' = room + 1
  /\ UNCHANGED <<instant, masked, schedVars, path, ticks, told, line, todo, ready, shown>>

-----------------------------------------------------------------------------
(* The callers *)

\* A task calls printk().
TaskPrints(t, call) ==
  /\ Runs(t) /\ ~ Printing(t)
  /\ Printk(t, call)
  /\ UNCHANGED <<instant, masked, schedVars, path, ticks>>

\* kernel_main() prints its first line masked, the others when BootUnmask has been,
\* if it ever is; then it waits.
KernelMainPrints ==
  /\ told < Len(KernelMainLines)
  /\ masked /\ UnmaskAtBoot => told = 0
  /\ TaskPrints(KernelMain, KernelMainLines[told + 1])
  /\ told' = told + 1

\* main.c:98, a comment as committed: a step of the code only with UnmaskAtBoot.
BootUnmask ==
  /\ UnmaskAtBoot
  /\ Runs(KernelMain) /\ ~ Printing(KernelMain)
  /\ told = 1 /\ masked
  /\ masked' = FALSE
  /\ UNCHANGED <<instant, schedVars, path, ticks, told, line, uartVars>>

\* task_a_main() and task_b_main()
TestTaskPrints(t) ==
  /\ t # KernelMain
  /\ TaskPrints(t, TaskLine(t))
  /\ UNCHANGED told

\* The timer's interrupt, up to the message of scheduler_tick().
TakeTick ==
  /\ path = "task" /\ ~ masked
  /\ path' = "tick"
  /\ ticks' = IF ticks = Period * Seconds THEN ticks - Period + 1 ELSE ticks + 1
  /\ IF ticks' % Period = 0
     THEN Printk(Tick, TickLine(ticks' \div Period))
     ELSE UNCHANGED <<line, uartVars>>
  /\ UNCHANGED <<instant, masked, schedVars, told>>

\* The rest of scheduler_tick().
TickCounts ==
  /\ path = "tick" /\ ~ Printing(Tick)
  /\ Sched!Tick
  /\ path' = "check"
  /\ UNCHANGED <<instant, masked, ticks, told, line, uartVars>>

\* check_resched() and the way out, into the next task when the turn is used up.
TickReturns ==
  /\ path = "check"
  /\ IF left = 0 THEN Sched!Rotate ELSE UNCHANGED schedVars
  /\ path' = "task"
  /\ UNCHANGED <<instant, masked, ticks, told, line, uartVars>>

-----------------------------------------------------------------------------
Init ==
  /\ instant \in BOOLEAN /\ masked = TRUE
  /\ n = Cardinality(Tasks) /\ turn = KernelMain /\ left = Slice
  /\ path = "task" /\ ticks = 0 /\ told = 0
  /\ line = [w \in Writers |-> NoLine]
  /\ todo = [w \in Writers |-> <<>>]
  /\ ready = [w \in Writers |-> FALSE]
  /\ room = Depth
  /\ shown = [w \in Writers |-> <<>>]

Putc(w) == FindRoom(w) \/ SendChar(w)

TaskStep(t) ==
  \/ Putc(t) \/ TestTaskPrints(t)
  \/ t = KernelMain /\ (KernelMainPrints \/ BootUnmask)

\* The timer's interrupt: each step is the only one of these that is possible.
TickPath == TakeTick \/ Putc(Tick) \/ TickCounts \/ TickReturns

Next == (\E t \in Tasks : TaskStep(t)) \/ TickPath \/ Transmit

Spec == Init /\ [][Next]_vars

(***************************************************************************)
(* The CPU executes the handler, ticks keep coming, the UART keeps sending *)
(* and a task that runs again and again gets on between two ticks: the     *)
(* handler takes less than a period (PromptTick of module Kernel).         *)
(***************************************************************************)
FairSpec ==
  /\ Spec
  /\ WF_vars(TickPath) /\ WF_vars(Transmit)
  /\ \A t \in Tasks : SF_vars(TaskStep(t))

-----------------------------------------------------------------------------
(* Properties *)

TypeOK ==
  /\ instant \in BOOLEAN /\ masked \in BOOLEAN
  /\ turn \in Tasks /\ left \in 0 .. Slice
  /\ path \in {"task", "tick", "check"}
  /\ ticks \in 0 .. Period * Seconds
  /\ told \in 0 .. Len(KernelMainLines)
  /\ room \in 0 .. Depth
  /\ ready \in [Writers -> BOOLEAN]
  /\ \A w \in Writers : ready[w] => Printing(w)

\* What has gone out of the latest call of w and what is to come is what a reader of
\* the call expects: nothing lost, repeated, out of order or of somebody else's, and
\* every number reads back as its argument.
Complete(w) == shown[w] \o todo[w] = line[w].text

\* When the UART sends at once, the characters of every line come out, whoever prints at
\* the same time; on the wire others' may be between them.  Not so the first line, whose format says something else than its arguments
\* (main.c:53).  Behind a FIFO the room that uart_putc() has found may be gone when it
\* writes, and a task's line loses a character.
LinesComplete ==
  instant => \A w \in Writers : line[w] = StartLine \/ Complete(w)

\* The tick's line is written masked, and is whole behind a FIFO of any depth too.
TickLineComplete == Complete(Tick)

\* The tick's printk() returns, which holds up the whole kernel; a task's does when the
\* UART sends at once.  Behind a FIFO others may fill it whenever the task looks.
PrintkReturns ==
  \A w \in Writers : (instant \/ w = Tick) /\ Printing(w) ~> ~ Printing(w)
=============================================================================
