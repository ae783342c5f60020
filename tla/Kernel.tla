------------------------------- MODULE Kernel -------------------------------
(***************************************************************************)
(* CPU/Interrupts.cpp, interruptstab.s, syscall.cpp, kernel/MultiTask.cpp  *)
(* and the part of kernelMain that turns interrupts on: who runs on the    *)
(* processor, what the interrupt controllers take to be in service, and    *)
(* what the shell's commands do to both.                                   *)
(*                                                                         *)
(* The shell runs inside the keyboard's interrupt handler.  The interrupt  *)
(* controllers (external) hand an interrupt to a processor that has        *)
(* interrupts on if nothing as urgent is in service; an interrupt stays in *)
(* service until the end-of-interrupt command, which ends the most urgent  *)
(* one.  Handlers start with interrupts off, but a sound turns them on and *)
(* sleeps (kernel.cpp:77-84): the rest of that handler, and its way out,   *)
(* can be interrupted.                                                     *)
(***************************************************************************)
EXTENDS Integers, Sequences

CONSTANTS Lines,       \* the interrupt lines that devices use
          Card,        \* the AM79C973's line, from its PCI header
          TaskNumbers, \* the numbers that may follow "tsk"
          Beats,       \* the hlts of a sound: 16 in BootSound, 6 in beep
          MaxTails     \* BOUND on handlers interrupted on their way out

Timer == 0
Keyboard == 1

ASSUME KernelAssumption ==
    /\ Lines \subseteq 0 .. 15 /\ {Timer, Keyboard, Card} \subseteq Lines
    /\ Card \notin {Timer, Keyboard}
    /\ TaskNumbers \subseteq Int
    /\ Beats \in Nat \ {0} /\ MaxTails \in Nat

NumTasks == 2   \* kernel.cpp:2323-2326

VARIABLES
    hasCard,   \* SelectDrivers found an AM79C973 on the PCI bus
    boot,      \* where kernelMain is
    base,      \* what runs below the handlers: kernelMain or a task
    mainBeats, \* the hlts that kernelMain's sound has left
    numTasks,  \* TaskManager::numTasks
    iflag,     \* the processor's interrupt flag
    halted,    \* the processor is in a hlt
    handlers,  \* the handlers on the stack, the running one last
    pending,   \* lines that ask for service
    inService, \* lines the controllers take to be in service
    spinning,  \* the command that holds the processor with interrupts off, or none
    marks      \* ghost: what happened to the processor once, see Marks

main == <<hasCard, boot, base, mainBeats, numTasks>>
cpu  == <<iflag, halted, handlers>>
pic  == <<pending, inService>>
fate == <<spinning, marks>>
vars == <<main, cpu, pic, fate>>

\* kernelMain's places, in the order it passes them.
Places == <<"off", "network", "unmanaged", "masked", "managed", "sounding", "ready">>

\* Commands that may keep the processor to themselves: the web server's loop; "spi",
\* which waits for a byte (SerialPort.cpp:83); a program that "exec" started
\* (FATFS.cpp:239-255); a loop of "echo", "spo", "exec" or of an unknown command that
\* looks for Enter past the line (Keyboard.cpp:329, 448, 652), or of a disk's command.
Spinners == {"server", "serial", "program", "loop"}

\* A task was switched to, an interrupt came to no manager, control is lost, the
\* processor was halted for good.
Marks == {"switched", "unmanaged", "wild", "stopped"}

\* A handler: its line, whether its end-of-interrupt command was sent, and the
\* hlts its sound has left.
Handler == [line : Lines, acked : BOOLEAN, beats : 0 .. Beats]

TypeOK ==
    /\ hasCard \in BOOLEAN
    /\ boot \in {Places[i] : i \in 1 .. Len(Places)}
    /\ base \in {"kernelMain", "task"}
    /\ mainBeats \in 0 .. Beats
    /\ numTasks \in 0 .. NumTasks
    /\ iflag \in BOOLEAN /\ halted \in BOOLEAN
    /\ spinning \in Spinners \cup {"none"}
    /\ handlers \in Seq(Handler)
    /\ pending \subseteq Lines /\ inService \subseteq Lines
    /\ marks \subseteq Marks
-----------------------------------------------------------------------------
\* The master controller's order; lines 8 to 15 come through its line 2.
Urgency(n) == IF n >= 8 THEN 2 ELSE n

MostUrgent(s) == {n \in s : \A m \in s : Urgency(n) <= Urgency(m)}

\* The slave's command is forgotten, or a command ends everything.
AfterEoiMasterOnly(n) ==
    IF n >= 8 THEN inService ELSE inService \ MostUrgent(inService)

\* What one end-of-interrupt command to the master, and one to the slave for a
\* line of its own, leave in service.
AfterEoi(n) ==
    IF n >= 8 THEN inService \ (MostUrgent(inService) \cup {n})
    ELSE inService \ MostUrgent(inService)

\* The processor runs code of the kernel's.
Executes == ~halted /\ spinning = "none" /\ "wild" \notin marks

\* It is in kernelMain, and not in a handler or in a sound.
InMain == Executes /\ handlers = << >> /\ base = "kernelMain" /\ mainBeats = 0

Running == handlers[Len(handlers)]
InHandler == Executes /\ handlers # << >>
Finished == SubSeq(handlers, 1, Len(handlers) - 1)

\* The keyboard's handler is about to run a command: Enter was pressed.
AtCommand == InHandler /\ Running.line = Keyboard /\ ~Running.acked /\ ~iflag
-----------------------------------------------------------------------------
Init ==
    /\ hasCard \in BOOLEAN
    /\ boot = "off" /\ base = "kernelMain" /\ mainBeats = 0 /\ numTasks = 0
    /\ iflag = FALSE /\ halted = FALSE /\ handlers = << >>
    /\ pending = {} /\ inService = {}
    /\ spinning = "none" /\ marks = {}

(* kernelMain.                                                             *)

GoesOn(from, to) == InMain /\ boot = from /\ boot' = to

\* kernel.cpp:2205: the first Activate, for the network's sake.
ActivateForNetwork ==
    /\ GoesOn("off", "network") /\ hasCard
    /\ iflag' = TRUE
    /\ UNCHANGED <<hasCard, base, mainBeats, numTasks, halted, handlers, pic, fate>>

\* kernel.cpp:2285: Activate when nothing was active.
ActivateFirst ==
    /\ GoesOn("off", "managed") /\ ~hasCard
    /\ iflag' = TRUE
    /\ UNCHANGED <<hasCard, base, mainBeats, numTasks, halted, handlers, pic, fate>>

\* Activate when this manager is active calls Deactivate, which first forgets
\* the manager (Interrupts.cpp:147) and then turns interrupts off (148).
Forget ==
    /\ GoesOn("network", "unmanaged")
    /\ UNCHANGED <<hasCard, base, mainBeats, numTasks, cpu, pic, fate>>

Mask ==
    /\ GoesOn("unmanaged", "masked")
    /\ iflag' = FALSE
    /\ UNCHANGED <<hasCard, base, mainBeats, numTasks, halted, handlers, pic, fate>>

\* Interrupts.cpp:139-140.
ActivateAgain ==
    /\ GoesOn("masked", "managed")
    /\ iflag' = TRUE
    /\ UNCHANGED <<hasCard, base, mainBeats, numTasks, halted, handlers, pic, fate>>

\* kernel.cpp:2287.
BootSound ==
    /\ GoesOn("managed", "sounding")
    /\ iflag' = TRUE /\ mainBeats' = Beats
    /\ UNCHANGED <<hasCard, base, numTasks, halted, handlers, pic, fate>>

\* One task more than there are.
AddTaskOnceMore ==
    /\ InMain /\ boot = "sounding" /\ numTasks <= NumTasks
    /\ numTasks' = numTasks + 1
    /\ UNCHANGED <<hasCard, boot, base, mainBeats, cpu, pic, fate>>

\* kernel.cpp:2323-2326.
AddTask ==
    /\ InMain /\ boot = "sounding" /\ numTasks < NumTasks
    /\ numTasks' = numTasks + 1
    /\ UNCHANGED <<hasCard, boot, base, mainBeats, cpu, pic, fate>>

\* kernel.cpp:2332: from here on TaskManager::ActiveManager is set.
MakeDefault ==
    /\ GoesOn("sounding", "ready") /\ numTasks = NumTasks
    /\ UNCHANGED <<hasCard, base, mainBeats, numTasks, cpu, pic, fate>>

(* Interrupts.                                                             *)

\* A device asks for service.
Raise(n) ==
    /\ n = Card => hasCard
    /\ pending' = pending \cup {n}
    /\ UNCHANGED <<main, cpu, inService, fate>>

\* The processor's interrupt flag is not asked.
DeliverableUnmasked(n) ==
    /\ n \in pending /\ "wild" \notin marks
    /\ \A m \in inService : Urgency(n) < Urgency(m)

\* The processor can be given line n.
Deliverable(n) ==
    /\ n \in pending /\ iflag /\ "wild" \notin marks
    /\ \A m \in inService : Urgency(n) < Urgency(m)

\* HandleInterrupt with a manager, line 155.  The gates are interrupt gates: the
\* handler starts with interrupts off (56).  A hlt ends.
Deliver(n) ==
    /\ Deliverable(n) /\ boot # "unmanaged"
    /\ handlers # << >> /\ Running.acked => Len(handlers) <= MaxTails
    /\ pending' = pending \ {n} /\ inService' = inService \cup {n}
    /\ handlers' = Append(handlers, [line |-> n, acked |-> FALSE, beats |-> 0])
    /\ iflag' = FALSE /\ halted' = FALSE
    /\ UNCHANGED <<main, fate>>

\* HandleInterrupt without one, line 156: it returns at once, and no
\* end-of-interrupt command is sent.
DeliverUnmanaged(n) ==
    /\ Deliverable(n) /\ boot = "unmanaged"
    /\ pending' = pending \ {n} /\ inService' = inService \cup {n}
    /\ marks' = marks \cup {"unmanaged"}
    /\ UNCHANGED <<main, cpu, spinning>>

\* DoHandleInterrupt, lines 177-181, after the handler.
EndOfInterrupt ==
    /\ inService' = AfterEoi(Running.line)
    /\ handlers' = [handlers EXCEPT ![Len(handlers)].acked = TRUE]
    /\ UNCHANGED <<main, iflag, halted, pending, marks>>

\* The handler is done: one that returns, a line without one, and every shell
\* command but those below.
Acknowledge ==
    /\ InHandler /\ ~Running.acked /\ Running.beats = 0
    /\ EndOfInterrupt
    /\ UNCHANGED spinning

\* The saved flags are lost, and interrupts stay as they are.
HandlerReturnsMasked ==
    /\ InHandler /\ Running.acked
    /\ handlers' = Finished
    /\ UNCHANGED <<main, iflag, halted, pic, fate>>

\* interruptstab.s:93-121: what was interrupted had interrupts on.
HandlerReturns ==
    /\ InHandler /\ Running.acked
    /\ handlers' = Finished
    /\ iflag' = TRUE
    /\ UNCHANGED <<main, halted, pic, fate>>

\* The loop of wait, kernel.cpp:80-83, in kernelMain or in the running handler.
Halt ==
    /\ Executes
    /\ halted' = TRUE
    /\ \/ /\ handlers = << >> /\ mainBeats > 0
          /\ mainBeats' = mainBeats - 1
          /\ UNCHANGED handlers
       \/ /\ handlers # << >> /\ Running.beats > 0
          /\ handlers' = [handlers EXCEPT ![Len(handlers)].beats = @ - 1]
          /\ UNCHANGED mainBeats
    /\ UNCHANGED <<hasCard, boot, base, numTasks, iflag, pic, fate>>

(* Commands of the shell.                                                  *)

\* "bmus" and "beep" (Keyboard.cpp:516-520, 606-609): wait turns interrupts on
\* (kernel.cpp:79) and nothing turns them off before the handler returns.
Sound ==
    /\ AtCommand
    /\ iflag' = TRUE
    /\ handlers' = [handlers EXCEPT ![Len(handlers)].beats = Beats]
    /\ UNCHANGED <<main, halted, pic, fate>>

\* A hlt with interrupts off: "sd h" (PowerControl.cpp:16), or "lspt" when it takes
\* a file for the init program (FATFS.cpp:135).
StopForGood ==
    /\ AtCommand
    /\ halted' = TRUE
    /\ marks' = marks \cup {"stopped"}
    /\ UNCHANGED <<main, iflag, handlers, pic, spinning>>

\* Keyboard.cpp:521-525 and kernel.cpp:2090-2111: it never returns.
StartWEBServer ==
    /\ AtCommand /\ hasCard
    /\ spinning' = "server"
    /\ UNCHANGED <<main, cpu, pic, marks>>

\* Any other of the Spinners (Keyboard.cpp:329, 446-456, 646): it runs with interrupts
\* off.  A program is taken to leave the flag as it is; a switch of tasks that it asks
\* for is the command "tsk".
CommandSpins(c) ==
    /\ AtCommand /\ c # "server"
    /\ spinning' = c
    /\ UNCHANGED <<main, cpu, pic, marks>>

\* The byte comes, the program returns, the loop finds its Enter, and the handler is
\* done.  Nothing says that it ever is.
SpinEnds ==
    /\ spinning \in Spinners \ {"server"} /\ "wild" \notin marks
    /\ spinning' = "none"
    /\ EndOfInterrupt

\* "set SP=" that writes past its array of 30 (Keyboard.cpp:581-587), a program that
\* runs into what was never loaded.
RunsAway ==
    /\ AtCommand
    /\ marks' = marks \cup {"wild"}
    /\ UNCHANGED <<main, cpu, pic, spinning>>

\* SwitchTask's test, MultiTask.cpp:92.
InRange(k) == k <= numTasks

\* The entries of TaskManager::tasks that hold a task.
IsTask(k) == k \in 0 .. numTasks - 1

\* "tsk k" (Keyboard.cpp:570-575) is int 0x80 with eax = 4: SwitchTask returns
\* the task's own frame, and interruptstab.s:93 makes it the stack.  What was
\* interrupted is left where it is, its end-of-interrupt command unsent; the
\* frame's eflags turn interrupts on (MultiTask.cpp:44).
SwitchTask(k) ==
    /\ AtCommand /\ boot = "ready" /\ InRange(k) /\ IsTask(k)
    /\ handlers' = << >> /\ base' = "task" /\ iflag' = TRUE
    /\ marks' = marks \cup {"switched"}
    /\ UNCHANGED <<hasCard, boot, mainBeats, numTasks, halted, pic, spinning>>

\* The frame is none: the entry is not a task's, or there is no ActiveManager.
SwitchTaskWild(k) ==
    /\ AtCommand
    /\ boot # "ready" \/ (InRange(k) /\ ~IsTask(k))
    /\ marks' = marks \cup {"wild"}
    /\ UNCHANGED <<main, cpu, pic, spinning>>
-----------------------------------------------------------------------------
KernelMain ==
    \/ ActivateForNetwork \/ ActivateFirst \/ Forget \/ Mask \/ ActivateAgain
    \/ BootSound \/ AddTask \/ MakeDefault

\* The straight-line code around the two Activates.  Between them is Resolve, which
\* need not come back.
Activating == ActivateForNetwork \/ ActivateFirst \/ Mask \/ ActivateAgain

Next ==
    \/ KernelMain
    \/ \E n \in Lines : Raise(n) \/ Deliver(n) \/ DeliverUnmanaged(n)
    \/ Acknowledge \/ HandlerReturns \/ Halt
    \/ Sound \/ StopForGood \/ StartWEBServer
    \/ \E c \in Spinners : CommandSpins(c)
    \/ SpinEnds \/ RunsAway
    \/ \E k \in TaskNumbers : SwitchTask(k) \/ SwitchTaskWild(k)

\* The processor runs on: no device asks so fast that a line which the
\* controllers could serve, or the code at some depth of the stack, is for ever
\* put off (handlers are short beside the devices' periods).  Commands that spin owe
\* nothing.  The timer ticks.
Fairness ==
    /\ \A d \in 0 .. MaxTails + 2 :
         SF_vars(Len(handlers) = d
                   /\ (Activating \/ Acknowledge \/ HandlerReturns \/ Halt))
    /\ \A n \in Lines : SF_vars(Deliver(n) \/ DeliverUnmanaged(n))
    /\ WF_vars(Raise(Timer))

Spec == Init /\ [][Next]_vars /\ Fairness
-----------------------------------------------------------------------------
\* Lines in service that no handler on the stack will ever acknowledge.
Live == {handlers[i].line : i \in {j \in 1 .. Len(handlers) : ~handlers[j].acked}}
Orphans == inService \ Live

\* Two handlers are in their bodies at once in one case only: the timer's, over a
\* shell command that has played a sound (kernel.cpp:79).  What handlers share
\* with each other (the console, the key buffer, the protocols' tables) needs no
\* lock but against the clock (Interrupts.cpp:56, 155); what they share with
\* kernelMain is another matter (see Heap).
OnlyTheClockNests ==
    \A i, j \in 1 .. Len(handlers) :
      i < j /\ ~handlers[i].acked =>
        /\ handlers[i].line = Keyboard /\ handlers[j].line = Timer
        /\ j = Len(handlers) /\ i = j - 1

\* An acknowledgement goes astray in two ways only: the interrupt came while
\* Activate had no manager (Interrupts.cpp:147-148, 155-156), or the keyboard's
\* handler was left by a task switch (Keyboard.cpp:574).
OrphanHasACause ==
    /\ Orphans # {} => marks \cap {"unmanaged", "switched"} # {}
    /\ Orphans \ {Keyboard} # {} => "unmanaged" \in marks

\* The processor is where a handler may never return from.
Lost == spinning # "none" \/ marks \cap {"wild", "stopped"} # {}

\* A line that asks is served, unless from some time on a command holds the processor or
\* has lost it, or an orphan at least as urgent stands in its way; a command that spins
\* for a while, a sound in the shell, or a boot that waits for the gateway, does not
\* hold it up for ever (Interrupts.cpp:177-181, kernel.cpp:77-84).
LineIsServed ==
    \A n \in Lines :
        <>[](n \in pending) =>
            <>[](Lost \/ \E m \in Orphans : Urgency(m) <= Urgency(n))
=============================================================================
