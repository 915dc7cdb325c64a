------------------------------ MODULE Command ------------------------------
(***************************************************************************)
(* How a mage target runs: a program, a sequence of named steps, one       *)
(* command at a time, until a step returns an error or none is left.  The  *)
(* modules that extend this one say what the steps do.                     *)
(***************************************************************************)
EXTENDS Naturals, Sequences

CONSTANTS
    Ticks,       \* ticks of a wait before it times out
    MaxCommands, \* bound: commands run
    MaxFails     \* bound: calls that fail

VARIABLES
    cmd, arg, \* the running command, or "none"
    todo,     \* its steps still to be done
    job,      \* local variables of the current step
    ticks,    \* what is left of the current wait
    ok,       \* the last command returned no error
    done,     \* commands started
    fails     \* calls that failed

command == <<cmd, arg, todo, job, ticks, ok, done>>

At(s) == todo # <<>> /\ Head(todo) = s

Begin(c, a, steps, j) ==
    /\ cmd = "none" /\ done < MaxCommands
    /\ cmd' = c /\ arg' = a /\ todo' = steps /\ job' = j
    /\ ticks' = Ticks /\ done' = done + 1
    /\ UNCHANGED ok

Return(success) ==
    /\ cmd' = "none" /\ arg' = <<>> /\ todo' = <<>> /\ job' = <<>>
    /\ ticks' = 0 /\ ok' = success
    /\ UNCHANGED done

\* Leave n steps behind; the command succeeds when none is left.
AdvanceWith(n, j) ==
    IF Len(todo) = n THEN Return(TRUE)
    ELSE /\ todo' = SubSeq(todo, n + 1, Len(todo)) /\ job' = j
         /\ ticks' = Ticks
         /\ UNCHANGED <<cmd, arg, ok, done>>

\* Go on within the step.
Within(j) ==
    /\ job' = j
    /\ UNCHANGED <<cmd, arg, todo, ticks, ok, done>>

\* One turn of a select over a ticker and a timeout: finished, an error that
\* ends the wait, another tick, or the timeout.
WaitFor(s, finished, broken, j) ==
    /\ At(s)
    /\ \/ finished /\ AdvanceWith(1, j)
       \/ ~finished /\ broken /\ Return(FALSE)
       \/ /\ ~finished /\ ~broken /\ ticks > 0
          /\ ticks' = ticks - 1
          /\ UNCHANGED <<cmd, arg, todo, job, ok, done>>
       \/ ticks = 0 /\ Return(FALSE)

\* One call fails.
Fault == fails < MaxFails /\ fails' = fails + 1

Succeeds == cmd # "none" /\ cmd' = "none" /\ ok'
Errs == cmd # "none" /\ cmd' = "none" /\ ~ok'

CommandType ==
    /\ ticks \in 0..Ticks /\ ok \in BOOLEAN
    /\ done \in 0..MaxCommands /\ fails \in 0..MaxFails
=============================================================================
