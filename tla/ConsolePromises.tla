-------------------------- MODULE ConsolePromises --------------------------
(***************************************************************************)
(* What a student is promised of an interactive run, said of the stored    *)
(* console, of what the browser shows and of what was typed.               *)
(* InteractiveConsole is the mechanism that keeps it.                      *)
(***************************************************************************)
EXTENDS Integers, Sequences, SequencesExt

VARIABLES
    run,        \* the consoles and practice executions, in the order created
    shown,      \* the record the browser shows
    typed       \* [runs -> the inputs the browser took up for it] (a history)

EOF == "eof"    \* the end of the input, among its lines

Active(phase) == phase \in {"QUEUED", "COMPILING", "RUNNING"}
Rank(phase) == CASE phase = "QUEUED" -> 1 [] phase = "COMPILING" -> 2
                 [] phase = "RUNNING" -> 3 [] OTHER -> 4

Closed(n) == run[n].inputs # <<>> /\ Last(run[n].inputs) = EOF

\* consoleProjection: a run that failed under the worker shows as FAILED.
Projection(n) ==
    [run    |-> n,
     phase  |-> IF run[n].status = "FAILED" /\ Active(run[n].phase)
                  THEN "FAILED" ELSE run[n].phase,
     next   |-> Len(run[n].inputs) + 1,
     closed |-> Closed(n),
     cancel |-> run[n].cancel]

\* The program is given each input the student sent once and in order: what the
\* worker wrote to it begins the stored inputs, and these begin what the browser
\* took up, whatever was repeated, lost or late.
InputOnce ==
    \A n \in DOMAIN run : /\ IsPrefix(run[n].given, run[n].inputs)
                          /\ IsPrefix(run[n].inputs, typed[n])

\* The end of a run, as the API shows it, stands: a worker that lost its lease
\* neither completes it nor brings it back to life.
ResultStands ==
    [][\A n \in DOMAIN run : ~Active(Projection(n).phase) =>
          Projection(n)'.phase = Projection(n).phase]_run

\* What the browser shows of a run never goes back, although reads are answered
\* after newer inputs and controls.
ShownNeverRegresses ==
    [][shown'.run = shown.run =>
         /\ Rank(shown'.phase) >= Rank(shown.phase) /\ shown'.next >= shown.next
         /\ (shown.closed => shown'.closed) /\ (shown.cancel => shown'.cancel)]_shown

\* The story of a run is told forwards, by the API and in the browser.
NeverBack == ResultStands /\ ShownNeverRegresses
=============================================================================
