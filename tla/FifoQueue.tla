------------------------------- MODULE FifoQueue -------------------------------
(***************************************************************************)
(* What a queue of log lines promises its callers: a line that was put in  *)
(* comes out once, in the order of the input() calls, and output() says    *)
(* "empty" only when nothing is in the queue.                              *)
(***************************************************************************)
EXTENDS Sequences

CONSTANT Item       \* the strings handed to input(); never "" in main()

VARIABLES waiting,  \* the lines in the queue, oldest first
          result    \* what the last completed output() returned: a line,
                    \* or << >> for "queue empty"

absVars == <<waiting, result>>

AbsInit == waiting = << >> /\ result = << >>

Put(x) == waiting' = Append(waiting, x) /\ UNCHANGED result

Take == /\ waiting # << >>
        /\ result' = <<Head(waiting)>>
        /\ waiting' = Tail(waiting)

FindEmpty == waiting = << >> /\ result' = << >> /\ UNCHANGED waiting

AbsNext == (\E x \in Item : Put(x)) \/ Take \/ FindEmpty

AbsSpec == AbsInit /\ [][AbsNext]_absVars
================================================================================
