--------------------------- MODULE CommandService ---------------------------
(***************************************************************************)
(* What the command socket of `netevent daemon` promises its clients, with *)
(* nothing said about sockets, buffers, poll or child processes: every     *)
(* line a client sends is executed, command by command, in the order sent, *)
(* one at a time, each command answered to the client that sent it.  Only  *)
(* a client that hung up, or the end of the daemon, may cost a line.       *)
(***************************************************************************)
EXTENDS Sequences

CONSTANTS
    Clients,
    Commands,
    Lines      \* the lines clients send: non-empty sequences of commands

Answers == {"Ok.", "ERROR"}

VARIABLES
    pending,   \* client -> its lines not yet executed, each a sequence of commands
    answers,   \* client -> the answers given to it
    hungUp,    \* clients that closed the connection
    stopped    \* the daemon has ended

vars == <<pending, answers, hungUp, stopped>>

TypeOK ==
    /\ pending \in [Clients -> Seq(Seq(Commands))]
    /\ answers \in [Clients -> Seq(Answers)]
    /\ hungUp \subseteq Clients
    /\ stopped \in BOOLEAN

Init ==
    /\ pending = [c \in Clients |-> <<>>]
    /\ answers = [c \in Clients |-> <<>>]
    /\ hungUp = {}
    /\ stopped = FALSE

Send(c, line) ==
    /\ ~stopped /\ c \notin hungUp
    /\ pending' = [pending EXCEPT ![c] = Append(@, line)]
    /\ UNCHANGED <<answers, hungUp, stopped>>

(* The first command of the client's first line.  An error ends the line.  *)
Execute(c, answer) ==
    /\ ~stopped /\ pending[c] # <<>>
    /\ LET rest == IF answer = "ERROR" THEN <<>> ELSE Tail(pending[c][1])
       IN  pending' = [pending EXCEPT
               ![c] = (IF rest = <<>> THEN <<>> ELSE <<rest>>) \o Tail(@)]
    /\ \/ answers' = [answers EXCEPT ![c] = Append(@, answer)]
       \/ c \in hungUp /\ UNCHANGED answers
    /\ UNCHANGED <<hungUp, stopped>>

HangUp(c) ==
    /\ hungUp' = hungUp \cup {c}
    /\ UNCHANGED <<pending, answers, stopped>>

(* The lines of clients that hung up are forgotten, without a word.        *)
Forget(cs) ==
    /\ cs \subseteq hungUp
    /\ pending' = [c \in Clients |-> IF c \in cs THEN <<>> ELSE pending[c]]
    /\ UNCHANGED <<answers, hungUp, stopped>>

Stop ==
    /\ stopped' = TRUE
    /\ pending' = [c \in Clients |-> <<>>]
    /\ UNCHANGED <<answers, hungUp>>

Next ==
    \/ \E c \in Clients : \E line \in Lines : Send(c, line)
    \/ \E c \in Clients, answer \in Answers : Execute(c, answer)
    \/ \E c \in Clients : HangUp(c)
    \/ \E cs \in SUBSET Clients : Forget(cs)
    \/ Stop

Spec == Init /\ [][Next]_vars
=============================================================================
