----------------------------- MODULE MCCommands -----------------------------
(* Instances of Commands for TLC.                                          *)
EXTENDS Commands

(* A session that starts a background child and sends a second line with   *)
(* it, next to a `netevent command` with a foreground one.                 *)
CommandsStream ==
    [tool |-> <<<<"exec", "bad", "use">>>>,
     user |-> <<<<"exec&">>, NL, <<"exec&", "quit">>>>]
CommandsClients  == DOMAIN CommandsStream
CommandsSessions == {"user"}

HangStream == [tool |-> <<<<"exec">>>>]
HangClients == DOMAIN HangStream
HangSessions == {}
=============================================================================
