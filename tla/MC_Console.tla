---------------------------- MODULE MC_Console ----------------------------
(* Model-checking instance of Console: one connected peer p1, a PeerId p2  *)
(* that parses but has no session, and one remote user u1 whose chats      *)
(* arrive.  Lines are given as the words ProcessCommand would split.       *)
EXTENDS Console

CONSTANTS p1, p2, u1, me

MCCommands == {"connect", "chat", "send", "peers", "transfers", "help", "exit"}

Empty   == [slash |-> FALSE, args |-> <<>>]
Text    == [slash |-> FALSE, args |-> <<"hi">>]
Slash   == [slash |-> TRUE, args |-> <<>>]
ChatP1  == [slash |-> TRUE, args |-> <<"chat", "p1hex", "yo">>]
ChatP2  == [slash |-> TRUE, args |-> <<"chat", "p2hex", "yo">>]
ChatBad == [slash |-> TRUE, args |-> <<"chat", "zz", "yo">>]
Peers   == [slash |-> TRUE, args |-> <<"peers">>]
Help    == [slash |-> TRUE, args |-> <<"help">>]
Exit    == [slash |-> TRUE, args |-> <<"exit">>]

\* Lines that never reach DisplayHelp from the input thread.
ServingLines == {Empty, Text, Slash, ChatP1, ChatP2, ChatBad, Exit}
\* A broadcast, a chat and /help.
HelpLines == {Text, ChatP1, Help}
\* A broadcast and /exit.
ExitLines == {Text, Exit}

MCIdOf(w) == CASE w = "p1hex" -> p1
               [] w = "p2hex" -> p2
               [] w = "zz"    -> "BadLength"
               [] OTHER       -> "BadHex"
=============================================================================
