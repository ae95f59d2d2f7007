----------------------------- MODULE MCCommandLine -----------------------------
(* Command lines for TLC: every word of every command, with each option and  *)
(* each pair of options that the command knows, here and over ssh, and with  *)
(* none, one or two positionals more.                                        *)
EXTENDS CommandLine

CommandWords == {
  <<NoWord, NoWord, NoWord>>, <<"mcp", NoWord, NoWord>>, <<"fetch", NoWord, NoWord>>,
  <<"runtime", "serve", NoWord>>, <<"runtime", "http", NoWord>>, <<"runtime", "preflight", NoWord>>,
  <<"host", "overview", NoWord>>, <<"turn", "run", NoWord>>, <<"workflow", "ls", NoWord>>,
  <<"workflow", "run", NoWord>>, <<"app", "actions", NoWord>>, <<"app", "call", NoWord>>,
  <<"functions", "list", NoWord>>, <<"functions", "describe", NoWord>>, <<"functions", "call", NoWord>>,
  <<"actions", "cleanup", NoWord>>, <<"actions", "prepare-auth", NoWord>>, <<"deploy", NoWord, NoWord>>,
  <<"memories", "transplant", "global-to-workbench">>, <<"feed", "cursor", "advance">>,
  <<"workbench", "init", "actions">>}
  \cup ({"threads"} \X {"locate", "inspect", "install-rollout", "transplant"} \X {NoWord})
  \cup ({"kit"} \X {"inspect", "add", "setup", "doctor", "list"} \X {NoWord})
  \cup ({"feed"} \X {"doctor", "source", "poll", "collect", "dispatch", "prune"} \X {NoWord})
  \cup ({"feed"} \X {"item"} \X {NoWord, "read", "append", "drop"})
  \cup ({"workbench"} \X {NoWord, "doctor", "overview", "run", "call", "app", "tick"} \X {NoWord})
  \cup ({"workbench"} \X {"prompt"}
        \X {"add", "list", "read", "pull", "collect", "cancel", "retry", "run"})
  \cup ({"workbench"} \X {"handoff"}
        \X {"add", "list", "read", "pull", "collect", "cancel", "retry", "drain"})
  \cup ({"workbench"} \X {"dispatch"}
        \X {"add", "list", "read", "collect", "cancel", "retry", "run", "prune"})

Pairs(options) == {{} } \cup {{a, b} : a, b \in options}
KnownPairs(words) ==
  LET known == commandOptions(commandType(words)) IN
  Pairs(known \cup {"ssh"}) \cup {given \cup {"ssh"} : given \in Pairs(known)}

MCLines ==
  UNION {[words : {words}, extras : 0 .. 2, given : KnownPairs(words), bad : {{}}] : words \in CommandWords}
  \cup [words : {<<"fetch", NoWord, NoWord>>, <<"kit", "setup", NoWord>>}, extras : {1},
        given : {{"help", "limit"}}, bad : {{"limit"}}]

AnyLine == [words |-> <<NoWord, NoWord, NoWord>>, extras |-> 0, given |-> {}, bad |-> {}]
=============================================================================
