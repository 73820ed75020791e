---------------------------- MODULE MCRoundtable ----------------------------
(* Four cards of different transports, one a2a-call beside them.           *)
EXTENDS Roundtable

MCRoster == <<"ux", "qa", "security", "style">>
MCHas == [k \in {"ux", "qa", "security", "style"} |->
            CASE k = "security" -> {"review", "owasp"}
              [] k = "style" -> {"review", "naming"}
              [] k = "ux" -> {"dx"}
              [] k = "qa" -> {}]
(* A table of two beside which nobody calls; a call beside a table whose only
   card has no endpoint; a table that has to be filled; and an empty one.  *)
MCSessions ==
  { [needed |-> <<"owasp", "review">>, least |-> 2, most |-> 2, callers |-> {}],
    [needed |-> <<"dx">>, least |-> 1, most |-> 4, callers |-> {"call"}],
    [needed |-> <<"dx", "unheard-of", "dx">>, least |-> 2, most |-> 2, callers |-> {}],
    [needed |-> <<>>, least |-> 0, most |-> 2, callers |-> {}] }

MCTaskOf == [c \in {"security", "style", "ux", "qa", "synthesizer", "call"} |->
               IF c \in {"security", "style", "ux", "qa"} THEN "shared" ELSE c]

Ask(t, p, k, s) == [transport |-> t, peer |-> p, token |-> k, skill |-> s]
MCRequests ==
  [c \in DOMAIN MCTaskOf |->
     CASE c = "security" -> { Ask("a2a-http", "autodev", TRUE, "") }
       [] c = "style" -> { Ask("a2a-http", "autodev", TRUE, ""),
                           Ask("a2a-http", "foreign", TRUE, ""),
                           Ask("local-shell", "none", TRUE, "") }
       [] c = "ux" -> { Ask("a2a-http", "none", TRUE, "") }
       [] c = "qa" -> { Ask("tailnet", "none", TRUE, "") }
       [] c = "synthesizer" -> { Ask("local-shell", "none", TRUE, "") }
       [] c = "call" -> { Ask("a2a-http", "autodev", TRUE, "scan"),
                          Ask("a2a-http", "autodev", FALSE, "scan"),
                          Ask("a2a-http", "autodev", TRUE, "unheard-of") }]
=============================================================================
