---------------------------- MODULE MCCommandStream ----------------------------
(***************************************************************************)
(* Commands for the runs of CommandStream.                                 *)
(***************************************************************************)
EXTENDS CommandStream

\* Every kind of command; payloads that are empty, blank or look like a command.
Plain ==
    {[kind |-> "StatusQuery"], [kind |-> "QualityQuery"]}
        \cup [kind : {"Ping", "TestRequest"}, target : {<<0, 0, 1>>}]
        \cup [kind : {"Broadcast"}, data : {<<>>, <<Blank>>, <<Dollar, Question>>}]

\* A payload with a line break in it.
Lines == {[kind |-> "Broadcast", data |-> <<Letter, LineFeed, Letter>>]}

================================================================================
