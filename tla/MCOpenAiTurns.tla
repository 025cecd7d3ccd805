----------------------------- MODULE MCOpenAiTurns -----------------------------
EXTENDS OpenAiTurns, TLC

CONSTANTS main, sub, task, read, probe

MCCallsOf == (main :> {task, read}) @@ (sub :> {probe})
MCMaxTexts == (main :> 1) @@ (sub :> 0)
MCSubagent == task :> sub
=============================================================================
