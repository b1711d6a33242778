----------------------------- MODULE MCLibrary -----------------------------
(***************************************************************************)
(* The parts of the library that share nothing with each other, for TLC: a   *)
(* behaviour is one of exactly one part, chosen at the start.                *)
(***************************************************************************)
EXTENDS Migration, MessageHistory, Reducers, StateClasses, Detection, TLC

CONSTANTS short, long, h1, h2, plain

VARIABLE part

Parts == {"migration", "history", "reducers", "classes", "detection"}

MCSizeOfText == (short :> 1) @@ (long :> 5)
MCImportable ==
    {<<"langgraph", "graph">>, <<"langgraph_sdk">>, <<"llama_index", "core">>, <<"autogen_agentchat">>, <<"autogen_core">>}

\* The initial state of a part that takes no step.
StillMigration == MigrationInit /\ source = {}
StillHistory == HistoryInit /\ meant = [x \in Slots |-> short]

LibraryInit ==
    /\ part \in Parts
    /\ IF part = "migration" THEN MigrationInit ELSE StillMigration
    /\ IF part = "history" THEN HistoryInit ELSE StillHistory
    /\ ReducersInit /\ ClassesInit /\ DetectionInit

LibraryNext ==
    /\ UNCHANGED part
    /\ \/ /\ part = "migration" /\ MigrationNext
          /\ UNCHANGED <<historyVars, reducersVars, classVars, detectionVars>>
       \/ /\ part = "history" /\ HistoryNext
          /\ UNCHANGED <<migrationVars, reducersVars, classVars, detectionVars>>
       \/ /\ part = "reducers" /\ ReducersNext
          /\ UNCHANGED <<migrationVars, historyVars, classVars, detectionVars>>
       \/ /\ part = "classes" /\ ClassesNext
          /\ UNCHANGED <<migrationVars, historyVars, reducersVars, detectionVars>>
       \/ /\ part = "detection" /\ DetectionNext
          /\ UNCHANGED <<migrationVars, historyVars, reducersVars, classVars>>

libraryVars == <<part, migrationVars, historyVars, reducersVars, classVars, detectionVars>>

LibrarySpec ==
    /\ LibraryInit /\ [][LibraryNext]_libraryVars
    /\ WF_migrationVars(MigrationStep)

\* Every variable of every part has its type: what the loops, reducers, histories, classes
\* and detection of the library build is well formed.
LibraryTypeOK ==
    MigrationTypeOK /\ HistoryTypeOK /\ ReducersTypeOK /\ ClassesTypeOK /\ DetectionTypeOK
=============================================================================
