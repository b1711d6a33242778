----------------------------- MODULE Detection -----------------------------
(***************************************************************************)
(* detection/framework.py with the callers of it, dispatch_to and            *)
(* auto_adapt: a program imports modules and calls configure in any order,   *)
(* and the framework it runs under is asked for in between.                  *)
(***************************************************************************)
EXTENDS Naturals, Sequences, SequencesExt, FiniteSets

CONSTANTS
    Importable,    \* dotted names, as sequences of their parts
    Unnamed

Framework == {"langgraph", "llamaindex", "autogen"}

\* _FRAMEWORK_MODULES
Roots == [langgraph |-> {<<"langgraph">>},
          llamaindex |-> {<<"llama_index">>, <<"llama_index", "core">>},
          autogen |-> {<<"autogen">>, <<"autogen_agentchat">>}]

\* The aliases of _coerce_framework for each framework, the enum's own value among them.
NamesOf == [langgraph |-> {"langgraph"},
            llamaindex |-> {"llamaindex", "llama_index", "llama_index_core"},
            autogen |-> {"autogen", "pyautogen", "autogen_agentchat"}]

\* What a caller may name: an alias, a string that is none, or nothing.
Namings == {"other", Unnamed} \cup UNION {NamesOf[f] : f \in Framework}

VARIABLES
    modules,       \* sys.modules
    configured     \* get_config().framework

detectionVars == <<modules, configured>>

DetectionTypeOK ==
    /\ modules \subseteq UNION {{SubSeq(m, 1, n) : n \in 1..Len(m)} : m \in Importable}
    /\ configured \in Namings

DetectionInit ==
    /\ modules = {}
    /\ configured = Unnamed

\* A module is imported after the packages it is in.
Import(m) ==
    /\ m \notin modules
    /\ modules' = modules \cup {SubSeq(m, 1, n) : n \in 1..Len(m)}
    /\ UNCHANGED configured

\* configure(framework=name) takes any name, configure() leaves what is there.
NameFramework(name) ==
    /\ configured' = name
    /\ UNCHANGED modules

DetectionNext ==
    \/ \E m \in Importable : Import(m)
    \/ \E name \in Namings \ {Unnamed} : NameFramework(name)

DetectionSpec == DetectionInit /\ [][DetectionNext]_detectionVars

\* _module_loaded
ModuleLoaded(root) == \E m \in modules : IsPrefix(root, m)

\* _active_frameworks_from_modules
Active == {f \in Framework : \E root \in Roots[f] : ModuleLoaded(root)}

\* _coerce_framework
Coerce(name) ==
    LET named == {f \in Framework : name \in NamesOf[f]}
    IN  IF named = {} THEN "unknown" ELSE CHOOSE f \in named : TRUE

\* FromImports that takes any of the active frameworks.
FirstImported == IF Active = {} THEN "undetected" ELSE CHOOSE f \in Active : TRUE

\* The last part of detect_active_framework
FromImports ==
    IF Active = {} THEN "undetected"
    ELSE IF Cardinality(Active) > 1 THEN "ambiguous"
    ELSE CHOOSE f \in Active : TRUE

\* detect_active_framework: what is named by the caller comes first, then by configure.
Detected(explicit) ==
    IF explicit # Unnamed THEN Coerce(explicit)
    ELSE IF configured # Unnamed THEN Coerce(configured)
    ELSE FromImports

\* get_adapter
GetAdapter(framework) ==
    [langgraph |-> "LangGraphAdapter", llamaindex |-> "LlamaIndexAdapter",
     autogen |-> "AutoGenAdapter"][framework]

\* auto_adapt: the schema of the class is the adapter's, or the detection raised.
AutoAdapt(explicit) ==
    IF Detected(explicit) \in Framework THEN <<"schema", GetAdapter(Detected(explicit))>>
    ELSE <<"raised", Detected(explicit)>>

\* dispatch_to: there is a mapping for each framework, and it is the checkpoint dict.
DispatchTo(explicit) ==
    IF Detected(explicit) \in Framework THEN <<"mapping", Detected(explicit)>>
    ELSE <<"raised", Detected(explicit)>>

Answers(explicit) == <<AutoAdapt(explicit), DispatchTo(explicit)>>

-----------------------------------------------------------------------------
(* Properties *)

\* framework.py:46-68: no import takes a program silently from one framework to another: a
\* caller that was given a framework's schema or mapping is, unless configure is called,
\* given the same later, or told that there are several; and one who names a framework
\* is never told anything else.
NeverSwitches ==
    [][\A name \in Namings :
          /\ name # Unnamed => Answers(name)' = Answers(name)
          /\ configured' = configured /\ Detected(name) \in Framework =>
                \/ Answers(name)' = Answers(name)
                \/ name = Unnamed /\ Answers(name)' = <<<<"raised", "ambiguous">>, <<"raised", "ambiguous">>>>
      ]_detectionVars
=============================================================================
