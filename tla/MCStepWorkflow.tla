---------------------------- MODULE MCStepWorkflow ----------------------------
(* The last steps of combine-config/workflows/software_product_development,  *)
(* from the technical architecture on, its iteration extended by a nested     *)
(* step without inputs, as that of the iteration tests                        *)
(* (tests/domain/workflow/test_workflow_executor.py).                         *)
EXTENDS StepWorkflow

CONSTANTS e1, e2

MCPlan == <<"technical_architecture", "work_package_creation", "per_work_package">>
MCNested ==
    [s \in {"per_work_package"} |-> <<"work_statement_decomposition", "process">>]
MCSource == [s \in {"per_work_package"} |-> "work_package"]
MCProduces ==
    [technical_architecture |-> "technical_architecture",
     work_package_creation |-> "work_package",
     work_statement_decomposition |-> "work_statement",
     process |-> "item_output"]
MCInputs ==
    [technical_architecture |-> {},
     work_package_creation |-> {"technical_architecture"},
     work_statement_decomposition |-> {Item, "technical_architecture"},
     process |-> {}]
\* No package, two packages, and a plan that names one package twice.
MCCollections == {<<>>, <<e1, e2>>, <<e1, e1>>}

\* The work packages are made before the iteration over them, and each document
\* by one step.
ASSUME MCSources == SourcesFirst /\ MadeByOne
===============================================================================
