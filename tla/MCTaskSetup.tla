---------------------------- MODULE MCTaskSetup ----------------------------
(* Instance of TaskSetup: two contents, requests around the checks of the  *)
(* builders, and two plugins per group that claim built-in names.          *)
EXTENDS TaskSetup

CONSTANTS Public, Labels

Plugin(i, regs) == [id |-> i, name |-> 0, core |-> FALSE, registers |-> regs]
Reg(k, n) == [kind |-> k, name |-> n]

MCTaskPlugin ==
    {Plugin("p", {Reg("setup", "fe-kaggle"), Reg("setup", "extra")}),
     Plugin("q", {Reg("setup", "fe-holdout"), Reg("setup", "extra")})}

MCVerifierPlugin ==
    {Plugin("p", {Reg("setup", "fe-kaggle"), Reg("impl", "fe-kaggle")}),
     Plugin("q", {Reg("setup", "fe-kaggle"), Reg("setup", "holdout-experiment")})}

\* The agent's files: as prepared, with the key under a name of its own or in
\* place of the training data, or incomplete.
AgentFiles ==
    {[n \in {"train.csv", "test.csv"} |-> Public],
     [n \in {"train.csv", "test.csv", "notes.csv"} |->
          IF n = "notes.csv" THEN Labels ELSE Public],
     [n \in {"train.csv", "test.csv"} |-> IF n = "train.csv" THEN Labels ELSE Public],
     [n \in {"train.csv"} |-> Public]}

VerifierFiles ==
    {[n \in HOLDOUT_INPUT_FILES |-> IF n = ANSWER_KEY_FILE THEN Labels ELSE Public],
     [n \in KAGGLE_INPUT_FILES |-> IF n = ANSWER_KEY_FILE THEN Labels ELSE Public],
     [n \in KAGGLE_INPUT_FILES \ {ANSWER_KEY_FILE} |-> Public]}

MCRequest ==
    [type : {"code", "fe-holdout", "fe-kaggle", "extra"}, agent : AgentFiles,
     verifier : VerifierFiles, competition : {TRUE}, provisioning : {TRUE}]
    \cup
    [type : {"code", "fe-holdout", "fe-kaggle"},
     agent : {[n \in {"train.csv", "test.csv"} |-> Public]},
     verifier : {[n \in KAGGLE_INPUT_FILES |-> IF n = ANSWER_KEY_FILE THEN Labels ELSE Public]},
     competition : BOOLEAN, provisioning : BOOLEAN]
==============================================================================
