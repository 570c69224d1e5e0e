----------------------------- MODULE Deployment ------------------------------
(***************************************************************************)
(* Datasets, model artifacts, deployments and inference:                   *)
(*   apps/system/management/commands/train_daytrading_model.py             *)
(*   core/ml/dataset.py, core/ml/training.py, core/ml/predictor.py         *)
(*   core/ml/filter.py, apps/system/models.py                              *)
(*                                                                         *)
(* Operators run the command, one process per call; the minute pipeline    *)
(* asks for an inference at any time.  Nothing of it is in a transaction:  *)
(* every statement is a step of its own, and a process may die between any *)
(* two.  All calls train the same model name (the command's default), so a *)
(* version stands for a (model_name, version) pair.                        *)
(***************************************************************************)
EXTENDS Naturals, FiniteSets

CONSTANTS
  Trainings,   \* calls of the command
  Symbols,     \* stocks a dataset can be built from
  Versions,    \* values of --model-version
  Readers,     \* runs of the pipeline that ask for an inference
  Mock,        \* the rule-based fallback
  Torn         \* what a file holds between open(path, "wb") and the write

ASSUME DeploymentConstants ==
  /\ Mock \notin Versions
  /\ Torn \notin Trainings
  /\ "none" \notin Trainings \cup Versions \cup Symbols

VARIABLES
  training,    \* training[c]: the arguments and the progress of call c
  died,        \* the calls whose process died
  dataset,     \* dataset[s, v]: the dataset named after s with version v
  artifact,    \* artifact[v]: the row of version v
  file,        \* file[v]: whose model the file {model_name}_{v}.pkl holds
  deployment,  \* deployment[c]: the ModelDeployment row that call c wrote
  inference    \* inference[r]: the inference of run r, and its log row

deploymentVars ==
  <<training, died, dataset, artifact, file, deployment, inference>>
-----------------------------------------------------------------------------
Stages == {"idle", "snapshots", "items", "ready", "train", "write", "create",
           "retireRows", "retireArtifacts", "mark", "deploy",
           "done", "failed", "refused"}

Arguments == [symbol : Symbols, version : Versions, deploy : BOOLEAN]
NoArguments == [symbol |-> "none", version |-> "none", deploy |-> FALSE]

NoArtifact == [status |-> "none", trainedBy |-> "none", born |-> 0]

ArtifactRows ==
  [status : {"none", "READY", "DEPLOYED", "RETIRED"},
   trainedBy : Trainings \cup {"none"}, born : Nat]

DeploymentRows == {"none", "ACTIVE", "RETIRED"}

NoDataset == [status |-> "none", snapshots |-> FALSE, items |-> FALSE]

Building(snapshots, items) ==
  [status |-> "BUILDING", snapshots |-> snapshots, items |-> items]

DatasetRows ==
  [status : {"none", "BUILDING", "READY"}, snapshots : BOOLEAN, items : BOOLEAN]

\* A run's inference, and the log row it leaves
InferenceRows ==
  [stage : {"idle", "selected", "logged"}, model : Versions \cup {Mock},
   source : {"none", "model", "mock"}, content : Trainings \cup {"none", Torn}]

At(c, stage) == c \notin died /\ training[c].stage = stage

Version(c) == training[c].args.version
Source(c) == <<training[c].args.symbol, Version(c)>>

Goto(c, stage) ==
  training' = [training EXCEPT ![c] = [stage |-> stage, args |-> training[c].args]]

Existing == {v \in Versions : artifact[v].status # "none"}
Deployed == {v \in Versions : artifact[v].status = "DEPLOYED"}

\* wrong: the newest artifact is taken first and its status asked after that
NewestIfDeployed ==
  IF \E v \in Deployed : \A w \in Existing : artifact[w].born <= artifact[v].born
  THEN CHOOSE v \in Deployed : \A w \in Existing : artifact[w].born <= artifact[v].born
  ELSE Mock

\* order_by("-created_at").first()
Serving ==
  IF Deployed = {} THEN Mock
  ELSE CHOOSE v \in Deployed :
         \A w \in Deployed : artifact[w].born <= artifact[v].born
-----------------------------------------------------------------------------
DeploymentInit ==
  /\ training = [c \in Trainings |-> [stage |-> "idle", args |-> NoArguments]]
  /\ died = {}
  /\ dataset = [d \in Symbols \X Versions |-> NoDataset]
  /\ artifact = [v \in Versions |-> NoArtifact]
  /\ file = [v \in Versions |-> "none"]
  /\ deployment = [c \in Trainings |-> "none"]
  /\ inference = [r \in Readers |-> [stage |-> "idle", model |-> Mock,
                                     source |-> "none", content |-> "none"]]

\* (name, version) is unique: a second dataset of the same name is refused.
StartDataset(c, args) ==
  LET d == <<args.symbol, args.version>> IN
  /\ At(c, "idle")
  /\ IF dataset[d].status = "none"
     THEN /\ dataset' = [dataset EXCEPT ![d] = Building(FALSE, FALSE)]
          /\ training' = [training EXCEPT ![c] = [stage |-> "snapshots", args |-> args]]
     ELSE /\ training' = [training EXCEPT ![c] = [stage |-> "failed", args |-> args]]
          /\ UNCHANGED dataset
  /\ UNCHANGED <<died, artifact, file, deployment, inference>>

\* Too little history or future leaves no sample at all.
AddSnapshots(c) ==
  /\ At(c, "snapshots")
  /\ \E some \in BOOLEAN :
       dataset' = [dataset EXCEPT ![Source(c)] = Building(some, FALSE)]
  /\ Goto(c, "items")
  /\ UNCHANGED <<died, artifact, file, deployment, inference>>

\* Every sample refers to the snapshot of its candle.
AddItems(c) ==
  LET some == dataset[Source(c)].snapshots IN
  /\ At(c, "items")
  /\ dataset' = [dataset EXCEPT ![Source(c)] = Building(some, some)]
  /\ Goto(c, "ready")
  /\ UNCHANGED <<died, artifact, file, deployment, inference>>

MarkReady(c) ==
  LET row == dataset[Source(c)] IN
  /\ At(c, "ready")
  /\ dataset' = [dataset EXCEPT ![Source(c)] =
       [status |-> "READY", snapshots |-> row.snapshots, items |-> row.items]]
  /\ Goto(c, "train")
  /\ UNCHANGED <<died, artifact, file, deployment, inference>>

\* LightGBMPredictor.train, then the truncating open of save.
TrainAndOpen(c) ==
  /\ At(c, "train")
  /\ IF dataset[Source(c)].items
     THEN file' = [file EXCEPT ![Version(c)] = Torn] /\ Goto(c, "write")
     ELSE Goto(c, "failed") /\ UNCHANGED file
  /\ UNCHANGED <<died, dataset, artifact, deployment, inference>>

\* Two writers of one file may leave the bytes of both.
WriteFile(c) ==
  /\ At(c, "write")
  /\ \E bytes \in {c} \cup (IF file[Version(c)] = Torn THEN {} ELSE {Torn}) :
       file' = [file EXCEPT ![Version(c)] = bytes]
  /\ Goto(c, "create")
  /\ UNCHANGED <<died, dataset, artifact, deployment, inference>>

\* wrong: update_or_create
UpdateOrCreateArtifact(c) ==
  /\ At(c, "create")
  /\ artifact' = [artifact EXCEPT ![Version(c)] =
                    [status |-> "READY", trainedBy |-> c,
                     born |-> 1 + Cardinality(Existing)]]
  /\ Goto(c, IF training[c].args.deploy THEN "retireRows" ELSE "done")
  /\ UNCHANGED <<died, dataset, file, deployment, inference>>

\* (model_name, version) is unique; the file is already replaced by then.
CreateArtifact(c) ==
  /\ At(c, "create")
  /\ IF Version(c) \in Existing
     THEN Goto(c, "refused") /\ UNCHANGED artifact
     ELSE /\ artifact' = [artifact EXCEPT ![Version(c)] =
                            [status |-> "READY", trainedBy |-> c,
                             born |-> 1 + Cardinality(Existing)]]
          /\ Goto(c, IF training[c].args.deploy THEN "retireRows" ELSE "done")
  /\ UNCHANGED <<died, dataset, file, deployment, inference>>
-----------------------------------------------------------------------------
\* deploy_artifact, statement by statement.
RetireDeployments(c) ==
  /\ At(c, "retireRows")
  /\ deployment' = [d \in Trainings |->
                      IF deployment[d] = "ACTIVE" THEN "RETIRED"
                      ELSE deployment[d]]
  /\ Goto(c, "retireArtifacts")
  /\ UNCHANGED <<died, dataset, artifact, file, inference>>

\* wrong: back to READY
RetiredToReady(row) == [status |-> "READY", trainedBy |-> row.trainedBy,
                        born |-> row.born]

Retired(row) == [status |-> "RETIRED", trainedBy |-> row.trainedBy,
                 born |-> row.born]

RetireArtifacts(c) ==
  /\ At(c, "retireArtifacts")
  /\ artifact' = [v \in Versions |->
                    IF v \in Deployed \ {Version(c)} THEN Retired(artifact[v])
                    ELSE artifact[v]]
  /\ Goto(c, "mark")
  /\ UNCHANGED <<died, dataset, file, deployment, inference>>

MarkDeployed(c) ==
  /\ At(c, "mark")
  /\ artifact' = [artifact EXCEPT ![Version(c)] =
                    [status |-> "DEPLOYED",
                     trainedBy |-> artifact[Version(c)].trainedBy,
                     born |-> artifact[Version(c)].born]]
  /\ Goto(c, "deploy")
  /\ UNCHANGED <<died, dataset, file, deployment, inference>>

CreateDeployment(c) ==
  /\ At(c, "deploy")
  /\ deployment' = [deployment EXCEPT ![c] = "ACTIVE"]
  /\ Goto(c, "done")
  /\ UNCHANGED <<died, dataset, artifact, file, inference>>

Die(c) ==
  /\ c \notin died
  /\ training[c].stage \notin {"idle", "done", "failed", "refused"}
  /\ died' = died \cup {c}
  /\ UNCHANGED <<training, dataset, artifact, file, deployment, inference>>
-----------------------------------------------------------------------------
\* run_inference: the row is read first, the file after it.
SelectModel(r) ==
  /\ inference[r].stage # "selected"
  /\ inference' = [inference EXCEPT ![r] =
                     [stage |-> "selected", model |-> Serving,
                      source |-> "none", content |-> "none"]]
  /\ UNCHANGED <<training, died, dataset, artifact, file, deployment>>

\* A file that cannot be loaded falls back to the mock; the log row names the
\* model all the same.
Infer(r) ==
  /\ inference[r].stage = "selected"
  /\ LET m == inference[r].model
         loaded == m # Mock /\ file[m] # Torn
     IN inference' = [inference EXCEPT ![r] =
                        [stage |-> "logged", model |-> m,
                         source |-> IF loaded THEN "model" ELSE "mock",
                         content |-> IF loaded THEN file[m] ELSE "none"]]
  /\ UNCHANGED <<training, died, dataset, artifact, file, deployment>>

Train(c) ==
  \/ \E args \in Arguments : StartDataset(c, args)
  \/ AddSnapshots(c)
  \/ AddItems(c)
  \/ MarkReady(c)
  \/ TrainAndOpen(c)
  \/ WriteFile(c)
  \/ CreateArtifact(c)

Deploy(c) ==
  \/ RetireDeployments(c)
  \/ RetireArtifacts(c)
  \/ MarkDeployed(c)
  \/ CreateDeployment(c)

DeploymentNext ==
  \/ \E c \in Trainings : Train(c) \/ Deploy(c) \/ Die(c)
  \/ \E r \in Readers : SelectModel(r) \/ Infer(r)

DeploymentSpec == DeploymentInit /\ [][DeploymentNext]_deploymentVars
-----------------------------------------------------------------------------
DeploymentTypeOK ==
  /\ training \in [Trainings -> [stage : Stages, args : Arguments \cup {NoArguments}]]
  /\ died \in SUBSET Trainings
  /\ dataset \in [Symbols \X Versions -> DatasetRows]
  /\ artifact \in [Versions -> ArtifactRows]
  /\ file \in [Versions -> Trainings \cup {"none", Torn}]
  /\ deployment \in [Trainings -> DeploymentRows]
  /\ inference \in [Readers -> InferenceRows]

\* Once a model has been retired, the signals fall back to the mock only while
\* some call stands between retiring the old artifact and marking its own: a
\* deployment in flight, or one whose process died there (training.py:30-39).
UnservedOnlyWhileDeploying ==
  /\ \E v \in Versions : artifact[v].status = "RETIRED"
  /\ Serving = Mock
  => \E c \in Trainings : training[c].stage = "mark"

\* The file behind an artifact holds another model than the one its checksum
\* was taken of only if a second call trained the same version: one that is
\* still on its way to the artifact row, died before it, or was refused by the
\* unique constraint after it had replaced the file (training.py:80-86).
RetrainedBySecond(v) ==
  \E c \in Trainings \ {artifact[v].trainedBy} :
    /\ Version(c) = v
    /\ training[c].stage \in {"write", "create", "refused"}

SwappedFilesHaveACulprit ==
  \A v \in Existing :
    file[v] # artifact[v].trainedBy => RetrainedBySecond(v)

\* What an inference used is explained by what its log row names: the model of
\* that version as it was trained, unless a second call trained the version;
\* the mock or a stranger's model behind a named version has such a culprit
\* (filter.py:90-105 reads the row first and the file after it).
InferencesAreExplained ==
  \A r \in Readers :
    LET i == inference[r] IN
    (i.stage = "logged" /\ i.model # Mock) =>
      \/ i.source = "model" /\ i.content = artifact[i.model].trainedBy
      \/ RetrainedBySecond(i.model)

\* The artifact rows, read the way the filter engine reads them, are a
\* register in which a version is published once and never comes back.
Register == INSTANCE ModelRegister WITH
  serving <- Serving,
  spent <- {v \in Versions : artifact[v].status \in {"DEPLOYED", "RETIRED"}}

ImplementsRegister == Register!Spec
=============================================================================
