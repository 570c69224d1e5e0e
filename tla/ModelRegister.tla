---------------------------- MODULE ModelRegister ----------------------------
(***************************************************************************)
(* What the pipeline may rely on when it asks which model filters the      *)
(* signals (MLFilterEngine._get_deployed_model in core/ml/filter.py).      *)
(*                                                                         *)
(* A register that holds one version or Mock, the rule-based fallback.  A  *)
(* version is published at most once; the register is emptied before the   *)
(* next one is published, or the next one shadows it; a version that was   *)
(* withdrawn or shadowed never comes back.  How deploy_artifact gets there *)
(* (four statements without a transaction, several commands beside each    *)
(* other) is the business of Deployment, which implements this module.     *)
(***************************************************************************)
CONSTANTS
  Versions,   \* the versions of one model name
  Mock        \* what serves when no version does

VARIABLES
  serving,    \* the version a reader gets now, or Mock
  spent       \* the versions that were published at some time

registerVars == <<serving, spent>>
-----------------------------------------------------------------------------
Init ==
  /\ serving = Mock
  /\ spent = {}

\* An older version published late stays behind the one that serves.
Publish(v) ==
  /\ v \notin spent
  /\ spent' = spent \cup {v}
  /\ serving' \in {v, serving}

Withdraw ==
  /\ serving # Mock
  /\ serving' = Mock
  /\ UNCHANGED spent

Next == Withdraw \/ \E v \in Versions : Publish(v)

Spec == Init /\ [][Next]_registerVars
=============================================================================
