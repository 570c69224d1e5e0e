----------------------------- MODULE BrokerTokens -----------------------------
(***************************************************************************)
(* The access token of an account: core/broker/kis/client.py and BrokerToken*)
(* in apps/account/models.py.                                              *)
(*                                                                         *)
(* The worker processes of one account (pipeline, risk monitor, backfill,  *)
(* collector) share tokens through the table.  Looking for a valid row,    *)
(* asking the broker for a new token and storing it are three steps, and   *)
(* the token travels with a request that is sent later still.              *)
(***************************************************************************)
EXTENDS Naturals, FiniteSets

CONSTANTS
  Workers,     \* processes that talk to the broker for one account
  Lifetime,    \* expires_in
  LastTick     \* bound on the clock

ASSUME TokenConstants ==
  /\ Lifetime \in Nat \ {0}
  /\ LastTick \in Nat

VARIABLES
  tick,        \* timezone.now()
  tokens,      \* the rows; "by" is the worker that stored it
  worker       \* worker[w]: stage, the token in hand, the answer of the broker

tokenVars == <<tick, tokens, worker>>
-----------------------------------------------------------------------------
\* ends: when the broker stops taking it; expires: what the row says.
Tokens == [by : Workers, ends : Nat, expires : Nat]

Valid == {k \in tokens : k.expires > tick}

Longest(S) == CHOOSE k \in S : \A m \in S : m.expires <= k.expires

Hold(w, stage, ends) ==
  worker' = [worker EXCEPT ![w] = [stage |-> stage, ends |-> ends]]
-----------------------------------------------------------------------------
TokenInit ==
  /\ tick = 0
  /\ tokens = {}
  /\ worker = [w \in Workers |-> [stage |-> "idle", ends |-> 0]]

\* wrong: the table is not asked
AlwaysIssue(w) ==
  /\ worker[w].stage \in {"idle", "answered", "refused"}
  /\ Hold(w, "issue", 0)
  /\ UNCHANGED <<tick, tokens>>

\* get_access_token: the row that lasts longest, or a new token.
GetAccessToken(w) ==
  /\ worker[w].stage \in {"idle", "answered", "refused"}
  /\ IF Valid # {} THEN Hold(w, "send", Longest(Valid).ends)
     ELSE Hold(w, "issue", 0)
  /\ UNCHANGED <<tick, tokens>>

\* issue_access_token: the broker answers, or raise_for_status gives up.
IssueAccessToken(w) ==
  /\ worker[w].stage = "issue"
  /\ \/ Hold(w, "store", tick + Lifetime)
     \/ Hold(w, "idle", 0)
  /\ UNCHANGED <<tick, tokens>>

\* expires_at is counted from the moment the row is written.
StoreToken(w) ==
  /\ worker[w].stage = "store"
  /\ tokens' = tokens \cup {[by |-> w, ends |-> worker[w].ends,
                             expires |-> tick + Lifetime]}
  /\ Hold(w, "send", worker[w].ends)
  /\ UNCHANGED tick

\* request: there is no retry with a new token.
SendRequest(w) ==
  /\ worker[w].stage = "send"
  /\ Hold(w, IF worker[w].ends > tick THEN "answered" ELSE "refused", 0)
  /\ UNCHANGED <<tick, tokens>>

Wait ==
  /\ tick < LastTick
  /\ tick' = tick + 1
  /\ UNCHANGED <<tokens, worker>>

TokenNext ==
  \/ \E w \in Workers : \/ GetAccessToken(w)
                        \/ IssueAccessToken(w)
                        \/ StoreToken(w)
                        \/ SendRequest(w)
  \/ Wait

TokenSpec == TokenInit /\ [][TokenNext]_tokenVars
-----------------------------------------------------------------------------
TokenTypeOK ==
  /\ tick \in Nat
  /\ tokens \in SUBSET Tokens
  /\ worker \in [Workers ->
       [stage : {"idle", "issue", "store", "send", "answered", "refused"},
        ends : Nat]]

\* However the workers interleave, the broker is asked for at most one token
\* per worker and lifetime: two valid rows come from different workers, and a
\* worker on its way to a new token has none (client.py:38-53).
OneLiveTokenPerWorker ==
  /\ \A a, b \in Valid : a.by = b.by => a = b
  /\ \A a \in Valid : worker[a.by].stage \notin {"issue", "store"}
=============================================================================
