------------------------------- MODULE Session -------------------------------
(***************************************************************************)
(* The agent's hardened session of session/session.go: one hello, then     *)
(* mutations numbered 1, 2, 3, ... without a gap. Daemon.HandleEnvelope    *)
(* calls it under agentMu, so each call is one step of the daemon.         *)
(*                                                                         *)
(* Draining exists in the type but no caller of the repository enters it.  *)
(***************************************************************************)
EXTENDS Naturals

VARIABLES
  sessionState,       \* Session.state
  expectedMutation    \* Session.expectedMutation

sessionVars == <<sessionState, expectedMutation>>

SessionInit == sessionState = "NEW" /\ expectedMutation = 1

\* Negotiate succeeds once, for a hello that offers the protocol version.
Negotiate ==
  /\ sessionState = "NEW"
  /\ sessionState' = "READY"
  /\ UNCHANGED expectedMutation

\* Fault: a retried number is accepted again.
IsExpected_OrRetry(seq) == seq = expectedMutation \/ seq + 1 = expectedMutation

\* AcceptMutation returns (false, nil): the number is the expected one.
IsExpected(seq) == seq = expectedMutation

AcceptMutation(seq) ==
  /\ sessionState = "READY"
  /\ seq # 0 /\ IsExpected(seq)
  /\ expectedMutation' = seq + 1
  /\ UNCHANGED sessionState

\* (true, nil): a duplicate is dropped and reported as success.
DuplicateMutation(seq) ==
  /\ sessionState = "READY"
  /\ 0 < seq /\ seq < expectedMutation
  /\ UNCHANGED sessionVars

\* Number 0 and a gap are fatal for the session.
BreakSession(seq) ==
  /\ sessionState = "READY"
  /\ seq = 0 \/ seq > expectedMutation
  /\ sessionState' = "CLOSED"
  /\ UNCHANGED expectedMutation

\* Any call before hello or after the session broke is refused.
RefuseMutation ==
  /\ sessionState # "READY"
  /\ UNCHANGED sessionVars

SessionTypeOK ==
  /\ sessionState \in {"NEW", "READY", "CLOSED"}
  /\ expectedMutation \in Nat \ {0}

==============================================================================
