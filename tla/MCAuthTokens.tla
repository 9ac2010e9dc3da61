---------------------------- MODULE MCAuthTokens ----------------------------
(* A small instance of AuthTokens for TLC.                                  *)
EXTENDS AuthTokens, TLC

CONSTANTS pilot

(* Every caller uses the managed AuthState and asks for the same pilot.    *)
OneStateVia == [t \in Callers |-> Main]
OnePilotFor == [t \in Callers |-> pilot]

CallerSymmetry == Permutations(Tokens) \cup Permutations(Callers)

=============================================================================
