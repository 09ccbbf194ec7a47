---------------------------- MODULE MCSignatureStore ----------------------------
(* run.py without the validator: the dispatch thread logs, bg-tasks exports.   *)
EXTENDS SignatureStore

CONSTANTS dispatch, background

Dispatch == {dispatch}
Background == {background}
==============================================================================
