------------------------ MODULE MCRetriedOperations ------------------------
(* Operations and retry settings for RetriedOperations, for TLC. *)
EXTENDS RetriedOperations

NoSettings == [field \in NumericFields \cup {"enabled", "retry_on_status_codes"} |-> None]

PythonOperations == {op \in OperationKinds : op.sdk = "py"}

Settings ==
    { NoSettings,
      [NoSettings EXCEPT !.enabled = FALSE],
      [NoSettings EXCEPT !.max_attempts = 2, !.retry_on_status_codes = {404}],
      [NoSettings EXCEPT !.max_attempts = Invalid, !.max_delay_ms = 0],
      [NoSettings EXCEPT !.max_attempts = 0, !.base_delay_ms = -1],
      [NoSettings EXCEPT !.base_delay_ms = 3, !.max_delay_ms = 1] }
=============================================================================
