-------------------------- MODULE MCEdgeTransport --------------------------
(* Retry settings and statuses for EdgeTransport, for TLC. *)
EXTENDS EdgeTransport

NoSettings == [field \in NumericFields \cup {"enabled", "retry_on_status_codes"} |-> None]

\* The client's own settings: every attempt but the first is its choice.
ClientSettings == [NoSettings EXCEPT !.enabled = TRUE, !.max_attempts = 3]

\* Each way in which a call may depart from them, and an invalid one.
CallSettings ==
    { NoSettings,
      [NoSettings EXCEPT !.enabled = FALSE],
      [NoSettings EXCEPT !.enabled = FALSE, !.base_delay_ms = 3],
      [NoSettings EXCEPT !.max_attempts = 2],
      [NoSettings EXCEPT !.max_attempts = 0],
      [NoSettings EXCEPT !.base_delay_ms = 3, !.max_delay_ms = 4],
      [NoSettings EXCEPT !.base_delay_ms = -1],
      [NoSettings EXCEPT !.base_delay_ms = 3, !.max_delay_ms = 1],
      [NoSettings EXCEPT !.retry_on_status_codes = {409}],
      [NoSettings EXCEPT !.max_delay_ms = Invalid] }
=============================================================================
