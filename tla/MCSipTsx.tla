------------------------------ MODULE MCSipTsx ------------------------------
(***************************************************************************)
(* SipTsx on small instances.  The properties below state what a comment   *)
(* or an assertion of the code says and the code does not keep.            *)
(***************************************************************************)
EXTENDS SipTsx

\* A build with assertions goes no further than the first that fails.
FirstFailure == tsx.failed = {}

\* "Must be the timeout timer" (tsx_on_state_completed_uac): no retransmission
\* timer reaches a client transaction in Completed.
OnlyTimeoutInCompleted == "completed_timer" \notin tsx.failed

\* "Must not be triggered while transport is pending"
\* (tsx_on_state_proceeding_uas): no retransmission timer reaches a server
\* transaction in Proceeding that is waiting for a stateless send.
NoTimerWhilePending == "uas_pending_timer" \notin tsx.failed
=============================================================================
