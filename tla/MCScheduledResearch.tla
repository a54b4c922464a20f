-------------------------- MODULE MCScheduledResearch --------------------------
(* Values of the scheduled research's constants for the model checker.     *)
EXTENDS ScheduledResearch

MCChannel == {[channel |-> TRUE, schedule |-> "recurring"]}

\* A daily briefing, and a job without a channel whose schedule has no next time.
MCBoth == MCChannel \cup {[channel |-> FALSE, schedule |-> "spent"]}
=============================================================================
