SPECIFICATION Spec
CONSTANTS
  Leaves = {"payment_rules", "automation_decisions", "prediction_records", "llm_usage_events", "draft_actions", "payment_allocations"}
  Late = {"documents", "blockers"}
INVARIANT DeletionCoversTenant
CHECK_DEADLOCK FALSE
