SPECIFICATION Spec
CONSTANTS
  Wires = {"anthropic"}
  Bodies = {{"messages", "response_format", "output_config"}, {"messages", "stop", "stop_sequences", "max_completion_tokens", "max_tokens"}}
INVARIANT MessagesFieldStands
\* A request whose body is built, or refused, is done.
CHECK_DEADLOCK FALSE
