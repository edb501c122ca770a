------------------------------ MODULE MCClients ------------------------------
EXTENDS Clients
Agent(strategy, cli, home, shape, fallback, manual) ==
  [strategy |-> strategy, cli |-> cli, home |-> home, shape |-> shape, fallback |-> fallback, manual |-> manual]
MCAgents == [
  claude   |-> Agent("CliDirect", TRUE, TRUE, "McpServersCommandArgs", FALSE, FALSE),
  bob      |-> Agent("CliDirect", TRUE, TRUE, "McpServersCommandArgs", TRUE, FALSE),
  cursor   |-> Agent("ConfigFile", FALSE, TRUE, "McpServersCommandArgs", FALSE, FALSE),
  opencode |-> Agent("CliDirect", TRUE, TRUE, "OpenCodeLocal", TRUE, FALSE),
  zed      |-> Agent("ConfigFile", FALSE, TRUE, "ZedContextServer", FALSE, FALSE),
  agy      |-> Agent("CliDirect", TRUE, FALSE, "Unknown", FALSE, FALSE),
  goose    |-> Agent("ConfigFile", TRUE, TRUE, "Unknown", FALSE, TRUE)]
==============================================================================
