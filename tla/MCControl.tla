----------------------------- MODULE MCControl -----------------------------
EXTENDS Control, TLC

Base == [allowed_user_ids |-> {7}, collections |-> {"docs"}]
Legacy == Base @@ [concise_mode |-> "partial", concise_interval_minutes |-> 7]
OldPort == Base @@ [mode |-> "quiet", orch_mcp_port |-> 18182]
MCContents == {Legacy, OldPort}
MCSettings == {<<"mode", "loud">>}
MCNotices == {<<"mode", "quiet">>}
MCTools == {"search_status", "search_collection_remove"}
MCCommands == {"remove"}
MCPaths == {"docs"}
MCSetups == {[file |-> 1, env |-> 0], [file |-> 0, env |-> 1]}
=============================================================================
