----------------------------- MODULE ConfigFile -----------------------------
(***************************************************************************)
(* config.toml as load_config() reads it and as the locked updates change  *)
(* it.  A file is a function from the keys it holds to their values; the   *)
(* values are the ones the checks tell apart.                              *)
(***************************************************************************)
EXTENDS Integers

NotificationModes == {"quiet", "normal", "verbose", "debug"}
LegacyKeys == {"concise_mode", "concise_interval_minutes"}
NotificationKeys == {"mode", "interval_minutes", "agents_mode"} \union LegacyKeys

Get(c, key, default) == IF key \in DOMAIN c THEN c[key] ELSE default
Put(c, key, value) == [k \in DOMAIN c \union {key} |-> IF k = key THEN value ELSE c[k]]
Without(c, keys) == [k \in DOMAIN c \ keys |-> c[k]]

\* What load_config() accepts ----------------------------------------------

\* The session table and the required list of users.
AcceptedSession(c) ==
    /\ Get(c, "allowed_user_ids", {}) # {}
    /\ Get(c, "inactivity_timeout_seconds", 1800) > 0
    /\ Get(c, "attachments_cleanup_hours", 12) >= 0

\* A message length beyond Telegram's limit is clamped, not refused.
AcceptedOutput(c) ==
    /\ Get(c, "max_message_length", 4000) > 0
    /\ Get(c, "truncation_strategy", "split") = "split"
    /\ Get(c, "size_unit", "chars") \in
           {"chars", "codepoints", "words", "tokens", "lines", "sentences"}
    /\ Get(c, "log_level", "INFO") \in {"DEBUG", "INFO", "WARNING", "ERROR", "CRITICAL"}

\* The mode of today's key, else of the key it replaced.  A TOML Boolean is
\* "true" or "false" here.
Mode(c) ==
    IF "mode" \in DOMAIN c THEN c["mode"]
    ELSE IF "concise_mode" \in DOMAIN c
      THEN IF c["concise_mode"] \in {"true", "full"} THEN "quiet"
           ELSE IF c["concise_mode"] = "partial" THEN "normal" ELSE "verbose"
    ELSE "normal"

Interval(c) ==
    IF "mode" \in DOMAIN c THEN Get(c, "interval_minutes", 2)
    ELSE IF "concise_mode" \in DOMAIN c THEN Get(c, "concise_interval_minutes", 2)
    ELSE 2

Notifications(c) ==
    [mode |-> Mode(c), interval |-> Interval(c), agents |-> Get(c, "agents_mode", "quiet")]

\* The compaction threshold is 0, off, or a percentage from 20; only events that
\* exist are suppressed; the context windows of the available models are positive.
AcceptedHistory(c) ==
    /\ Get(c, "auto_compact_threshold", 85) \in {0} \union 20..100
    /\ "unknown" \notin Get(c, "suppressed_events", {})
    /\ \A window \in Get(c, "available", {}) : window > 0

AcceptedSearch(c) ==
    /\ Get(c, "top_k_return", 5) > 0
    /\ Get(c, "url", "with a host") = "with a host"
    /\ Get(c, "max_parallel_collections", 3) >= 1

\* Two servers listen: on different ports.  The second port has an old name.
AcceptedAgents(c) ==
    LET port == Get(c, "port", 18182)
        routerPort == Get(c, "router_mcp_port", Get(c, "orch_mcp_port", 18183))
    IN  /\ Get(c, "spawn_rule", "auto") \in {"eager", "auto", "manual"}
        /\ {port, routerPort} \subseteq 1..65535
        /\ Get(c, "tool_promotion_threshold", 10) >= 0
        /\ port # routerPort

AcceptedVoice(c) ==
    /\ Get(c, "tts_auto", "inbound") \in {"always", "inbound", "off"}
    /\ Get(c, "interval_messages", 12) >= 1
    /\ Get(c, "interval_tokens", 10000) >= 1

Accepted(c) ==
    /\ AcceptedSession(c) /\ AcceptedOutput(c)
    /\ Mode(c) \in NotificationModes
    /\ AcceptedHistory(c) /\ AcceptedSearch(c) /\ AcceptedAgents(c) /\ AcceptedVoice(c)

\* The updates -------------------------------------------------------------

\* An update that forgets the interval, whose old key it removes.
SaveModeOnly(c, n) ==
    Put(Put(Without(c, LegacyKeys), "mode", n.mode), "agents_mode", n.agents)

\* save_notifications_config(): the old keys go, the new ones are all written.
SaveNotifications(c, n) ==
    Put(Put(Put(Without(c, LegacyKeys), "mode", n.mode),
            "interval_minutes", n.interval), "agents_mode", n.agents)

\* config_collections_remove(): a file without the list is left as it is.
RemoveCollection(c, path) ==
    IF "collections" \in DOMAIN c
      THEN Put(c, "collections", c["collections"] \ {path}) ELSE c
=============================================================================
